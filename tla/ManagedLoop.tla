----------------------------- MODULE ManagedLoop -----------------------------
(***************************************************************************)
(* runManagedLoop of src/src/proxy/managed-loop.js, for the requests of    *)
(* one session: they run concurrently and share the session's tool ledger, *)
(* keyed by tool_use id.  A request asks the model round after round; the  *)
(* proxy executes the calls of managed (web) tools itself, answers tool    *)
(* searches itself, and returns every other tool call to the client.       *)
(*                                                                         *)
(* One step is what the code does between two awaits whose outcome         *)
(* matters: a model answer with its whole classification, the start of one *)
(* tool call, the end of an execution, its delivery to one request.  A     *)
(* model call is containedUpstream followed by recoverInvalidResponse: one *)
(* answer or one failure; their retries stay inside the call.              *)
(***************************************************************************)
EXTENDS Naturals, Sequences, FiniteSets, SequencesExt, Subsequence

CONSTANTS
    Requests,          \* the requests of the session
    HandoffRequests,   \* those with passthroughManagedWebTools
    ModelIds,          \* the tool_use ids the model chooses from
    NoId,              \* a tool_use without an id
    Sigs,              \* what a call asks for: its name and its input
    Finals,            \* the end_turn replies without a tool call
    Turns,             \* the replies with tool calls: sequences of uses
    MaxRounds,         \* maxRounds
    ProbeEnabled,      \* completionProbeEnabled
    ProbeLimit,        \* maxCompletionProbesPerCandidate
    RetryLimit,        \* completionProbeMaxRetries
    TaskDeadline,      \* taskTimeoutMs > 0
    None

(* A deferred call gets a fresh id, createServerWebToolUse's random UUID. *)
ServerIds == Requests \X (1..3)
LedgerIds == ModelIds \cup ServerIds
Use == [kind : {"web", "client", "search"}, id : ModelIds \cup {NoId}, sig : Sigs]

ASSUME RequestsAssumption ==
    /\ IsFiniteSet(Requests)
    /\ HandoffRequests \subseteq Requests
ASSUME BoundsAssumption ==
    /\ MaxRounds \in Nat \ {0}
    /\ ProbeLimit \in 1..10
    /\ RetryLimit \in 0..2
    /\ ProbeEnabled \in BOOLEAN
    /\ TaskDeadline \in BOOLEAN
ASSUME TurnsAssumption ==
    \A u \in Turns : u \in Seq(Use) /\ u # <<>> /\ Len(u) <= 3
ASSUME NoneAssumption ==
    /\ None \notin Finals
    /\ None \notin {"final", "client_tools", "deferred", "handoff", "aborted",
                   "task_timeout", "model_error", "tool_id", "no_progress",
                   "call_failed", "loop_limit"}
ASSUME IdsAssumption == NoId \notin LedgerIds /\ ModelIds \cap ServerIds = {}

VARIABLES
    ledger,     \* toolExecutionLedger: id -> the call and its promise
    execs,      \* how often executeTool ran for an id
    aborted,    \* the requests whose client disconnected
    pc,         \* where a request awaits
    round,      \* the rounds a request has finished
    calls,      \* the managed calls of the round, or of the continuation
    turn,       \* the assistant and user message last pushed to request.messages
    previous,   \* previousManagedActionSignature
    open,       \* server_tool_use blocks published and not yet answered
    candidate,  \* candidateFinal
    attempts,   \* completionProbeAttempts
    retry,      \* retryAttempt
    pending,    \* completionContinuationPending
    outcome,    \* how the request ended
    deferred    \* the mixed turn a request returned to its client

sharedVars == <<ledger, execs>>
probeVars == <<candidate, attempts, retry, pending>>
vars == <<ledger, execs, aborted, pc, round, calls, turn, previous, open,
          candidate, attempts, retry, pending, outcome, deferred>>

NoTurn == [uses |-> <<>>, results |-> <<>>]
Live(r) == pc[r] \in {"resume", "model", "probe", "tools"}
Answered == {"final", "client_tools", "deferred", "handoff"}
Failures == {"aborted", "task_timeout", "model_error", "tool_id", "no_progress",
             "call_failed", "loop_limit"}

(* An id the ledger does not hold. *)
Absent == [sig |-> None, st |-> "absent", owner |-> None]

EntryType == [sig : Sigs, st : {"running", "ok", "error", "aborted", "timeout"},
              owner : Requests]
CallType == [id : LedgerIds, sig : Sigs, st : {"todo", "waiting", "ok", "error", "thrown"},
             got : Sigs \cup {None}]

TypeOK ==
    /\ ledger \in [LedgerIds -> EntryType \cup {Absent}]
    /\ execs \in [LedgerIds -> Nat]
    /\ aborted \subseteq Requests
    /\ pc \in [Requests -> {"idle", "resume", "model", "probe", "tools", "done"}]
    /\ round \in [Requests -> 0..MaxRounds]
    /\ \A r \in Requests : calls[r] \in Seq(CallType) /\ Len(calls[r]) <= 3
    /\ open \in [Requests -> Nat]
    /\ candidate \in [Requests -> Finals \cup {None}]
    /\ attempts \in [Requests -> [Finals -> 0..ProbeLimit]]
    /\ retry \in [Requests -> 0..RetryLimit]
    /\ pending \in [Requests -> BOOLEAN]
    /\ outcome \in [Requests -> Answered \cup Failures \cup {None}]

Init ==
    /\ ledger = [i \in LedgerIds |-> Absent]
    /\ execs = [i \in LedgerIds |-> 0]
    /\ aborted = {}
    /\ pc = [r \in Requests |-> "idle"]
    /\ round = [r \in Requests |-> 0]
    /\ calls = [r \in Requests |-> <<>>]
    /\ turn = [r \in Requests |-> NoTurn]
    /\ previous = [r \in Requests |-> None]
    /\ open = [r \in Requests |-> 0]
    /\ candidate = [r \in Requests |-> None]
    /\ attempts = [r \in Requests |-> [f \in Finals |-> 0]]
    /\ retry = [r \in Requests |-> 0]
    /\ pending = [r \in Requests |-> FALSE]
    /\ outcome = [r \in Requests |-> None]
    /\ deferred = [r \in Requests |-> <<>>]
-----------------------------------------------------------------------------
Web(u) == Select(u, LAMBDA x : x.kind = "web")
Some(u, kind) == \E i \in 1..Len(u) : u[i].kind = kind
ToCalls(u) ==
    [i \in 1..Len(u) |-> [id |-> u[i].id, sig |-> u[i].sig, st |-> "todo", got |-> None]]
Results(r) ==
    [i \in 1..Len(calls[r]) |->
       [kind |-> "web", id |-> calls[r][i].id, sig |-> calls[r][i].got]]
CallsDone(r) == \A i \in 1..Len(calls[r]) : calls[r][i].st \in {"ok", "error"}

(* A return or a throw.  Calls already dispatched by Promise.all go on. *)
End(r, o) ==
    /\ pc' = [pc EXCEPT ![r] = "done"]
    /\ outcome' = [outcome EXCEPT ![r] = o]

\* Mutant: a round that continues is not counted.
NextRoundUncounted(r) ==
    /\ pc' = [pc EXCEPT ![r] = "model"]
    /\ UNCHANGED <<round, outcome>>

(* The end of a round: continue, or run out of rounds. *)
NextRound(r) ==
    /\ round' = [round EXCEPT ![r] = @ + 1]
    /\ IF round[r] + 1 >= MaxRounds
         THEN End(r, "loop_limit")
         ELSE pc' = [pc EXCEPT ![r] = "model"] /\ UNCHANGED outcome
-----------------------------------------------------------------------------
(* A new user message, or one whose last assistant message is a mixed turn *)
(* that request q returned, with the client's own results.  The client may *)
(* send the same continuation again, after a failure or concurrently.      *)

Start(r) ==
    /\ pc[r] = "idle"
    /\ pc' = [pc EXCEPT ![r] = "model"]
    /\ UNCHANGED <<sharedVars, aborted, round, calls, turn, previous, open,
                   probeVars, outcome, deferred>>

StartContinuation(r, q) ==
    /\ pc[r] = "idle"
    /\ deferred[q] # <<>>
    /\ pc' = [pc EXCEPT ![r] = "resume"]
    /\ calls' = [calls EXCEPT ![r] = ToCalls(Web(deferred[q]))]
    /\ turn' = [turn EXCEPT ![r] =
         [uses |-> deferred[q],
          results |-> Select(deferred[q], LAMBDA x : x.kind = "client")]]
    /\ open' = [open EXCEPT ![r] = Len(Web(deferred[q]))]
    /\ UNCHANGED <<sharedVars, aborted, round, previous, probeVars, outcome, deferred>>

(* res 'close' before the response is complete. *)
Disconnect(r) ==
    /\ Live(r)
    /\ aborted' = aborted \cup {r}
    /\ UNCHANGED <<sharedVars, pc, round, calls, turn, previous, open, probeVars,
                   outcome, deferred>>
-----------------------------------------------------------------------------
(* A model round: the answer and how the loop classifies it *)

Asking(r) == pc[r] = "model" /\ r \notin aborted

ModelFails(r) ==
    /\ pc[r] = "model"
    /\ End(r, IF r \in aborted THEN "aborted" ELSE "model_error")
    /\ UNCHANGED <<sharedVars, aborted, round, calls, turn, previous, open, probeVars,
                   deferred>>

(* No tool call, and not an end_turn. *)
AnswerCut(r) ==
    /\ Asking(r)
    /\ End(r, "final")
    /\ UNCHANGED <<sharedVars, aborted, round, calls, turn, previous, open, probeVars,
                   deferred>>

(* end_turn without a tool call: returned, or probed first. *)
AnswerFinal(r, f) ==
    /\ Asking(r)
    /\ \/ /\ pending[r] \/ ~ProbeEnabled \/ attempts[r][f] >= ProbeLimit
          /\ End(r, "final")
          /\ UNCHANGED <<candidate, attempts, retry>>
       \/ /\ ~pending[r] /\ ProbeEnabled /\ attempts[r][f] < ProbeLimit
          /\ pc' = [pc EXCEPT ![r] = "probe"]
          /\ candidate' = [candidate EXCEPT ![r] = f]
          /\ attempts' = [attempts EXCEPT ![r][f] = @ + 1]
          /\ retry' = [retry EXCEPT ![r] = 0]
          /\ UNCHANGED outcome
    /\ pending' = [pending EXCEPT ![r] = FALSE]
    /\ UNCHANGED <<sharedVars, aborted, round, calls, turn, previous, open, deferred>>

(* Local tool search: every search is answered, every other call of the    *)
(* response is dropped from the history for the model to ask again.        *)
AnswerSearch(r, u) ==
    /\ Asking(r)
    /\ Some(u, "search")
    /\ LET kept == Select(u, LAMBDA x : x.kind = "search")
       IN turn' = [turn EXCEPT ![r] = [uses |-> kept, results |-> kept]]
    /\ pending' = [pending EXCEPT ![r] = FALSE]
    /\ NextRound(r)
    /\ UNCHANGED <<sharedVars, aborted, calls, previous, open, candidate, attempts,
                   retry, deferred>>

(* The client runs the web tools of this request itself. *)
AnswerHandoff(r, u) ==
    /\ Asking(r)
    /\ ~Some(u, "search") /\ Some(u, "web")
    /\ r \in HandoffRequests
    /\ End(r, "handoff")
    /\ pending' = [pending EXCEPT ![r] = FALSE]
    /\ UNCHANGED <<sharedVars, aborted, round, calls, turn, previous, open, candidate,
                   attempts, retry, deferred>>

(* A client tool: the response goes back, its managed calls as server      *)
(* calls with fresh ids that a later request of the session continues.     *)
AnswerClientTools(r, u) ==
    /\ Asking(r)
    /\ ~Some(u, "search") /\ Some(u, "client")
    /\ r \notin HandoffRequests \/ ~Some(u, "web")
    /\ IF Some(u, "web")
         THEN /\ deferred' = [deferred EXCEPT ![r] =
                   [i \in 1..Len(u) |->
                      IF u[i].kind = "web" THEN [u[i] EXCEPT !.id = <<r, i>>] ELSE u[i]]]
              /\ open' = [open EXCEPT ![r] = @ + Len(Web(u))]
              /\ End(r, "deferred")
         ELSE End(r, "client_tools") /\ UNCHANGED <<deferred, open>>
    /\ pending' = [pending EXCEPT ![r] = FALSE]
    /\ UNCHANGED <<sharedVars, aborted, round, calls, turn, previous, candidate,
                   attempts, retry>>

OnlyWeb(r, u) ==
    /\ ~Some(u, "search") /\ ~Some(u, "client")
    /\ r \notin HandoffRequests

AmbiguousIds(u) ==
    \/ \E i \in 1..Len(u) : u[i].id = NoId
    \/ \E i, j \in 1..Len(u) : u[i].id = u[j].id /\ u[i].sig # u[j].sig

ActionSignature(u) == [i \in 1..Len(u) |-> u[i].sig]

(* Managed calls that cannot be correlated, or that repeat the last ones. *)
AnswerRefused(r, u) ==
    /\ Asking(r)
    /\ OnlyWeb(r, u)
    /\ \/ AmbiguousIds(u) /\ End(r, "tool_id")
       \/ /\ ~AmbiguousIds(u)
          /\ previous[r] = ActionSignature(u)
          /\ End(r, "no_progress")
    /\ pending' = [pending EXCEPT ![r] = FALSE]
    /\ UNCHANGED <<sharedVars, aborted, round, calls, turn, previous, open, candidate,
                   attempts, retry, deferred>>

\* Mutant: results are published for calls the client was never shown.
AnswerManagedUnpublished(r, u) ==
    /\ Asking(r)
    /\ OnlyWeb(r, u)
    /\ ~AmbiguousIds(u)
    /\ previous[r] # ActionSignature(u)
    /\ previous' = [previous EXCEPT ![r] = ActionSignature(u)]
    /\ calls' = [calls EXCEPT ![r] = ToCalls(u)]
    /\ turn' = [turn EXCEPT ![r] = [uses |-> u, results |-> <<>>]]
    /\ pc' = [pc EXCEPT ![r] = "tools"]
    /\ pending' = [pending EXCEPT ![r] = FALSE]
    /\ UNCHANGED <<sharedVars, aborted, round, candidate, attempts, retry, outcome,
                   deferred, open>>

(* Managed calls: the use blocks are published, then all are dispatched. *)
AnswerManaged(r, u) ==
    /\ Asking(r)
    /\ OnlyWeb(r, u)
    /\ ~AmbiguousIds(u)
    /\ previous[r] # ActionSignature(u)
    /\ previous' = [previous EXCEPT ![r] = ActionSignature(u)]
    /\ calls' = [calls EXCEPT ![r] = ToCalls(u)]
    /\ turn' = [turn EXCEPT ![r] = [uses |-> u, results |-> <<>>]]
    /\ open' = [open EXCEPT ![r] = @ + Len(u)]
    /\ pc' = [pc EXCEPT ![r] = "tools"]
    /\ pending' = [pending EXCEPT ![r] = FALSE]
    /\ UNCHANGED <<sharedVars, aborted, round, candidate, attempts, retry, outcome,
                   deferred>>
-----------------------------------------------------------------------------
(* executeToolOnce.  A continuation runs its calls one after the other, a  *)
(* round all at once; a call of a round goes on when its request failed.   *)
(* Without a task deadline an abort only reaches a call through the fetch  *)
(* of the request that started it.                                         *)

MayRun(r, i) ==
    /\ calls[r][i].st = "todo"
    /\ outcome[r] # "task_timeout"
    /\ ~(TaskDeadline /\ r \in aborted)
    /\ pc[r] = "resume" => \A j \in 1..(i - 1) : calls[r][j].st \in {"ok", "error"}

\* Mutant: the ledger is written when the execution ends, not when it starts.
StartCallLate(r, i) ==
    LET c == calls[r][i] IN
    /\ MayRun(r, i)
    /\ ledger[c.id].st \in {"absent", "running"}
    /\ ledger' = [ledger EXCEPT ![c.id] = [sig |-> c.sig, st |-> "running", owner |-> r]]
    /\ execs' = [execs EXCEPT ![c.id] = @ + 1]
    /\ calls' = [calls EXCEPT ![r][i].st = "waiting"]
    /\ UNCHANGED <<aborted, pc, round, turn, previous, open, probeVars, outcome, deferred>>

\* Mutant: the ledger is written but never consulted.
StartCallAlways(r, i) ==
    LET c == calls[r][i] IN
    /\ MayRun(r, i)
    /\ ledger' = [ledger EXCEPT ![c.id] = [sig |-> c.sig, st |-> "running", owner |-> r]]
    /\ execs' = [execs EXCEPT ![c.id] = @ + 1]
    /\ calls' = [calls EXCEPT ![r][i].st = "waiting"]
    /\ UNCHANGED <<aborted, pc, round, turn, previous, open, probeVars, outcome, deferred>>

StartCall(r, i) ==
    LET c == calls[r][i] IN
    /\ MayRun(r, i)
    /\ ledger[c.id].st = "absent"
    /\ ledger' = [ledger EXCEPT ![c.id] = [sig |-> c.sig, st |-> "running", owner |-> r]]
    /\ execs' = [execs EXCEPT ![c.id] = @ + 1]
    /\ calls' = [calls EXCEPT ![r][i].st = "waiting"]
    /\ UNCHANGED <<aborted, pc, round, turn, previous, open, probeVars, outcome, deferred>>

\* Mutant: an id is enough to share an execution.
JoinCallAnySignature(r, i) ==
    LET c == calls[r][i] IN
    /\ MayRun(r, i)
    /\ ledger[c.id].st # "absent"
    /\ calls' = [calls EXCEPT ![r][i].st = "waiting"]
    /\ UNCHANGED <<sharedVars, aborted, pc, round, turn, previous, open, probeVars,
                   outcome, deferred>>

JoinCall(r, i) ==
    LET c == calls[r][i] IN
    /\ MayRun(r, i)
    /\ ledger[c.id].st # "absent"
    /\ ledger[c.id].sig = c.sig
    /\ calls' = [calls EXCEPT ![r][i].st = "waiting"]
    /\ UNCHANGED <<sharedVars, aborted, pc, round, turn, previous, open, probeVars,
                   outcome, deferred>>

(* managed_tool_id_conflict across rounds or requests: an error result. *)
ConflictCall(r, i) ==
    LET c == calls[r][i] IN
    /\ MayRun(r, i)
    /\ ledger[c.id].st # "absent"
    /\ ledger[c.id].sig # c.sig
    /\ calls' = [calls EXCEPT ![r][i].st = "error", ![r][i].got = c.sig]
    /\ open' = [open EXCEPT ![r] = @ - 1]
    /\ UNCHANGED <<sharedVars, aborted, pc, round, turn, previous, probeVars, outcome,
                   deferred>>

(* executeTool ends: with its result or an HttpError, also after the signal *)
(* of its starter was aborted, or with that signal's reason: an AbortError,*)
(* or the deadline of the starter, which a call keeps when another call    *)
(* failed its request.                                                     *)
Reason(r) ==
    IF outcome[r] = "task_timeout" THEN {"timeout"}
    ELSE IF r \in aborted THEN {"aborted"}
    ELSE IF TaskDeadline /\ outcome[r] = "call_failed" THEN {"timeout"}
    ELSE {}

Settle(id) ==
    /\ ledger[id].st = "running"
    /\ \E st \in {"ok", "error"} \cup Reason(ledger[id].owner) :
         ledger' = [ledger EXCEPT ![id].st = st]
    /\ UNCHANGED <<execs, aborted, pc, round, calls, turn, previous, open, probeVars,
                   outcome, deferred>>

\* Mutant: an error result is not published.
DeliverCallQuietError(r, i) ==
    LET e == ledger[calls[r][i].id] IN
    /\ calls[r][i].st = "waiting"
    /\ e.st \in {"ok", "error"}
    /\ calls' = [calls EXCEPT ![r][i].st = e.st, ![r][i].got = e.sig]
    /\ open' = [open EXCEPT ![r] = IF e.st = "ok" THEN @ - 1 ELSE @]
    /\ UNCHANGED <<sharedVars, aborted, pc, round, turn, previous, probeVars, outcome,
                   deferred>>

(* The result or the HttpError reaches a caller, which publishes it. *)
DeliverCall(r, i) ==
    LET e == ledger[calls[r][i].id] IN
    /\ calls[r][i].st = "waiting"
    /\ e.st \in {"ok", "error"}
    /\ calls' = [calls EXCEPT ![r][i].st = e.st, ![r][i].got = e.sig]
    /\ open' = [open EXCEPT ![r] = @ - 1]
    /\ UNCHANGED <<sharedVars, aborted, pc, round, turn, previous, probeVars, outcome,
                   deferred>>

\* Mutant: the rejection reaches only the request whose signal it was.
RethrowCallOwn(r, i) ==
    /\ calls[r][i].st = "waiting"
    /\ ledger[calls[r][i].id].st \in {"aborted", "timeout"}
    /\ ledger[calls[r][i].id].owner = r
    /\ calls' = [calls EXCEPT ![r] = IF pc[r] = "resume" THEN <<>>
                                     ELSE [@ EXCEPT ![i].st = "thrown"]]
    /\ IF Live(r) THEN End(r, "call_failed") ELSE UNCHANGED <<pc, outcome>>
    /\ UNCHANGED <<sharedVars, aborted, round, turn, previous, open, probeVars, deferred>>

(* An AbortError or managed_task_timeout is rethrown: the request fails,   *)
(* whoever's signal it was.                                                *)
RethrowCall(r, i) ==
    /\ calls[r][i].st = "waiting"
    /\ ledger[calls[r][i].id].st \in {"aborted", "timeout"}
    /\ calls' = [calls EXCEPT ![r] = IF pc[r] = "resume" THEN <<>>
                                     ELSE [@ EXCEPT ![i].st = "thrown"]]
    /\ IF Live(r) THEN End(r, "call_failed") ELSE UNCHANGED <<pc, outcome>>
    /\ UNCHANGED <<sharedVars, aborted, round, turn, previous, open, probeVars, deferred>>

(* With a task deadline every wait races the abort and the deadline. *)
Thrown(c) == IF c.st = "waiting" THEN [c EXCEPT !.st = "thrown"] ELSE c

StopWaiting(r, o) ==
    /\ End(r, o)
    /\ calls' = [calls EXCEPT ![r] = IF pc[r] = "resume" THEN <<>>
                                     ELSE [i \in 1..Len(@) |-> Thrown(@[i])]]
    /\ UNCHANGED <<sharedVars, aborted, round, turn, previous, open, probeVars, deferred>>

AbortCalls(r) ==
    /\ TaskDeadline
    /\ pc[r] \in {"tools", "resume"} /\ ~CallsDone(r)
    /\ r \in aborted
    /\ StopWaiting(r, "aborted")

TaskTimeout(r) ==
    /\ TaskDeadline
    /\ Live(r)
    /\ StopWaiting(r, "task_timeout")

PushResults(r) ==
    /\ pc[r] = "tools"
    /\ CallsDone(r)
    /\ turn' = [turn EXCEPT ![r].results = Results(r)]
    /\ calls' = [calls EXCEPT ![r] = <<>>]
    /\ NextRound(r)
    /\ UNCHANGED <<sharedVars, aborted, previous, open, probeVars, deferred>>

\* Mutant: the user message keeps the synthetic results only.
PushContinuationOverwrites(r) ==
    /\ pc[r] = "resume"
    /\ CallsDone(r)
    /\ turn' = [turn EXCEPT ![r].results = Results(r)]
    /\ calls' = [calls EXCEPT ![r] = <<>>]
    /\ pc' = [pc EXCEPT ![r] = "model"]
    /\ UNCHANGED <<sharedVars, aborted, round, previous, open, probeVars, outcome,
                   deferred>>

PushContinuation(r) ==
    /\ pc[r] = "resume"
    /\ CallsDone(r)
    /\ turn' = [turn EXCEPT ![r].results = @ \o Results(r)]
    /\ calls' = [calls EXCEPT ![r] = <<>>]
    /\ pc' = [pc EXCEPT ![r] = "model"]
    /\ UNCHANGED <<sharedVars, aborted, round, previous, open, probeVars, outcome,
                   deferred>>
-----------------------------------------------------------------------------
(* The hidden completion probe *)

ProbeComplete(r) ==
    /\ pc[r] = "probe"
    /\ r \notin aborted
    /\ End(r, "final")
    /\ candidate' = [candidate EXCEPT ![r] = None]
    /\ UNCHANGED <<sharedVars, aborted, round, calls, turn, previous, open, attempts,
                   retry, pending, deferred>>

\* Mutant: the continuation does not look at the rounds that are left.
ProbeContinueAnyRound(r) ==
    /\ pc[r] = "probe"
    /\ r \notin aborted
    /\ candidate' = [candidate EXCEPT ![r] = None]
    /\ pending' = [pending EXCEPT ![r] = TRUE]
    /\ NextRound(r)
    /\ UNCHANGED <<sharedVars, aborted, calls, turn, previous, open, attempts, retry,
                   deferred>>

(* Work remains: another round, or the candidate when it was the last. *)
ProbeContinue(r) ==
    /\ pc[r] = "probe"
    /\ r \notin aborted
    /\ candidate' = [candidate EXCEPT ![r] = None]
    /\ IF round[r] + 1 >= MaxRounds
         THEN End(r, "final") /\ UNCHANGED <<round, pending>>
         ELSE NextRound(r) /\ pending' = [pending EXCEPT ![r] = TRUE]
    /\ UNCHANGED <<sharedVars, aborted, calls, turn, previous, open, attempts, retry,
                   deferred>>

(* A probe that timed out, failed or decided nothing is retried, then the  *)
(* candidate is returned; only an abort takes the request down.            *)
ProbeFails(r) ==
    /\ pc[r] = "probe"
    /\ \/ r \in aborted /\ End(r, "aborted") /\ UNCHANGED <<candidate, retry>>
       \/ /\ r \notin aborted /\ retry[r] < RetryLimit
          /\ retry' = [retry EXCEPT ![r] = @ + 1]
          /\ UNCHANGED <<pc, outcome, candidate>>
       \/ /\ r \notin aborted /\ retry[r] >= RetryLimit
          /\ End(r, "final")
          /\ candidate' = [candidate EXCEPT ![r] = None]
          /\ UNCHANGED retry
    /\ UNCHANGED <<sharedVars, aborted, round, calls, turn, previous, open, attempts,
                   pending, deferred>>
-----------------------------------------------------------------------------
ModelStep(r) ==
    \/ ModelFails(r)
    \/ AnswerCut(r)
    \/ \E f \in Finals : AnswerFinal(r, f)
    \/ \E u \in Turns :
         \/ AnswerSearch(r, u)
         \/ AnswerHandoff(r, u)
         \/ AnswerClientTools(r, u)
         \/ AnswerRefused(r, u)
         \/ AnswerManaged(r, u)

CallStep(r) ==
    \/ \E i \in 1..Len(calls[r]) :
         \/ StartCall(r, i)
         \/ JoinCall(r, i)
         \/ ConflictCall(r, i)
         \/ DeliverCall(r, i)
         \/ RethrowCall(r, i)
    \/ AbortCalls(r)
    \/ PushResults(r)
    \/ PushContinuation(r)

ProbeStep(r) == ProbeComplete(r) \/ ProbeContinue(r) \/ ProbeFails(r)

Next ==
    \/ \E r \in Requests :
         \/ Start(r)
         \/ \E q \in Requests : StartContinuation(r, q)
         \/ Disconnect(r)
         \/ TaskTimeout(r)
         \/ ModelStep(r)
         \/ CallStep(r)
         \/ ProbeStep(r)
    \/ \E id \in LedgerIds : Settle(id)

Spec == Init /\ [][Next]_vars

(* Model and probe calls answer, fail or stall, and a stall is a failure;  *)
(* fetch bounds a tool's silence; the rest are steps of the event loop.    *)
(* No client has to send a request or to disconnect.                       *)
Fairness ==
    /\ \A r \in Requests : WF_vars(ModelStep(r) \/ CallStep(r) \/ ProbeStep(r))
    /\ \A id \in LedgerIds : WF_vars(Settle(id))

FairSpec == Spec /\ Fairness
-----------------------------------------------------------------------------
(* What the loop promises *)

(* A managed tool runs at most once per tool_use id in a session, whatever *)
(* rounds repeat the id, requests run side by side, or clients send a      *)
(* continuation again (executeToolOnce).                                   *)
AtMostOnce == \A id \in LedgerIds : execs[id] <= 1

(* Whenever the model is asked, the last pushed assistant message and the  *)
(* user message after it pair every tool call with one result of that id,  *)
(* and the result is of an execution with the call's own name and input,   *)
(* never one another call left in the ledger (results, syntheticResults,   *)
(* the filter of the tool search branch).                                  *)
Count(s, x) == Cardinality({i \in 1..Len(s) : s[i] = x})
HistoryPaired ==
    \A r \in Requests : pc[r] = "model" =>
      \A x \in ToSet(turn[r].uses) \cup ToSet(turn[r].results) :
        Count(turn[r].uses, x) = Count(turn[r].results, x)

(* When a request returns a response, the client has a result block for    *)
(* every server_tool_use block it was shown, save those this very response *)
(* hands over to be continued (publishServerBlock, deferMixedServerTools). *)
ClientSeesPairs ==
    \A r \in Requests : outcome[r] \in Answered =>
      open[r] = Len(Web(deferred[r]))

(* A valid reply that is being probed reaches the client unless the client *)
(* leaves or the task times out; a continuation the probe asked for cannot *)
(* run out of rounds (the completion probe of the loop).                   *)
CandidateKept ==
    \A r \in Requests : outcome[r] \in Failures =>
      /\ candidate[r] # None => outcome[r] \in {"aborted", "task_timeout"}
      /\ pending[r] => outcome[r] \in {"aborted", "task_timeout", "model_error"}

(* Every request ends, also when it waits for an execution that another    *)
(* request of the session started and abandoned.                           *)
EveryRequestEnds == \A r \in Requests : Live(r) ~> pc[r] = "done"
=============================================================================

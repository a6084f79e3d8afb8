---------------------------- MODULE MediaAnalysis ----------------------------
(***************************************************************************)
(* The analysis of one attachment by concurrent requests: cachedAnalysis   *)
(* and analyzeWithAdmission (src/src/proxy/media-adapters.js) over the     *)
(* single-flight MediaAnalysisRegistry (src/src/media/analysis-registry.js)*)
(* and the vision semaphore, which is the module Semaphore: its callers    *)
(* are the running analyses, and their signal is the registry's shared     *)
(* AbortController.                                                        *)
(*                                                                         *)
(* A request runs at most one analysis, so an entry of the registry is     *)
(* named by the request that created it.                                   *)
(***************************************************************************)
EXTENDS Naturals, Sequences, FiniteSets

CONSTANTS
    Requests,
    Keys,      \* the cache keys of attachments
    KeyOf,     \* the attachment of a request
    Flaky,     \* the requests whose client may disconnect or stop reading
    Limit,     \* visionMaxConcurrency
    MaxCalls,  \* bound on the vision calls for a key (pages, zoom tiles)
    None

ASSUME RequestsAssumption == IsFiniteSet(Requests) /\ None \notin Requests
ASSUME FlakyAssumption == Flaky \subseteq Requests
ASSUME KeyOfAssumption == KeyOf \in [Requests -> Keys]
ASSUME BoundsAssumption == Limit \in Nat \ {0} /\ MaxCalls \in [Keys -> Nat]

VARIABLES
    pc,         \* what a request awaits
    cause,      \* why a request failed
    joined,     \* the entry a request waits for, or waited for
    left,       \* the requests whose client disconnected
    broken,     \* the requests whose progress stream rejects writes
    inflight,   \* this.inflight: the entry of a key
    waiters,    \* entry.waiters
    analysis,   \* what the producer of an entry does; "settled" is entry.settled
    result,     \* how the producer settled
    calls,      \* the vision calls an analysis has made
    cached,     \* the keys of mediaCache
    active, waiting, vision, cancelled, draining   \* the vision semaphore

requestVars == <<pc, cause, joined, left, broken>>
entryVars == <<inflight, waiters, analysis, result, calls>>
visionVars == <<active, waiting, vision, cancelled, draining>>
vars == <<requestVars, entryVars, cached, visionVars>>

V == INSTANCE Semaphore WITH Callers <- Requests, pc <- vision, aborted <- cancelled

Causes == {"abort", "error", "stream"}
Running(e) == analysis[e] \in {"recheck", "working", "store"}

TypeOK ==
    /\ pc \in [Requests -> {"idle", "loading", "waiting", "done", "failed"}]
    /\ cause \in [Requests -> Causes \cup {None}]
    /\ joined \in [Requests -> Requests \cup {None}]
    /\ left \subseteq Requests /\ broken \subseteq Requests
    /\ inflight \in [Keys -> Requests \cup {None}]
    /\ waiters \in [Requests -> Nat]
    /\ analysis \in [Requests -> {"none", "recheck", "working", "store", "settled"}]
    /\ result \in [Requests -> Causes \cup {None, "ok"}]
    /\ \A r \in Requests : calls[r] \in 0..MaxCalls[KeyOf[r]]
    /\ cached \subseteq Keys
    /\ V!TypeOK

Init ==
    /\ pc = [r \in Requests |-> "idle"]
    /\ cause = [r \in Requests |-> None]
    /\ joined = [r \in Requests |-> None]
    /\ left = {} /\ broken = {}
    /\ inflight = [k \in Keys |-> None]
    /\ waiters = [r \in Requests |-> 0]
    /\ analysis = [r \in Requests |-> "none"]
    /\ result = [r \in Requests |-> None]
    /\ calls = [r \in Requests |-> 0]
    /\ cached = {}
    /\ V!Init
-----------------------------------------------------------------------------
(* cachedAnalysis until it enters the registry *)

Fail(r, c) ==
    /\ pc' = [pc EXCEPT ![r] = "failed"]
    /\ cause' = [cause EXCEPT ![r] = c]

Lookup(r) ==
    /\ pc[r] = "idle"
    /\ pc' = [pc EXCEPT ![r] = IF KeyOf[r] \in cached THEN "done" ELSE "loading"]
    /\ UNCHANGED <<cause, joined, left, broken, entryVars, cached, visionVars>>

LoadFails(r) ==
    /\ pc[r] = "loading"
    /\ Fail(r, IF r \in left THEN "abort" ELSE "error")
    /\ UNCHANGED <<joined, left, broken, entryVars, cached, visionVars>>

(* MediaAnalysisRegistry.run *)
RunAborted(r) ==
    /\ pc[r] = "loading" /\ r \in left
    /\ Fail(r, "abort")
    /\ UNCHANGED <<joined, left, broken, entryVars, cached, visionVars>>

\* Mutant: the registry does not look for an entry of the key.
RunCreateAlways(r) ==
    /\ pc[r] = "loading" /\ r \notin left
    /\ pc' = [pc EXCEPT ![r] = "waiting"]
    /\ joined' = [joined EXCEPT ![r] = r]
    /\ inflight' = [inflight EXCEPT ![KeyOf[r]] = r]
    /\ analysis' = [analysis EXCEPT ![r] = "recheck"]
    /\ waiters' = [waiters EXCEPT ![r] = 1]
    /\ UNCHANGED <<cause, left, broken, result, calls, cached, visionVars>>

\* Mutant: the waiter that creates an entry is not counted.
RunCreateUncounted(r) ==
    /\ pc[r] = "loading" /\ r \notin left
    /\ inflight[KeyOf[r]] = None
    /\ pc' = [pc EXCEPT ![r] = "waiting"]
    /\ joined' = [joined EXCEPT ![r] = r]
    /\ inflight' = [inflight EXCEPT ![KeyOf[r]] = r]
    /\ analysis' = [analysis EXCEPT ![r] = "recheck"]
    /\ UNCHANGED <<cause, left, broken, waiters, result, calls, cached, visionVars>>

RunCreate(r) ==
    /\ pc[r] = "loading" /\ r \notin left
    /\ inflight[KeyOf[r]] = None
    /\ pc' = [pc EXCEPT ![r] = "waiting"]
    /\ joined' = [joined EXCEPT ![r] = r]
    /\ inflight' = [inflight EXCEPT ![KeyOf[r]] = r]
    /\ analysis' = [analysis EXCEPT ![r] = "recheck"]
    /\ waiters' = [waiters EXCEPT ![r] = 1]
    /\ UNCHANGED <<cause, left, broken, result, calls, cached, visionVars>>

RunJoin(r) ==
    LET e == inflight[KeyOf[r]] IN
    /\ pc[r] = "loading" /\ r \notin left
    /\ e # None
    /\ pc' = [pc EXCEPT ![r] = "waiting"]
    /\ joined' = [joined EXCEPT ![r] = e]
    /\ waiters' = [waiters EXCEPT ![e] = @ + 1]
    /\ UNCHANGED <<cause, left, broken, inflight, analysis, result, calls, cached,
                   visionVars>>
-----------------------------------------------------------------------------
(* The waiters of an entry *)

\* Mutant: the waiter that created an entry cancels it when it leaves.
DisconnectCreator(r) ==
    LET e == joined[r] IN
    /\ pc[r] \in {"loading", "waiting"} /\ r \notin left
    /\ left' = left \cup {r}
    /\ broken' \in {broken, IF Running(r) THEN broken \cup {r} ELSE broken}
    /\ IF pc[r] = "waiting"
         THEN /\ Fail(r, "abort")
              /\ waiters' = [waiters EXCEPT ![e] = @ - 1]
              /\ IF e = r /\ analysis[e] # "settled"
                   THEN V!Abort(e) ELSE UNCHANGED visionVars
         ELSE UNCHANGED <<pc, cause, waiters, visionVars>>
    /\ UNCHANGED <<joined, inflight, analysis, result, calls, cached>>

(* The client disconnects; a waiter leaves (onAbort, finish), the last one *)
(* cancels the analysis.  A report that is being written to the client at  *)
(* that moment is rejected.                                                *)
Disconnect(r) ==
    LET e == joined[r] IN
    /\ pc[r] \in {"loading", "waiting"} /\ r \notin left
    /\ left' = left \cup {r}
    /\ broken' \in {broken, IF Running(r) THEN broken \cup {r} ELSE broken}
    /\ IF pc[r] = "waiting"
         THEN /\ Fail(r, "abort")
              /\ waiters' = [waiters EXCEPT ![e] = @ - 1]
              /\ IF waiters[e] = 1 /\ analysis[e] # "settled" /\ e \notin cancelled
                   THEN V!Abort(e) ELSE UNCHANGED visionVars
         ELSE UNCHANGED <<pc, cause, waiters, visionVars>>
    /\ UNCHANGED <<joined, inflight, analysis, result, calls, cached>>

(* A progress write does not drain in time.  Only the stream of a creator  *)
(* is written by an analysis.                                              *)
StreamBreaks(r) ==
    /\ pc[r] = "waiting" /\ r \notin broken
    /\ Running(r)
    /\ broken' = broken \cup {r}
    /\ UNCHANGED <<pc, cause, joined, left, entryVars, cached, visionVars>>

(* The entry's promise reaches a waiter. *)
Deliver(r) ==
    LET e == joined[r] IN
    /\ pc[r] = "waiting"
    /\ analysis[e] = "settled"
    /\ waiters' = [waiters EXCEPT ![e] = @ - 1]
    /\ IF result[e] = "ok"
         THEN pc' = [pc EXCEPT ![r] = "done"] /\ UNCHANGED cause
         ELSE Fail(r, result[e])
    /\ UNCHANGED <<joined, left, broken, inflight, analysis, result, calls, cached,
                   visionVars>>
-----------------------------------------------------------------------------
(* The producer *)

(* The promise settles and its finally block takes the entry out. *)
Settle(e, res) ==
    /\ analysis' = [analysis EXCEPT ![e] = "settled"]
    /\ result' = [result EXCEPT ![e] = res]
    /\ inflight' = IF inflight[KeyOf[e]] = e
                     THEN [inflight EXCEPT ![KeyOf[e]] = None] ELSE inflight

\* Mutant: the cache is not looked up again inside the single flight.
RecheckBlind(e) ==
    /\ analysis[e] = "recheck"
    /\ analysis' = [analysis EXCEPT ![e] = "working"]
    /\ UNCHANGED <<requestVars, waiters, inflight, result, calls, cached, visionVars>>

Recheck(e) ==
    /\ analysis[e] = "recheck"
    /\ IF KeyOf[e] \in cached
         THEN Settle(e, "ok")
         ELSE /\ analysis' = [analysis EXCEPT ![e] = "working"]
              /\ UNCHANGED <<result, inflight>>
    /\ UNCHANGED <<requestVars, waiters, calls, cached, visionVars>>

\* Mutant: the call does not wait for a permit.
AcquireVisionUnbounded(e) ==
    /\ analysis[e] = "working" /\ calls[e] < MaxCalls[KeyOf[e]]
    /\ vision[e] = "idle"
    /\ vision' = [vision EXCEPT ![e] = "holding"]
    /\ active' = active + 1
    /\ calls' = [calls EXCEPT ![e] = @ + 1]
    /\ UNCHANGED <<requestVars, inflight, waiters, analysis, result, cached, waiting,
                   cancelled, draining>>

(* acquireVision with the shared signal, for each call of the analysis. *)
AcquireVision(e) ==
    /\ analysis[e] = "working" /\ calls[e] < MaxCalls[KeyOf[e]]
    /\ V!AcquireAborted(e) \/ V!AcquireFree(e) \/ V!AcquireQueued(e)
    /\ calls' = [calls EXCEPT ![e] = @ + 1]
    /\ UNCHANGED <<requestVars, inflight, waiters, analysis, result, cached>>

NextVision(e) ==
    /\ analysis[e] = "working" /\ calls[e] < MaxCalls[KeyOf[e]]
    /\ vision[e] = "released"
    /\ cancelled' = cancelled /\ V!NextCall(e)
    /\ UNCHANGED <<requestVars, entryVars, cached>>

\* Mutant: the release is not in a finally block.
VisionReturnsNoFinally(e) ==
    /\ analysis[e] = "working" /\ vision[e] = "holding"
    /\ \/ V!Release(e) /\ UNCHANGED <<inflight, analysis, result>>
       \/ \E c \in Causes :
            /\ c = "stream" => e \in broken
            /\ c = "abort" => e \in cancelled
            /\ Settle(e, c)
            /\ UNCHANGED visionVars
    /\ UNCHANGED <<requestVars, waiters, calls, cached>>

(* A vision call returns or throws; the permit is released in both cases.  *)
(* It also reports progress, through the creator's stream.                 *)
VisionReturns(e) ==
    /\ analysis[e] = "working" /\ vision[e] = "holding"
    /\ V!Release(e)
    /\ \/ UNCHANGED <<inflight, analysis, result>>
       \/ \E c \in Causes :
            /\ c = "stream" => e \in broken
            /\ c = "abort" => e \in cancelled
            /\ Settle(e, c)
    /\ UNCHANGED <<requestVars, waiters, calls, cached>>

VisionRejected(e) ==
    /\ analysis[e] = "working" /\ vision[e] = "rejected"
    /\ Settle(e, "abort")
    /\ UNCHANGED <<requestVars, waiters, calls, cached, visionVars>>

(* The steps outside the vision calls: parsing and rendering may fail, and *)
(* reportProgress is the onProgress of the request that created the entry. *)
WorkFails(e) ==
    /\ analysis[e] = "working" /\ vision[e] \in {"idle", "released"}
    /\ \E c \in Causes :
         /\ c = "stream" => e \in broken
         /\ c = "abort" => e \in cancelled
         /\ Settle(e, c)
    /\ UNCHANGED <<requestVars, waiters, calls, cached, visionVars>>

(* value.cacheable === false is returned without a write. *)
Analysed(e) ==
    /\ analysis[e] = "working" /\ vision[e] \in {"idle", "released"}
    /\ \/ analysis' = [analysis EXCEPT ![e] = "store"] /\ UNCHANGED <<result, inflight>>
       \/ Settle(e, "ok")
    /\ UNCHANGED <<requestVars, waiters, calls, cached, visionVars>>

(* mediaCache.set may fail, which does not fail the analysis. *)
Store(e) ==
    /\ analysis[e] = "store"
    /\ cached' \in {cached, cached \cup {KeyOf[e]}}
    /\ Settle(e, "ok")
    /\ UNCHANGED <<requestVars, waiters, calls, visionVars>>

(* Eviction or expiry. *)
Evict(k) ==
    /\ k \in cached
    /\ cached' = cached \ {k}
    /\ UNCHANGED <<requestVars, entryVars, visionVars>>
-----------------------------------------------------------------------------
RequestStep(r) ==
    \/ Lookup(r) \/ LoadFails(r)
    \/ RunAborted(r) \/ RunCreate(r) \/ RunJoin(r)
    \/ Deliver(r)

ProducerStep(e) ==
    \/ Recheck(e)
    \/ AcquireVision(e) \/ NextVision(e) \/ VisionReturns(e) \/ VisionRejected(e)
    \/ WorkFails(e) \/ Analysed(e) \/ Store(e)

(* The semaphore's own steps. *)
SemaphoreStep ==
    /\ \/ V!DrainReject \/ V!DrainGrant \/ V!DrainDone
       \/ \E e \in Requests : V!OnAbort(e)
    /\ UNCHANGED <<requestVars, entryVars, cached>>

(* A release drains to its end before anything else runs. *)
Next ==
    \/ /\ ~draining
       /\ \/ \E r \in Requests :
               RequestStep(r) \/ ProducerStep(r)
          \/ \E r \in Flaky : Disconnect(r) \/ StreamBreaks(r)
          \/ \E k \in Keys : Evict(k)
    \/ SemaphoreStep

Spec == Init /\ [][Next]_vars

(* Cache, parser and vision calls end (visionTimeoutMs), a promise reaches *)
(* its waiters, listeners and drains run.                                  *)
Fairness ==
    /\ \A r \in Requests :
         /\ WF_vars(~draining /\ ProducerStep(r))
         /\ WF_vars(~draining /\ Deliver(r))
    /\ WF_vars(SemaphoreStep)

FairSpec == Spec /\ Fairness
-----------------------------------------------------------------------------
(* What the parts promise together *)

(* An attachment is analysed by one producer at a time, the one a new      *)
(* request of the key finds, also while it is being cancelled or written   *)
(* to the cache (run, the finally block of entry.promise).                 *)
OneAnalysisPerKey ==
    /\ \A e \in Requests : Running(e) => inflight[KeyOf[e]] = e
    /\ \A k \in Keys : inflight[k] # None => Running(inflight[k]) /\ KeyOf[inflight[k]] = k

(* An entry counts the requests that wait for it, and an analysis that     *)
(* nobody waits for any more is cancelled, whatever the order of joins,    *)
(* disconnects and results (run, finish).                                  *)
WaitersCounted ==
    \A e \in Requests :
      /\ waiters[e] = Cardinality({r \in Requests : pc[r] = "waiting" /\ joined[r] = e})
      /\ Running(e) /\ waiters[e] = 0 => e \in cancelled

(* Nobody is waiting when an analysis is cancelled: a waiter that leaves,  *)
(* be it the one that started the analysis, does not take it from others.  *)
CancelledByTheLast ==
    [][\A e \in cancelled' \ cancelled :
         \A r \in Requests : joined'[r] = e => pc'[r] # "waiting"]_vars

(* The vision model is never asked about an attachment whose analysis is   *)
(* in the cache, although a request may enter the registry long after its  *)
(* own lookup missed (the recheck in cachedAnalysis).                      *)
NoAnalysisOfCached ==
    \A e \in Requests : vision[e] = "holding" => KeyOf[e] \notin cached

(* An attachment is never analysed twice, neither at the same time nor     *)
(* after its evidence is cached.                                           *)
SingleFlight == TypeOK /\ OneAnalysisPerKey /\ NoAnalysisOfCached

(* A settled analysis neither holds nor queues for a vision permit         *)
(* (analyzeWithAdmission's finally, the abort of a queued acquire).        *)
PermitsReturned ==
    \A e \in Requests :
      analysis[e] = "settled" => vision[e] \notin {"holding", "waiting"}

(* What the analyses do to the semaphore is what Semaphore allows, so its  *)
(* theorems hold for the vision permits.                                   *)
AdmissionIsSemaphore == V!Spec

(* Every waiter is answered, or leaves (Deliver, finish). *)
WaitersAnswered == \A r \in Requests : pc[r] = "waiting" ~> pc[r] # "waiting"

(* Only the client's own disconnect aborts a request, not the cancellation *)
(* of others that waited for the same analysis (run, finish).              *)
NoForeignAbort == \A r \in Requests : cause[r] = "abort" => r \in left
=============================================================================

------------------------------ MODULE Semaphore ------------------------------
(***************************************************************************)
(* The counting semaphore of src/src/concurrency/semaphore.js, through     *)
(* which AdmissionController bounds the calls to the vision model and to   *)
(* the WebFetch processor.  A caller is one acquire() at a time: the       *)
(* promise it was given, the release function it resolves to and the       *)
(* AbortSignal it passed.                                                  *)
(*                                                                         *)
(* JavaScript runs a release to completion, but an abort is not one step:  *)
(* the signal is already aborted while its listeners run one after the     *)
(* other, and a listener that runs first may release a permit.  So the     *)
(* flag (Abort) and the semaphore's own listener (OnAbort) are two steps,  *)
(* and the drain loop, which does look at the flag, may run between them.  *)
(***************************************************************************)
EXTENDS Naturals, Sequences, FiniteSets, SequencesExt

CONSTANTS
    Callers,  \* the concurrent users of the semaphore
    Limit     \* the constructor's limit

ASSUME LimitAssumption == Limit \in Nat \ {0}
ASSUME CallersAssumption == IsFiniteSet(Callers)

VARIABLES
    active,    \* this.active
    waiting,   \* this.waiting, the callers of the queued entries
    pc,        \* what a caller's promise and release function have done
    aborted,   \* the callers whose signal is aborted
    draining   \* TRUE while the loop of #drain runs

vars == <<active, waiting, pc, aborted, draining>>

CallerStates == {"idle", "waiting", "holding", "released", "rejected"}

Holders == {c \in Callers : pc[c] = "holding"}

TypeOK ==
    /\ active \in Nat
    /\ waiting \in Seq(Callers)
    /\ pc \in [Callers -> CallerStates]
    /\ aborted \subseteq Callers
    /\ draining \in BOOLEAN

Init ==
    /\ active = 0
    /\ waiting = <<>>
    /\ pc = [c \in Callers |-> "idle"]
    /\ aborted = {}
    /\ draining = FALSE
-----------------------------------------------------------------------------
(* acquire() *)

AcquireAborted(c) ==
    /\ ~draining
    /\ pc[c] = "idle"
    /\ c \in aborted
    /\ pc' = [pc EXCEPT ![c] = "rejected"]
    /\ UNCHANGED <<active, waiting, aborted, draining>>

AcquireFree(c) ==
    /\ ~draining
    /\ pc[c] = "idle"
    /\ c \notin aborted
    /\ active < Limit
    /\ active' = active + 1
    /\ pc' = [pc EXCEPT ![c] = "holding"]
    /\ UNCHANGED <<waiting, aborted, draining>>

AcquireQueued(c) ==
    /\ ~draining
    /\ pc[c] = "idle"
    /\ c \notin aborted
    /\ active >= Limit
    /\ waiting' = Append(waiting, c)
    /\ pc' = [pc EXCEPT ![c] = "waiting"]
    /\ UNCHANGED <<active, aborted, draining>>

(* The caller's AbortController fires: signal.aborted becomes true. *)
Abort(c) ==
    /\ ~draining
    /\ aborted' = aborted \cup {c}
    /\ UNCHANGED <<active, waiting, pc, draining>>

\* Mutant: the listener rejects without taking its entry out of the queue.
OnAbortNoSplice(c) ==
    /\ ~draining
    /\ c \in aborted
    /\ pc[c] = "waiting"
    /\ pc' = [pc EXCEPT ![c] = "rejected"]
    /\ UNCHANGED <<active, waiting, aborted, draining>>

(* entry.onAbort; after a rejection by the drain loop it finds no entry. *)
OnAbort(c) ==
    /\ ~draining
    /\ c \in aborted
    /\ pc[c] = "waiting"
    /\ \E i \in 1..Len(waiting) :
         /\ waiting[i] = c
         /\ waiting' = RemoveAt(waiting, i)
    /\ pc' = [pc EXCEPT ![c] = "rejected"]
    /\ UNCHANGED <<active, aborted, draining>>
-----------------------------------------------------------------------------
(* The release function and the #drain it calls *)

\* Mutant: the release function forgets that it was called.
ReleaseTwice(c) ==
    /\ ~draining
    /\ pc[c] \in {"holding", "released"}
    /\ active' = active - 1
    /\ pc' = [pc EXCEPT ![c] = "released"]
    /\ draining' = TRUE
    /\ UNCHANGED <<waiting, aborted>>

\* Mutant: a release that does not drain.
ReleaseNoDrain(c) ==
    /\ ~draining
    /\ pc[c] = "holding"
    /\ active' = active - 1
    /\ pc' = [pc EXCEPT ![c] = "released"]
    /\ UNCHANGED <<waiting, aborted, draining>>

Release(c) ==
    /\ ~draining
    /\ pc[c] = "holding"
    /\ active' = active - 1
    /\ pc' = [pc EXCEPT ![c] = "released"]
    /\ draining' = TRUE
    /\ UNCHANGED <<waiting, aborted>>

\* Mutant: the loop ends at an entry whose signal is aborted.
CanDrainLive == active < Limit /\ waiting # <<>> /\ Head(waiting) \notin aborted

CanDrain == active < Limit /\ waiting # <<>>

DrainReject ==
    /\ draining
    /\ CanDrain
    /\ Head(waiting) \in aborted
    /\ waiting' = Tail(waiting)
    /\ pc' = [pc EXCEPT ![Head(waiting)] = "rejected"]
    /\ UNCHANGED <<active, aborted, draining>>

\* Mutant: the grant does not look at the signal.
DrainGrantBlind ==
    /\ draining
    /\ CanDrain
    /\ waiting' = Tail(waiting)
    /\ active' = active + 1
    /\ pc' = [pc EXCEPT ![Head(waiting)] = "holding"]
    /\ UNCHANGED <<aborted, draining>>

DrainGrant ==
    /\ draining
    /\ CanDrain
    /\ Head(waiting) \notin aborted
    /\ waiting' = Tail(waiting)
    /\ active' = active + 1
    /\ pc' = [pc EXCEPT ![Head(waiting)] = "holding"]
    /\ UNCHANGED <<aborted, draining>>

DrainDone ==
    /\ draining
    /\ ~CanDrain
    /\ draining' = FALSE
    /\ UNCHANGED <<active, waiting, pc, aborted>>

(* The caller comes back with another call and another signal, or, like an *)
(* analysis that makes several calls, with the same one.                   *)
NextCall(c) ==
    /\ ~draining
    /\ pc[c] \in {"released", "rejected"}
    /\ pc' = [pc EXCEPT ![c] = "idle"]
    /\ aborted' \in {aborted, aborted \ {c}}
    /\ UNCHANGED <<active, waiting, draining>>
-----------------------------------------------------------------------------
Next ==
    \/ \E c \in Callers :
         \/ AcquireAborted(c)
         \/ AcquireFree(c)
         \/ AcquireQueued(c)
         \/ Abort(c)
         \/ OnAbort(c)
         \/ Release(c)
         \/ NextCall(c)
    \/ DrainReject
    \/ DrainGrant
    \/ DrainDone

Spec == Init /\ [][Next]_vars

(* Drain steps and abort listeners run in the same turn of the event loop. *)
(* Every caller of acquireVision and acquireWebFetchProcessor releases in  *)
(* a finally block.  Nothing obliges a caller to call or to abort.         *)
Fairness ==
    /\ WF_vars(DrainReject \/ DrainGrant \/ DrainDone)
    /\ \A c \in Callers : WF_vars(Release(c)) /\ WF_vars(OnAbort(c))

FairSpec == Spec /\ Fairness
-----------------------------------------------------------------------------
(* What the semaphore promises its callers *)

(* active counts exactly the callers that hold a permit, and never more    *)
(* than limit of them: a permit is neither lost nor handed out twice       *)
(* whatever the order of aborts, releases and drains                       *)
(* (semaphore.js acquire, #releaseFactory, #drain).                        *)
PermitsBounded ==
    /\ active = Cardinality(Holders)
    /\ active <= Limit

(* The queue holds every waiting caller exactly once and nobody else, so a *)
(* promise cannot be forgotten by the splice of an abort or the shift of a *)
(* drain (semaphore.js onAbort, #drain).                                   *)
QueueIsWaiters ==
    /\ \A i, j \in 1..Len(waiting) : waiting[i] = waiting[j] => i = j
    /\ {c \in Callers : pc[c] = "waiting"} = {waiting[i] : i \in 1..Len(waiting)}

(* When no drain runs, nobody queues while a permit is free: the drain     *)
(* loop does not stop at an aborted entry (semaphore.js #drain).           *)
NoIdlePermit == ~draining /\ waiting # <<>> => active = Limit

(* A permit goes to the caller that has waited longest among those that    *)
(* have not been aborted, and never to an aborted one: nobody is           *)
(* overtaken (semaphore.js #drain).                                        *)
GrantsInOrder ==
    [][\A i \in 1..Len(waiting) :
         pc'[waiting[i]] = "holding" =>
           /\ waiting[i] \notin aborted
           /\ \A j \in 1..(i - 1) : waiting[j] \in aborted]_vars

(* Every queued caller is granted or rejected in the end, provided that    *)
(* holders release (no timeout exists in the code: only releases and       *)
(* aborts move the queue).                                                 *)
NobodyWaitsForever ==
    \A c \in Callers : pc[c] = "waiting" ~> pc[c] # "waiting"
=============================================================================

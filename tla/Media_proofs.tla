----------------------------- MODULE Media_proofs -----------------------------
(***************************************************************************)
(* How an attachment becomes evidence, on the three levels of Media.       *)
(*                                                                         *)
(* The single flight of MediaAnalysis and its admission to the vision      *)
(* model, for every finite set of requests, every assignment of            *)
(* attachments and every limit.  First the part that needs no queue: which *)
(* entry a request waits for.  With it every step is a step of Semaphore,  *)
(* so the theorems of Semaphore hold for the vision permits, and these     *)
(* carry the rest: who holds a permit is still working.                    *)
(*                                                                         *)
(* Then the dialogue of VisionAnalysis, and what VisualEvidence makes of   *)
(* its outcomes: they meet in VisionContract.                              *)
(***************************************************************************)
EXTENDS Media, FiniteSetTheorems, TLAPS

VP == INSTANCE Semaphore_proofs WITH Callers <- Requests, pc <- vision, aborted <- cancelled

-----------------------------------------------------------------------------
(* A request waits for an entry that was created, and a request that has   *)
(* not entered the registry has created none.                              *)
JoinInv ==
    /\ pc \in [Requests -> {"idle", "loading", "waiting", "done", "failed"}]
    /\ joined \in [Requests -> Requests \cup {None}]
    /\ inflight \in [Keys -> Requests \cup {None}]
    /\ analysis \in [Requests -> {"none", "recheck", "working", "store", "settled"}]
    /\ \A k \in Keys : inflight[k] # None => analysis[inflight[k]] # "none"
    /\ \A r \in Requests :
         /\ pc[r] = "waiting" => joined[r] # None
         /\ pc[r] \in {"idle", "loading"} => analysis[r] = "none"
         /\ joined[r] # None => analysis[joined[r]] # "none"

LEMMA JoinStarts == Init => JoinInv
BY DEF Init, JoinInv

(* The steps of the semaphore leave the requests and the entries alone.    *)
LEMMA JoinPreserved == JoinInv /\ [Next]_vars => JoinInv'
<1> SUFFICES ASSUME JoinInv, [Next]_vars
             PROVE  JoinInv'
  OBVIOUS
<1> USE RequestsAssumption, KeyOfAssumption
<1>1. ASSUME NEW r \in Requests, RequestStep(r)
      PROVE  JoinInv'
  BY <1>1 DEF JoinInv, RequestStep, Lookup, LoadFails, RunAborted, RunCreate, RunJoin,
     Deliver, Fail, entryVars
<1>2. ASSUME NEW e \in Requests, ProducerStep(e)
      PROVE  JoinInv'
  <2>1. CASE Recheck(e) \/ WorkFails(e) \/ Analysed(e) \/ Store(e)
    BY <2>1 DEF JoinInv, Recheck, WorkFails, Analysed, Store, Settle, requestVars
  <2>2. CASE AcquireVision(e) \/ NextVision(e)
    BY <2>2 DEF JoinInv, AcquireVision, NextVision, requestVars, entryVars
  <2>3. CASE VisionReturns(e) \/ VisionRejected(e)
    BY <2>3 DEF JoinInv, VisionReturns, VisionRejected, Settle, requestVars
  <2> QED
    BY <1>2, <2>1, <2>2, <2>3 DEF ProducerStep
<1>3. ASSUME NEW r \in Requests, Disconnect(r) \/ StreamBreaks(r)
      PROVE  JoinInv'
  BY <1>3 DEF JoinInv, Disconnect, StreamBreaks, Fail, entryVars
<1>4. CASE SemaphoreStep \/ (\E k \in Keys : Evict(k)) \/ UNCHANGED vars
  BY <1>4 DEF JoinInv, SemaphoreStep, Evict, vars, requestVars, entryVars
<1> QED
  BY <1>1, <1>2, <1>3, <1>4, FlakyAssumption DEF Next

LEMMA JoinHolds == Spec => []JoinInv
BY JoinStarts, JoinPreserved, PTL DEF Spec
-----------------------------------------------------------------------------
(* Every step of an analysis is a step of the semaphore or leaves it alone *)
(* (acquireVision and the release in analyzeWithAdmission, the shared      *)
(* AbortController that the last waiter aborts).                           *)
LEMMA StepIsSemaphore == JoinInv /\ [Next]_vars => [V!Next]_(V!vars)
<1> SUFFICES ASSUME JoinInv, [Next]_vars
             PROVE  [V!Next]_(V!vars)
  OBVIOUS
<1>1. ASSUME NEW r \in Requests, RequestStep(r)
      PROVE  UNCHANGED V!vars
  BY <1>1 DEF RequestStep, Lookup, LoadFails, RunAborted, RunCreate, RunJoin, Deliver,
     visionVars, V!vars
<1>2. ASSUME NEW e \in Requests, ProducerStep(e)
      PROVE  [V!Next]_(V!vars)
  BY <1>2 DEF ProducerStep, Recheck, AcquireVision, NextVision, VisionReturns,
     VisionRejected, WorkFails, Analysed, Store, visionVars, V!vars, V!Next
<1>3. ASSUME NEW r \in Requests, Disconnect(r) \/ StreamBreaks(r)
      PROVE  [V!Next]_(V!vars)
  BY <1>3, RequestsAssumption DEF Disconnect, StreamBreaks, JoinInv, visionVars, V!vars, V!Next
<1>4. CASE SemaphoreStep \/ (\E k \in Keys : Evict(k)) \/ UNCHANGED vars
  BY <1>4 DEF SemaphoreStep, Evict, vars, visionVars, V!vars, V!Next
<1> QED
  BY <1>1, <1>2, <1>3, <1>4, FlakyAssumption DEF Next

(* The analyses use the vision semaphore as Semaphore allows, so that      *)
(* whatever is proved of Semaphore holds for the vision permits.           *)
THEOREM AdmissionRefines == Spec => AdmissionIsSemaphore
<1>1. Init => V!Init
  BY DEF Init
<1> QED
  BY <1>1, JoinHolds, StepIsSemaphore, PTL DEF Spec, AdmissionIsSemaphore, V!Spec

LEMMA VisionQueue == Spec => [](V!TypeOK /\ V!QueueIsWaiters)
<1>1. VP!IsFiniteSet(Requests) /\ Limit \in Nat \ {0}
  BY RequestsAssumption, BoundsAssumption DEF VP!IsFiniteSet, IsFiniteSet
<1>2. VP!Spec => []VP!TypeOK
  BY <1>1, VP!TypeCorrect
<1>3. VP!Spec => []VP!QueueIsWaiters
  BY <1>1, VP!QueueHoldsTheWaiters
<1>4. V!Init => VP!Init
  BY DEF V!Init, VP!Init
<1>5. [V!Next]_(V!vars) => [VP!Next]_(VP!vars)
  BY DEF V!Next, VP!Next, V!vars, VP!vars, V!AcquireAborted, V!AcquireFree, V!AcquireQueued,
     V!Abort, V!OnAbort, V!Release, V!NextCall, V!DrainReject, V!DrainGrant, V!DrainDone,
     V!CanDrain, VP!AcquireAborted, VP!AcquireFree, VP!AcquireQueued, VP!Abort, VP!OnAbort,
     VP!Release, VP!NextCall, VP!DrainReject, VP!DrainGrant, VP!DrainDone, VP!CanDrain,
     V!RemoveAt, VP!RemoveAt
<1>6. VP!TypeOK /\ VP!QueueIsWaiters => V!TypeOK /\ V!QueueIsWaiters
  BY DEF VP!TypeOK, VP!QueueIsWaiters, V!TypeOK, V!QueueIsWaiters, V!CallerStates,
     VP!CallerStates
<1> QED
  BY <1>2, <1>3, <1>4, <1>5, <1>6, AdmissionRefines, PTL
  DEF AdmissionIsSemaphore, V!Spec, VP!Spec
-----------------------------------------------------------------------------
(* One entry of a key runs and the registry finds it; a request that holds *)
(* or queues for a permit is inside that run; and a key whose analysis     *)
(* works is not cached, since only its own entry could store it.           *)
Queue == V!TypeOK /\ V!QueueIsWaiters

FlightInv ==
    /\ OneAnalysisPerKey
    /\ \A e \in Requests :
         /\ vision[e] \in {"holding", "waiting"} => analysis[e] = "working"
         /\ analysis[e] = "working" => KeyOf[e] \notin cached

LEMMA FlightStarts == Init => FlightInv
BY DEF Init, V!Init, FlightInv, OneAnalysisPerKey, Running

(* A drain grants a permit only to a caller that was waiting.              *)
LEMMA SemaphoreMoves ==
    ASSUME Queue, SemaphoreStep, NEW e \in Requests,
           vision'[e] \in {"holding", "waiting"}
    PROVE  vision[e] \in {"holding", "waiting"}
<1>1. /\ vision \in [Requests -> V!CallerStates]
      /\ waiting # <<>> => vision[Head(waiting)] = "waiting"
  <2>1. waiting # <<>> => Head(waiting) = waiting[1] /\ 1 \in 1..Len(waiting)
    BY DEF Queue, V!TypeOK
  <2> QED
    BY <2>1 DEF Queue, V!TypeOK, V!QueueIsWaiters
<1> QED
  BY <1>1 DEF SemaphoreStep, V!DrainReject, V!DrainGrant, V!DrainDone, V!OnAbort, V!CanDrain

LEMMA FlightPreserved ==
    JoinInv /\ Queue /\ FlightInv /\ [Next]_vars => FlightInv'
<1> SUFFICES ASSUME JoinInv, Queue, FlightInv, [Next]_vars
             PROVE  FlightInv'
  OBVIOUS
<1> USE RequestsAssumption, KeyOfAssumption
<1>q. vision \in [Requests -> V!CallerStates]
  BY DEF Queue, V!TypeOK
<1>1. ASSUME NEW r \in Requests, RequestStep(r)
      PROVE  FlightInv'
  BY <1>1 DEF JoinInv, FlightInv, OneAnalysisPerKey, Running, RequestStep, Lookup, LoadFails,
     RunAborted, RunCreate, RunJoin, Deliver, Fail, entryVars, visionVars
<1>2. ASSUME NEW e \in Requests, ProducerStep(e)
      PROVE  FlightInv'
  <2>1. CASE Recheck(e)
    BY <2>1 DEF JoinInv, FlightInv, OneAnalysisPerKey, Running, Recheck, Settle, visionVars
  <2>2. CASE AcquireVision(e)
    BY <2>2, <1>q DEF FlightInv, OneAnalysisPerKey, Running, AcquireVision, V!AcquireAborted,
       V!AcquireFree, V!AcquireQueued
  <2>3. CASE NextVision(e)
    BY <2>3, <1>q DEF FlightInv, OneAnalysisPerKey, Running, NextVision, V!NextCall, entryVars
  <2>4. CASE VisionReturns(e)
    BY <2>4, <1>q DEF JoinInv, FlightInv, OneAnalysisPerKey, Running, VisionReturns, V!Release,
       Settle
  <2>5. CASE VisionRejected(e) \/ WorkFails(e) \/ Analysed(e)
    BY <2>5 DEF JoinInv, FlightInv, OneAnalysisPerKey, Running, VisionRejected, WorkFails,
       Analysed, Settle, visionVars
  <2>6. CASE Store(e)
    BY <2>6 DEF JoinInv, FlightInv, OneAnalysisPerKey, Running, Store, Settle, visionVars
  <2> QED
    BY <1>2, <2>1, <2>2, <2>3, <2>4, <2>5, <2>6 DEF ProducerStep
<1>3. ASSUME NEW r \in Requests, Disconnect(r) \/ StreamBreaks(r)
      PROVE  FlightInv'
  BY <1>3 DEF FlightInv, OneAnalysisPerKey, Running, Disconnect, StreamBreaks, V!Abort,
     entryVars, visionVars
<1>4. CASE SemaphoreStep
  <2>1. UNCHANGED <<entryVars, cached>>
    BY <1>4 DEF SemaphoreStep
  <2> QED
    BY <1>4, <2>1, SemaphoreMoves DEF FlightInv, OneAnalysisPerKey, Running, entryVars
<1>5. CASE (\E k \in Keys : Evict(k)) \/ UNCHANGED vars
  BY <1>5 DEF FlightInv, OneAnalysisPerKey, Running, Evict, vars, entryVars, visionVars
<1> QED
  BY <1>1, <1>2, <1>3, <1>4, <1>5, FlakyAssumption DEF Next

LEMMA FlightHolds == Spec => [](JoinInv /\ Queue /\ FlightInv)
<1>1. V!TypeOK /\ V!QueueIsWaiters => Queue
  BY DEF Queue
<1> QED
  BY <1>1, JoinHolds, VisionQueue, FlightStarts, FlightPreserved, PTL DEF Spec
-----------------------------------------------------------------------------
(* The waiters of an entry are counted, also while one leaves.             *)
Waiting(e) == {r \in Requests : pc[r] = "waiting" /\ joined[r] = e}

CountInv ==
    /\ waiters \in [Requests -> Nat]
    /\ WaitersCounted

LEMMA WaitingFinite ==
    ASSUME NEW e
    PROVE  IsFiniteSet(Waiting(e)) /\ Cardinality(Waiting(e)) \in Nat
BY RequestsAssumption, FS_Subset, FS_CardinalityType DEF Waiting

LEMMA CountStarts == Init => CountInv
<1> SUFFICES ASSUME Init
             PROVE  CountInv
  OBVIOUS
<1>1. \A e \in Requests : Waiting(e) = {} /\ waiters[e] = 0 /\ ~Running(e)
  BY DEF Init, Waiting, Running
<1> QED
  BY <1>1, FS_EmptySet DEF Init, CountInv, WaitersCounted, Waiting

(* Steps that move no waiter: the sets stay, and an analysis starts to run *)
(* only with its first waiter.                                             *)
LEMMA NobodyMoves ==
    ASSUME CountInv, UNCHANGED <<joined, waiters>>,
           \A r \in Requests : pc'[r] = "waiting" <=> pc[r] = "waiting",
           \A e \in Requests : Running(e)' => Running(e),
           cancelled \subseteq cancelled'
    PROVE  CountInv'
<1>1. \A e \in Requests : Waiting(e)' = Waiting(e)
  BY DEF Waiting
<1> QED
  BY <1>1 DEF CountInv, WaitersCounted, Waiting

(* A waiter leaves its entry, with an answer or without one.               *)
LEMMA WaiterLeaves ==
    ASSUME CountInv, JoinInv, NEW r \in Requests, pc[r] = "waiting",
           pc'[r] # "waiting", UNCHANGED <<joined, analysis>>,
           \A s \in Requests \ {r} : pc'[s] = pc[s],
           waiters' = [waiters EXCEPT ![joined[r]] = @ - 1],
           cancelled \subseteq cancelled',
           Running(joined[r]) /\ waiters[joined[r]] = 1 => joined[r] \in cancelled'
    PROVE  CountInv'
<1> DEFINE e == joined[r]
<1>1. e \in Requests
  BY RequestsAssumption DEF JoinInv
<1>2. /\ Waiting(e)' = Waiting(e) \ {r}
      /\ r \in Waiting(e)
      /\ \A f \in Requests \ {e} : Waiting(f)' = Waiting(f)
  BY DEF Waiting
<1>3. /\ Cardinality(Waiting(e)') = Cardinality(Waiting(e)) - 1
      /\ Cardinality(Waiting(e)') \in Nat
  BY <1>2, WaitingFinite, FS_RemoveElement, FS_CardinalityType
<1>4. waiters[e] = Cardinality(Waiting(e)) /\ waiters[e] \in Nat
  BY <1>1 DEF CountInv, WaitersCounted, Waiting
<1>5. waiters'[e] = Cardinality(Waiting(e)') /\ waiters' \in [Requests -> Nat]
  BY <1>1, <1>3, <1>4 DEF CountInv
<1>6. \A f \in Requests \ {e} : waiters'[f] = waiters[f]
  BY <1>1 DEF CountInv
<1>7. \A f \in Requests : waiters'[f] = Cardinality(Waiting(f)')
  BY <1>2, <1>5, <1>6 DEF CountInv, WaitersCounted, Waiting
<1>8. ASSUME NEW f \in Requests, Running(f)', waiters'[f] = 0
      PROVE  f \in cancelled'
  <2>1. Running(f)
    BY <1>8 DEF Running
  <2>2. CASE f = e
    BY <1>4, <1>8, <2>1, <2>2 DEF CountInv
  <2>3. CASE f # e
    BY <1>6, <1>8, <2>1, <2>3 DEF CountInv, WaitersCounted
  <2> QED
    BY <2>2, <2>3
<1> QED
  BY <1>5, <1>7, <1>8 DEF CountInv, WaitersCounted, Waiting

(* A request becomes a waiter of an entry, of its own or of another's.     *)
LEMMA WaiterJoins ==
    ASSUME CountInv, JoinInv, NEW r \in Requests, NEW e \in Requests,
           pc[r] = "loading", pc' = [pc EXCEPT ![r] = "waiting"],
           joined' = [joined EXCEPT ![r] = e],
           waiters' = [waiters EXCEPT ![e] = Cardinality(Waiting(e)) + 1],
           \A f \in Requests \ {e} : Running(f)' => Running(f),
           UNCHANGED cancelled
    PROVE  CountInv'
<1>1. /\ Waiting(e)' = Waiting(e) \cup {r}
      /\ r \notin Waiting(e)
      /\ \A f \in Requests \ {e} : Waiting(f)' = Waiting(f)
  BY DEF Waiting, JoinInv
<1>2. Cardinality(Waiting(e)') = Cardinality(Waiting(e)) + 1
  BY <1>1, WaitingFinite, FS_AddElement
<1>3. \A f \in Requests : waiters'[f] = Cardinality(Waiting(f)')
  BY <1>1, <1>2 DEF CountInv, WaitersCounted, Waiting
<1>4. waiters' \in [Requests -> Nat] /\ waiters'[e] # 0
  BY <1>2, <1>3, WaitingFinite DEF CountInv
<1> QED
  BY <1>3, <1>4 DEF CountInv, WaitersCounted, Waiting

LEMMA CountPreserved ==
    JoinInv /\ Queue /\ FlightInv /\ CountInv /\ [Next]_vars => CountInv'
<1> SUFFICES ASSUME JoinInv, Queue, FlightInv, CountInv, [Next]_vars
             PROVE  CountInv'
  OBVIOUS
<1> USE RequestsAssumption, KeyOfAssumption
<1>c. \A e \in Requests : waiters[e] = Cardinality(Waiting(e))
  BY DEF CountInv, WaitersCounted, Waiting
<1>1. ASSUME NEW r \in Requests, Lookup(r) \/ LoadFails(r) \/ RunAborted(r)
      PROVE  CountInv'
  BY <1>1, NobodyMoves DEF JoinInv, Lookup, LoadFails, RunAborted, Fail, Running, entryVars,
     visionVars
<1>2. ASSUME NEW r \in Requests, RunCreate(r)
      PROVE  CountInv'
  <2>1. Waiting(r) = {}
    BY <1>2 DEF RunCreate, JoinInv, Waiting
  <2>2. Cardinality(Waiting(r)) + 1 = 1
    BY <2>1, FS_EmptySet
  <2>3. \A f \in Requests \ {r} : Running(f)' => Running(f)
    BY <1>2 DEF RunCreate, JoinInv, Running
  <2> QED
    BY <1>2, <2>2, <2>3, WaiterJoins DEF RunCreate, visionVars
<1>3. ASSUME NEW r \in Requests, RunJoin(r)
      PROVE  CountInv'
  <2> DEFINE e == inflight[KeyOf[r]]
  <2>1. e \in Requests
    BY <1>3 DEF RunJoin, JoinInv
  <2>2. waiters' = [waiters EXCEPT ![e] = Cardinality(Waiting(e)) + 1]
    BY <1>3, <1>c, <2>1 DEF RunJoin
  <2>3. \A f \in Requests \ {e} : Running(f)' => Running(f)
    BY <1>3 DEF RunJoin, Running
  <2> QED
    BY <1>3, <2>1, <2>2, <2>3, WaiterJoins DEF RunJoin, visionVars
<1>4. ASSUME NEW r \in Requests, Deliver(r)
      PROVE  CountInv'
  <2>1. ~Running(joined[r])
    BY <1>4 DEF Deliver, Running
  <2>2. /\ pc'[r] # "waiting"
        /\ \A s \in Requests \ {r} : pc'[s] = pc[s]
    BY <1>4 DEF Deliver, Fail, JoinInv
  <2> QED
    BY <1>4, <2>1, <2>2, WaiterLeaves DEF Deliver, visionVars
<1>5. ASSUME NEW r \in Requests, Disconnect(r)
      PROVE  CountInv'
  <2>1. CASE pc[r] = "waiting"
    <3>1. /\ pc'[r] # "waiting"
          /\ \A s \in Requests \ {r} : pc'[s] = pc[s]
      BY <1>5, <2>1 DEF Disconnect, Fail, JoinInv
    <3>2. /\ cancelled \subseteq cancelled'
          /\ Running(joined[r]) /\ waiters[joined[r]] = 1 => joined[r] \in cancelled'
      BY <1>5, <2>1 DEF Disconnect, Running, V!Abort, visionVars
    <3> QED
      BY <1>5, <2>1, <3>1, <3>2, WaiterLeaves DEF Disconnect
  <2>2. CASE pc[r] # "waiting"
    BY <1>5, <2>2, NobodyMoves DEF Disconnect, Running, visionVars
  <2> QED
    BY <2>1, <2>2
<1>6. ASSUME NEW r \in Requests, StreamBreaks(r)
      PROVE  CountInv'
  BY <1>6, NobodyMoves DEF StreamBreaks, Running, entryVars, visionVars
<1>7. ASSUME NEW e \in Requests, ProducerStep(e)
      PROVE  CountInv'
  <2>1. UNCHANGED <<pc, joined, waiters>> /\ cancelled \subseteq cancelled'
    BY <1>7 DEF ProducerStep, Recheck, AcquireVision, NextVision, VisionReturns,
       VisionRejected, WorkFails, Analysed, Store, V!AcquireAborted, V!AcquireFree,
       V!AcquireQueued, V!Release, requestVars, entryVars, visionVars
  <2>2. \A f \in Requests : Running(f)' => Running(f)
    BY <1>7 DEF ProducerStep, Recheck, AcquireVision, NextVision, VisionReturns,
       VisionRejected, WorkFails, Analysed, Store, Settle, Running, JoinInv, entryVars
  <2> QED
    BY <2>1, <2>2, NobodyMoves
<1>8. CASE SemaphoreStep \/ (\E k \in Keys : Evict(k)) \/ UNCHANGED vars
  <2>1. UNCHANGED <<pc, joined, waiters, analysis, cancelled>>
    BY <1>8 DEF SemaphoreStep, Evict, vars, V!DrainReject, V!DrainGrant, V!DrainDone,
       V!OnAbort, requestVars, entryVars, visionVars
  <2> QED
    BY <2>1, NobodyMoves DEF Running
<1> QED
  BY <1>1, <1>2, <1>3, <1>4, <1>5, <1>6, <1>7, <1>8, FlakyAssumption DEF Next, RequestStep

(* Everything an analysis and its waiters know of each other.              *)
IInv == JoinInv /\ Queue /\ FlightInv /\ CountInv

LEMMA InvAlways == Spec => []IInv
<1>1. JoinInv /\ Queue /\ FlightInv /\ CountInv => IInv
  BY DEF IInv
<1> QED
  BY <1>1, FlightHolds, CountStarts, CountPreserved, PTL DEF Spec
-----------------------------------------------------------------------------
(* The rest of the types: failures, results and the bounded calls.         *)
RestOK ==
    /\ cause \in [Requests -> Causes \cup {None}]
    /\ left \subseteq Requests /\ broken \subseteq Requests
    /\ result \in [Requests -> Causes \cup {None, "ok"}]
    /\ calls \in [Requests -> Nat]
    /\ \A r \in Requests : calls[r] \in 0..MaxCalls[KeyOf[r]]
    /\ cached \subseteq Keys

LEMMA RestStarts == Init => RestOK
BY BoundsAssumption, KeyOfAssumption DEF Init, RestOK

LEMMA RestPreserved == IInv /\ RestOK /\ [Next]_vars => RestOK'
<1> SUFFICES ASSUME JoinInv, RestOK, [Next]_vars
             PROVE  RestOK'
  BY DEF IInv
<1> USE RequestsAssumption, KeyOfAssumption, BoundsAssumption
<1>1. ASSUME NEW r \in Requests, RequestStep(r)
      PROVE  RestOK'
  <2>1. CASE Deliver(r)
    <3>1. result[joined[r]] # "ok" => result[joined[r]] \in Causes \cup {None}
      BY <2>1 DEF JoinInv, RestOK, Deliver
    <3> QED
      BY <2>1, <3>1 DEF RestOK, Deliver, Fail
  <2> QED
    BY <1>1, <2>1 DEF JoinInv, RestOK, RequestStep, Lookup, LoadFails, RunAborted, RunCreate,
       RunJoin, Fail, Causes, entryVars
<1>2. ASSUME NEW e \in Requests, ProducerStep(e)
      PROVE  RestOK'
  <2>1. CASE AcquireVision(e) \/ NextVision(e)
    BY <2>1 DEF RestOK, AcquireVision, NextVision, requestVars, entryVars
  <2>2. CASE Recheck(e) \/ VisionReturns(e) \/ VisionRejected(e) \/ WorkFails(e)
             \/ Analysed(e) \/ Store(e)
    BY <2>2 DEF JoinInv, RestOK, Recheck, VisionReturns, VisionRejected, WorkFails, Analysed,
       Store, Settle, Causes, requestVars
  <2> QED
    BY <1>2, <2>1, <2>2 DEF ProducerStep
<1>3. ASSUME NEW r \in Requests, Disconnect(r) \/ StreamBreaks(r)
      PROVE  RestOK'
  BY <1>3 DEF RestOK, Disconnect, StreamBreaks, Fail, Causes, entryVars
<1>4. CASE SemaphoreStep \/ (\E k \in Keys : Evict(k)) \/ UNCHANGED vars
  BY <1>4 DEF RestOK, SemaphoreStep, Evict, vars, requestVars, entryVars
<1> QED
  BY <1>1, <1>2, <1>3, <1>4, FlakyAssumption DEF Next

LEMMA TypeHolds == Spec => []TypeOK
<1>1. IInv /\ RestOK => TypeOK
  BY DEF IInv, JoinInv, Queue, CountInv, RestOK, TypeOK
<1> QED
  BY <1>1, InvAlways, RestStarts, RestPreserved, PTL DEF Spec
-----------------------------------------------------------------------------
(* An attachment is analysed by one producer at a time, the one a new      *)
(* request finds, and not again once its evidence is cached, for any       *)
(* number of requests, keys and evictions (run, cachedAnalysis).           *)
THEOREM FlightIsSingle == Spec => []SingleFlight
<1>1. IInv /\ TypeOK => SingleFlight
  BY DEF IInv, FlightInv, SingleFlight, NoAnalysisOfCached
<1> QED
  BY <1>1, InvAlways, TypeHolds, PTL

(* The number of waiters of an entry is exact, and a running analysis that *)
(* nobody waits for is cancelled (run, finish).                            *)
THEOREM WaitersAreCounted == Spec => []WaitersCounted
<1>1. IInv => WaitersCounted
  BY DEF IInv, CountInv
<1> QED
  BY <1>1, InvAlways, PTL

(* A settled analysis holds no permit and no place in the queue, however   *)
(* it ended (analyzeWithAdmission's finally).                              *)
THEOREM PermitsAreReturned == Spec => []PermitsReturned
<1>1. IInv => PermitsReturned
  BY DEF IInv, FlightInv, PermitsReturned
<1> QED
  BY <1>1, InvAlways, PTL

(* Only the last waiter to leave cancels an analysis: the count is exact,  *)
(* so one that finds itself the only waiter leaves nobody behind (finish). *)
THEOREM LastWaiterCancels == Spec => CancelledByTheLast
<1> DEFINE NobodyLeft ==
      \A e \in cancelled' \ cancelled :
         \A r \in Requests : joined'[r] = e => pc'[r] # "waiting"
<1>1. IInv /\ [Next]_vars => [NobodyLeft]_vars
  <2> SUFFICES ASSUME IInv, Next, NEW e \in cancelled' \ cancelled, NEW s \in Requests,
                      joined'[s] = e
               PROVE  pc'[s] # "waiting"
    OBVIOUS
  <2>1. PICK r \in Requests : Disconnect(r)
    BY FlakyAssumption DEF Next, RequestStep, ProducerStep, SemaphoreStep, Lookup, LoadFails,
       RunAborted, RunCreate, RunJoin, Deliver, StreamBreaks, Evict, Recheck, AcquireVision,
       NextVision, VisionReturns, VisionRejected, WorkFails, Analysed, Store, V!AcquireAborted,
       V!AcquireFree, V!AcquireQueued, V!Release, V!DrainReject, V!DrainGrant, V!DrainDone,
       V!OnAbort, requestVars, entryVars, visionVars
  <2>2. pc[r] = "waiting" /\ joined[r] = e /\ waiters[e] = 1 /\ joined' = joined
    BY <2>1 DEF Disconnect, V!Abort, visionVars
  <2>3. e \in Requests
    BY <2>2, RequestsAssumption DEF IInv, JoinInv
  <2>4. Cardinality(Waiting(e)) = 1 /\ r \in Waiting(e) /\ IsFiniteSet(Waiting(e))
    BY <2>2, <2>3, WaitingFinite DEF IInv, CountInv, WaitersCounted, Waiting
  <2>5. Waiting(e) = {r}
    BY <2>4, FS_Singleton
  <2>6. pc' = [pc EXCEPT ![r] = "failed"]
    BY <2>1, <2>2 DEF Disconnect, Fail
  <2> QED
    BY <2>2, <2>5, <2>6 DEF IInv, JoinInv, Waiting
<1> QED
  BY <1>1, InvAlways, PTL DEF Spec, CancelledByTheLast

-----------------------------------------------------------------------------
(* What the dialogue returns *)

(* Evidence that the classifier finds good is cacheable exactly when it    *)
(* lacks nothing; evidence that needs a zoom lacks something; and only the *)
(* evidence contract asks for one.                                         *)
VerdictSound(v, contract) ==
    /\ v.quality = "good" => v.cacheable \in BOOLEAN /\ v.lacking = ~v.cacheable
    /\ v.quality = "needs_zoom" => contract = "evidence" /\ v.cacheable = FALSE /\ v.lacking = TRUE

LEMMA VerdictFields ==
  ASSUME NEW q, NEW c, NEW l, NEW contract
  PROVE  VerdictSound(VA!Verdict(q, c, l), contract)
           <=> /\ q = "good" => c \in BOOLEAN /\ l = ~c
               /\ q = "needs_zoom" => contract = "evidence" /\ c = FALSE /\ l = TRUE
BY DEF VA!Verdict, VerdictSound

LEMMA EvidenceVerdicts ==
  ASSUME NEW c \in VA!Content
  PROVE  VerdictSound(VA!EvidenceQuality(c), "evidence")
<1> DEFINE q == VA!EvidenceQuality(c)
           r == VA!Repaired(c)
           Weak == VA!Verdict("weak", FALSE, TRUE)
<1>1. VerdictSound(Weak, "evidence") /\ VerdictSound(VA!Verdict("empty", FALSE, TRUE), "evidence")
  BY VerdictFields
<1>2. CASE c.status = "empty"
  <2>1. q = VA!Verdict("empty", FALSE, TRUE)
    BY <1>2, Zenon DEF VA!EvidenceQuality
  <2> QED
    BY <1>1, <2>1
<1>3. CASE c.status # "empty" /\ c.tagged
  <2>1. q = Weak
    BY <1>3, Zenon DEF VA!EvidenceQuality
  <2> QED
    BY <1>1, <2>1
<1>4. CASE c.status = "blank" /\ ~c.tagged
  <2>1. q = VA!Verdict("good", TRUE, FALSE)
    BY <1>4, Zenon DEF VA!EvidenceQuality
  <2>2. VerdictSound(VA!Verdict("good", TRUE, FALSE), "evidence")
    BY VerdictFields
  <2> QED
    BY <2>1, <2>2
<1>5. CASE c.status \notin {"empty", "blank"} /\ ~c.tagged
  <2>1. CASE VA!Valid(r) /\ VA!Zooming(r)
    <3>1. q = VA!Verdict("needs_zoom", FALSE, TRUE)
      BY <1>5, <2>1, Zenon DEF VA!EvidenceQuality
    <3>2. VerdictSound(VA!Verdict("needs_zoom", FALSE, TRUE), "evidence")
      BY VerdictFields
    <3> QED
      BY <3>1, <3>2
  <2>2. CASE VA!Valid(r) /\ r.status = "content" /\ ~VA!Zooming(r)
    <3>1. q = VA!Verdict("good", VA!Keepable(r), VA!Lacking(r))
      BY <1>5, <2>2, Zenon DEF VA!EvidenceQuality
    <3>2. VA!Lacking(r) <=> ~VA!Keepable(r)
      BY <2>2 DEF VA!Lacking, VA!Keepable, VA!Zooming
    <3>3. VA!Keepable(r) \in BOOLEAN /\ VA!Lacking(r) = ~VA!Keepable(r)
      BY <3>2 DEF VA!Lacking, VA!Keepable
    <3>4. VerdictSound(VA!Verdict("good", VA!Keepable(r), VA!Lacking(r)), "evidence")
      BY <3>3, VerdictFields
    <3> QED
      BY <3>1, <3>4
  <2>3. CASE /\ ~(VA!Valid(r) /\ VA!Zooming(r))
             /\ ~(VA!Valid(r) /\ r.status = "content" /\ ~VA!Zooming(r))
    <3>1. q = Weak
      BY <1>5, <2>3, Zenon DEF VA!EvidenceQuality
    <3> QED
      BY <1>1, <3>1
  <2> QED
    BY <2>1, <2>2, <2>3
<1> QED
  BY <1>2, <1>3, <1>4, <1>5

LEMMA RawVerdicts ==
  ASSUME NEW c
  PROVE  VerdictSound(VA!RawQuality(c), "raw")
<1>1. VA!RawQuality(c) \in {VA!Verdict("empty", FALSE, TRUE), VA!Verdict("weak", FALSE, TRUE),
                            VA!Verdict("good", TRUE, FALSE)}
  <2>1. CASE c.status = "empty"
    BY <2>1, Zenon DEF VA!RawQuality
  <2>2. CASE c.status # "empty" /\ c.tagged
    BY <2>2, Zenon DEF VA!RawQuality
  <2>3. CASE c.status # "empty" /\ ~c.tagged
    BY <2>3, Zenon DEF VA!RawQuality
  <2> QED
    BY <2>1, <2>2, <2>3
<1>2. /\ VerdictSound(VA!Verdict("empty", FALSE, TRUE), "raw")
      /\ VerdictSound(VA!Verdict("weak", FALSE, TRUE), "raw")
      /\ VerdictSound(VA!Verdict("good", TRUE, FALSE), "raw")
  BY VerdictFields
<1> QED
  BY <1>1, <1>2

LEMMA VerdictsSound ==
  ASSUME NEW k \in VA!Contracts, NEW v \in VA!Verdicts[k]
  PROVE  VerdictSound(v, k)
<1>1. CASE k = "raw"
  <2>1. VA!Verdicts[k] = {VA!RawQuality(c) : c \in VA!Content}
    BY <1>1 DEF VA!Verdicts, VA!Contracts
  <2> QED
    BY <1>1, <2>1, RawVerdicts
<1>2. CASE k = "evidence"
  <2>1. VA!Verdicts[k] = {VA!EvidenceQuality(c) : c \in VA!Content}
    BY <1>2 DEF VA!Verdicts, VA!Contracts
  <2> QED
    BY <1>2, <2>1, EvidenceVerdicts
<1> QED
  BY <1>1, <1>2 DEF VA!Contracts

LEMMA OptionFields ==
  ASSUME NEW o \in VA!Options
  PROVE  /\ o.contract \in VA!Contracts /\ o.context \in {"default", "zoom_tile"}
         /\ o.zoom \in BOOLEAN /\ o.crops \in BOOLEAN
<1>1. o.contract \in VA!Contracts
  BY DEF VA!Options, VA!Contracts
<1>2. o.context \in {"default", "zoom_tile"}
  BY DEF VA!Options
<1>3. o.zoom = TRUE \/ o.zoom = FALSE
  BY DEF VA!Options
<1>4. o.crops = TRUE \/ o.crops = FALSE
  BY DEF VA!Options
<1> QED
  BY <1>1, <1>2, <1>3, <1>4

(* What the last analysis returned is what its options allow. *)
OutcomeInv == opts \in VA!Options /\ VA!PromiseKept

LEMMA OutcomeKept == OutcomeInv /\ [VA!Next]_(VA!vars) => OutcomeInv'
<1> SUFFICES ASSUME OutcomeInv, [VA!Next]_(VA!vars) PROVE OutcomeInv'
  OBVIOUS
<1>1. ASSUME NEW f, VA!Finish(f), f \in VA!Promised(opts.contract, opts.zoom)
      PROVE  OutcomeInv'
  BY <1>1 DEF VA!Finish, OutcomeInv, VA!PromiseKept
<1>2. \A f \in VA!Failures : f \in VA!Promised(opts.contract, opts.zoom)
  BY DEF VA!Promised
<1>3. VA!Failure("recoverable") \in VA!Failures
  BY DEF VA!Failures
<1>4. CASE UNCHANGED <<opts, outcome>>
  BY <1>4 DEF OutcomeInv, VA!PromiseKept
<1>5. ASSUME VA!RecoverOr(VA!Failure("recoverable"))
      PROVE  OutcomeInv'
  BY <1>1, <1>2, <1>3, <1>4, <1>5 DEF VA!RecoverOr, VA!Recover
<1>6. CASE VA!Start
  BY <1>6 DEF VA!Start, OutcomeInv, VA!PromiseKept
<1>7. CASE VA!TimedOut \/ VA!Fails \/ VA!NullCall
  <2>1. VA!Failure("fatal") \in VA!Failures
    BY DEF VA!Failures
  <2> QED
    BY <1>1, <1>2, <1>5, <1>7, <2>1 DEF VA!TimedOut, VA!Fails, VA!NullCall
<1>8. CASE VA!Judge
  <2>1. opts.contract \in VA!Contracts /\ opts.zoom \in BOOLEAN
    BY OptionFields DEF OutcomeInv
  <2>2. ASSUME NEW v \in VA!Verdicts[opts.contract], v.quality = "good"
        PROVE  VA!Evidence(v, FALSE) \in VA!Promised(opts.contract, opts.zoom)
    <3>1. v.cacheable \in BOOLEAN /\ v.lacking = ~v.cacheable
      BY <2>1, <2>2, VerdictsSound DEF VerdictSound
    <3>2. v.lacking \in BOOLEAN /\ (v.cacheable <=> ~v.lacking)
      BY <3>1
    <3> QED
      BY <3>1, <3>2 DEF VA!Evidence, VA!Promised
  <2>3. ASSUME NEW v \in VA!Verdicts[opts.contract], v.quality = "needs_zoom", opts.zoom
        PROVE  VA!Evidence(v, TRUE) \in VA!Promised(opts.contract, opts.zoom)
    <3>1. opts.contract = "evidence" /\ v.cacheable = FALSE /\ v.lacking = TRUE
      BY <2>1, <2>3, VerdictsSound DEF VerdictSound
    <3> QED
      BY <2>3, <3>1 DEF VA!Evidence, VA!Promised
  <2> QED
    BY <1>1, <1>5, <1>8, <2>2, <2>3 DEF VA!Judge
<1>9. CASE (\E n \in 1..(BatchLimit + 1) : VA!Batch(n)) \/ VA!BadCall \/ VA!DeniedCall
           \/ VA!CropMade \/ VA!CropFails \/ VA!EndBatch
  BY <1>4, <1>9 DEF VA!Batch, VA!BadCall, VA!DeniedCall, VA!Reject, VA!CropMade, VA!CropFails,
     VA!EndBatch
<1>10. CASE VA!CropThrows
  <2>1. PICK kind \in {"fatal", "aborted"} : outcome' = VA!Failure(kind) /\ opts' = opts
    BY <1>10 DEF VA!CropThrows
  <2>2. VA!Failure(kind) \in VA!Failures
    BY DEF VA!Failures
  <2> QED
    BY <1>2, <2>1, <2>2 DEF OutcomeInv, VA!PromiseKept
<1>11. CASE UNCHANGED VA!vars
  BY <1>4, <1>11 DEF VA!vars
<1> QED
  BY <1>6, <1>7, <1>8, <1>9, <1>10, <1>11 DEF VA!Next, VA!Answer, VA!Handle

(* Every analysis returns what VisionContract promises of its options,     *)
(* whatever the model answers, and in whatever order: the assumption of    *)
(* VisualEvidence (analyzeVisualAssets).                                   *)
THEOREM PromiseIsKept == VA!Spec => []PromiseKept
<1>1. VA!Init => OutcomeInv
  BY DEF VA!Init, OutcomeInv, VA!PromiseKept
<1>2. OutcomeInv => PromiseKept
  BY DEF OutcomeInv, PromiseKept
<1> QED
  BY <1>1, <1>2, OutcomeKept, PTL DEF VA!Spec

(* Where the dialogue stands: every call of the batch that is out is owed  *)
(* a result, tools are offered while a round is left, and every request    *)
(* has a retry or a round of its own.                                      *)
DialogueInv ==
    /\ VA!TypeOK
    /\ phase = "asked" => owed = 0
    /\ phase = "batch" => owed = batched
    /\ round <= VA!RoundsAllowed
    /\ phase = "asked" /\ tools => round < VA!RoundsAllowed
    /\ requests <= 1 + retries + round
    /\ phase = "batch" => requests <= retries + round
    /\ \A i \in Images : attempts[i] <= used[i]

LEMMA RoundsAllowedValue ==
  ASSUME VA!NaturalLimits
  PROVE  /\ VA!RoundsAllowed \in 1..RoundLimit
         /\ opts.context = "zoom_tile" => VA!RoundsAllowed = 1
<1>1. RoundLimit \in Nat /\ RoundLimit >= 1
  BY DEF VA!NaturalLimits
<1>2. VA!Min({RoundLimit, 1}) = 1
  BY <1>1 DEF VA!Min
<1> QED
  BY <1>1, <1>2 DEF VA!RoundsAllowed

(* The count of the requests never reaches its cap.                        *)
LEMMA RequestCounts ==
  ASSUME VA!NaturalLimits, requests \in Nat, requests + 1 <= VA!RequestCap, VA!Request
  PROVE  requests' = requests + 1
<1>1. VA!RequestCap \in Nat
  BY DEF VA!NaturalLimits, VA!RequestCap
<1>2. VA!Min({requests + 1, VA!RequestCap}) = requests + 1
  BY <1>1 DEF VA!Min
<1> QED
  BY <1>2 DEF VA!Request

(* A crop that is not refused is one level below its parent, within the    *)
(* depth and within the quota of its root.                                 *)
LEMMA GrantedCrop ==
  ASSUME NEW a, VA!Refusal(a, TRUE) = "none",
         VA!NaturalLimits, round \in Nat, a.depth \in Nat, used[a.root] \in Nat
  PROVE  a.depth + 1 <= DepthLimit /\ used[a.root] + 1 <= CropsPerRoot
<1>1. DepthLimit \in Nat /\ CropsPerRoot \in Nat /\ RoundLimit \in Nat
  BY DEF VA!NaturalLimits
<1>2. round <= RoundLimit
  <2>1. SUFFICES ASSUME round > RoundLimit PROVE FALSE
    BY <1>1
  <2>2. VA!Refusal(a, TRUE) = "visual_crop_round_limit"
    BY <2>1, Zenon DEF VA!Refusal
  <2> QED
    BY <2>2
<1>3. a.depth + 1 <= DepthLimit
  <2>1. SUFFICES ASSUME a.depth + 1 > DepthLimit PROVE FALSE
    BY <1>1
  <2>2. ~(round > RoundLimit)
    BY <1>1, <1>2
  <2>3. VA!Refusal(a, TRUE) = "visual_crop_depth_limit"
    BY <1>2, <2>1, <2>2, Zenon DEF VA!Refusal
  <2> QED
    BY <2>3
<1>4. used[a.root] < CropsPerRoot
  <2>1. SUFFICES ASSUME used[a.root] >= CropsPerRoot PROVE FALSE
    BY <1>1
  <2>2. ~(round > RoundLimit) /\ ~(a.depth + 1 > DepthLimit)
    BY <1>1, <1>2, <1>3
  <2>3. VA!Refusal(a, TRUE) = "visual_crop_count_limit"
    BY <1>2, <1>3, <2>1, <2>2, Zenon DEF VA!Refusal
  <2> QED
    BY <2>3
<1> QED
  BY <1>1, <1>3, <1>4

(* The analysis ends, or the request is repeated.                          *)
LEMMA FinishKeeps ==
  ASSUME VA!NaturalLimits, DialogueInv, NEW f, VA!Finish(f)
  PROVE  DialogueInv'
BY DEF VA!Finish, DialogueInv, VA!TypeOK, VA!budget, VA!batch, VA!registry, VA!RoundsAllowed,
   VA!NaturalLimits

LEMMA RecoverKeeps ==
  ASSUME VA!NaturalLimits, DialogueInv, phase = "asked", VA!Recover
  PROVE  DialogueInv'
<1>1. /\ RetryLimit \in Nat /\ RoundLimit \in Nat /\ BatchLimit \in Nat
      /\ retries \in Nat /\ retries + 1 <= RetryLimit /\ retries' = retries + 1
      /\ round \in Nat /\ round <= RoundLimit /\ requests \in Nat
      /\ requests <= 1 + retries + round
  BY DEF VA!NaturalLimits, DialogueInv, VA!TypeOK, VA!Recover
<1>2. requests + 1 <= VA!RequestCap
  BY <1>1 DEF VA!RequestCap
<1>3. requests' = requests + 1
  BY <1>1, <1>2, RequestCounts DEF VA!Recover
<1>4. /\ UNCHANGED <<started, opts, phase, round, exhausted, tools, batched, large, made>>
      /\ UNCHANGED <<owed, assets, used, attempts, outcome>>
  BY DEF VA!Recover, VA!batch, VA!registry
<1>5. VA!RoundsAllowed' = VA!RoundsAllowed
  BY <1>4 DEF VA!RoundsAllowed
<1> QED
  BY <1>1, <1>2, <1>3, <1>4, <1>5 DEF DialogueInv, VA!TypeOK, VA!RequestCap

LEMMA StartKeeps ==
  ASSUME VA!NaturalLimits, DialogueInv, VA!Start
  PROVE  DialogueInv'
<1>1. opts' \in VA!Options /\ tools' = opts'.crops /\ tools' \in BOOLEAN
  BY OptionFields DEF VA!Start
<1>2. VA!RoundsAllowed' \in 1..RoundLimit
  <2>1. RoundLimit \in Nat /\ RoundLimit >= 1
    BY DEF VA!NaturalLimits
  <2>2. VA!Min({RoundLimit, 1}) = 1
    BY <2>1 DEF VA!Min
  <2> QED
    BY <2>1, <2>2 DEF VA!RoundsAllowed
<1>3. assets' \subseteq [root : Images, depth : 0..DepthLimit]
  BY DEF VA!Start, VA!Region, DialogueInv, VA!TypeOK
<1>4. /\ started' \in 0..Analyses /\ batched' = batched
      /\ RetryLimit \in Nat /\ RoundLimit \in Nat /\ BatchLimit \in Nat
      /\ batched \in 0..(BatchLimit + 1)
  BY DEF VA!Start, DialogueInv, VA!TypeOK, VA!NaturalLimits, VA!batch
<1>5. /\ large' \in BOOLEAN /\ made' \in BOOLEAN /\ exhausted' = FALSE
      /\ phase' = "asked" /\ requests' = 1 /\ retries' = 0 /\ round' = 0 /\ owed' = 0
      /\ used' = used /\ attempts' = attempts
  BY DEF VA!Start, DialogueInv, VA!TypeOK, VA!batch
<1>6. VA!TypeOK'
  <2>1. {exhausted', tools', large', made'} \subseteq BOOLEAN
    BY <1>1, <1>5
  <2> QED
    BY <1>1, <1>3, <1>4, <1>5, <2>1 DEF DialogueInv, VA!TypeOK, VA!RequestCap
<1> QED
  BY <1>2, <1>4, <1>5, <1>6 DEF DialogueInv

LEMMA BatchKeeps ==
  ASSUME VA!NaturalLimits, DialogueInv, NEW n \in 1..(BatchLimit + 1), VA!Batch(n)
  PROVE  DialogueInv'
<1>1. VA!RoundsAllowed \in 1..RoundLimit /\ VA!RoundsAllowed' = VA!RoundsAllowed
  BY RoundsAllowedValue DEF VA!Batch, VA!RoundsAllowed
<1>2. BatchLimit \in Nat /\ RoundLimit \in Nat /\ RetryLimit \in Nat
  BY DEF VA!NaturalLimits
<1>3. /\ phase = "asked" /\ phase' = "batch" /\ round' = round + 1 /\ tools = TRUE
      /\ batched' = n /\ owed' = n /\ large' \in BOOLEAN /\ made' = FALSE
      /\ UNCHANGED <<started, opts, retries, exhausted, tools, requests, assets, used, attempts>>
  BY DEF VA!Batch, VA!registry, DialogueInv, VA!TypeOK
<1>4. round \in Nat /\ round < VA!RoundsAllowed
  BY <1>3 DEF DialogueInv, VA!TypeOK
<1>5. VA!TypeOK'
  <2>1. {exhausted', tools', large', made'} \subseteq BOOLEAN
    BY <1>3 DEF DialogueInv, VA!TypeOK
  <2>2. /\ batched' \in 0..(BatchLimit + 1) /\ owed' \in 0..(BatchLimit + 1)
        /\ round' \in 0..RoundLimit
    BY <1>1, <1>2, <1>3, <1>4
  <2> QED
    BY <1>2, <1>3, <2>1, <2>2 DEF DialogueInv, VA!TypeOK, VA!RequestCap
<1> QED
  BY <1>1, <1>2, <1>3, <1>4, <1>5 DEF DialogueInv, VA!TypeOK

(* A call of the batch gets its result.                                    *)
LEMMA RejectKeeps ==
  ASSUME VA!NaturalLimits, DialogueInv, phase = "batch", batched > 0,
         NEW limit \in BOOLEAN, VA!Reject(limit)
  PROVE  DialogueInv'
<1>1. BatchLimit \in Nat /\ RoundLimit \in Nat /\ RetryLimit \in Nat
  BY DEF VA!NaturalLimits
<1>2. /\ batched' = batched - 1 /\ owed' = owed - 1
      /\ UNCHANGED <<started, opts, phase, retries, round, large, made, requests>>
      /\ UNCHANGED <<assets, used, attempts>>
  BY DEF VA!Reject, VA!Answered, VA!registry
<1>3. {exhausted', tools', large', made'} \subseteq BOOLEAN
  BY DEF VA!Reject, DialogueInv, VA!TypeOK
<1>4. VA!TypeOK'
  BY <1>1, <1>2, <1>3 DEF DialogueInv, VA!TypeOK, VA!RequestCap
<1>5. VA!RoundsAllowed' = VA!RoundsAllowed
  BY <1>2 DEF VA!RoundsAllowed
<1> QED
  BY <1>2, <1>4, <1>5 DEF DialogueInv

(* cropImage runs within the quota of its root, and within the depth.      *)
LEMMA CropsCount ==
  ASSUME VA!NaturalLimits, DialogueInv, NEW a \in assets, VA!Crops(a)
  PROVE  /\ phase = "batch" /\ batched > 0
         /\ used' \in [Images -> 0..CropsPerRoot] /\ attempts' \in [Images -> Nat]
         /\ \A i \in Images : attempts'[i] <= used'[i]
         /\ [root |-> a.root, depth |-> a.depth + 1] \in [root : Images, depth : 0..DepthLimit]
<1>1. CropsPerRoot \in Nat /\ DepthLimit \in Nat /\ round \in Nat
  BY DEF VA!NaturalLimits, DialogueInv, VA!TypeOK
<1>2. a.root \in Images /\ a.depth \in Nat
  BY <1>1 DEF DialogueInv, VA!TypeOK
<1>3. used \in [Images -> 0..CropsPerRoot] /\ attempts \in [Images -> Nat]
  BY DEF DialogueInv, VA!TypeOK
<1>4. used[a.root] \in Nat
  BY <1>1, <1>2, <1>3
<1>5. /\ phase = "batch" /\ batched > 0 /\ VA!Refusal(a, TRUE) = "none"
      /\ used' = [used EXCEPT ![a.root] = @ + 1]
      /\ attempts' = [attempts EXCEPT ![a.root] = @ + 1]
  BY DEF VA!Crops
<1>6. a.depth + 1 <= DepthLimit /\ used[a.root] + 1 <= CropsPerRoot
  BY <1>1, <1>2, <1>4, <1>5, GrantedCrop
<1>7. \A i \in Images : attempts[i] <= used[i]
  BY DEF DialogueInv
<1>8. used' \in [Images -> 0..CropsPerRoot] /\ attempts' \in [Images -> Nat]
  BY <1>1, <1>2, <1>3, <1>5, <1>6
<1>9. \A i \in Images : attempts'[i] <= used'[i]
  BY <1>1, <1>2, <1>3, <1>5, <1>7
<1> QED
  BY <1>1, <1>2, <1>5, <1>6, <1>8, <1>9

LEMMA CropKeeps ==
  ASSUME VA!NaturalLimits, DialogueInv, NEW a \in assets, VA!Crops(a),
         \/ assets' = assets
         \/ assets' = assets \cup {[root |-> a.root, depth |-> a.depth + 1]},
         made' \in BOOLEAN,
         UNCHANGED <<started, opts, retries, round, exhausted, tools, large, requests>>,
         \/ phase' = phase /\ VA!Answered
         \/ phase' = "free" /\ UNCHANGED <<batched, owed>>
  PROVE  DialogueInv'
<1>1. BatchLimit \in Nat /\ RoundLimit \in Nat /\ RetryLimit \in Nat
  BY DEF VA!NaturalLimits
<1>2. {exhausted', tools', large', made'} \subseteq BOOLEAN
  BY DEF DialogueInv, VA!TypeOK
<1>3. assets' \subseteq [root : Images, depth : 0..DepthLimit]
  BY CropsCount DEF DialogueInv, VA!TypeOK
<1>4. batched' \in 0..(BatchLimit + 1) /\ owed' \in 0..(BatchLimit + 1)
  BY <1>1, CropsCount DEF VA!Answered, DialogueInv, VA!TypeOK
<1>5. VA!TypeOK'
  BY <1>1, <1>2, <1>3, <1>4, CropsCount DEF DialogueInv, VA!TypeOK, VA!RequestCap
<1>6. VA!RoundsAllowed' = VA!RoundsAllowed
  BY DEF VA!RoundsAllowed
<1> QED
  BY <1>5, <1>6, CropsCount DEF DialogueInv, VA!Answered

(* The results go to the model, and tools are offered while a round is     *)
(* left to the caller.                                                     *)
LEMMA EndBatchKeeps ==
  ASSUME VA!NaturalLimits, DialogueInv, VA!EndBatch
  PROVE  DialogueInv'
<1>1. BatchLimit \in Nat /\ RoundLimit \in Nat /\ RetryLimit \in Nat
  BY DEF VA!NaturalLimits
<1>2. /\ phase = "batch" /\ phase' = "asked" /\ batched = 0
      /\ UNCHANGED <<started, opts, round, batched, large, made, owed>>
      /\ UNCHANGED <<assets, used, attempts>>
  BY DEF VA!EndBatch, VA!batch, VA!registry
<1>3. retries' \in retries..RetryLimit
  BY <1>1 DEF VA!EndBatch, DialogueInv, VA!TypeOK
<1>4. /\ tools' => round < VA!RoundsAllowed
      /\ {exhausted', tools', large', made'} \subseteq BOOLEAN
  <2>1. VA!RoundsAllowed \in Nat /\ round \in Nat
    BY <1>1, RoundsAllowedValue DEF DialogueInv, VA!TypeOK
  <2>2. tools' => ~(round >= VA!RoundsAllowed)
    BY DEF VA!EndBatch
  <2>3. {exhausted', tools'} \subseteq BOOLEAN
    BY DEF VA!EndBatch, DialogueInv, VA!TypeOK
  <2> QED
    BY <1>2, <2>1, <2>2, <2>3 DEF DialogueInv, VA!TypeOK
<1>5. /\ requests \in Nat /\ retries \in Nat /\ round \in 0..RoundLimit
      /\ requests <= retries + round /\ retries <= RetryLimit
  BY <1>1, <1>2 DEF DialogueInv, VA!TypeOK, VA!RequestCap
<1>6. requests' = requests + 1
  <2>1. requests + 1 <= VA!RequestCap
    BY <1>1, <1>5 DEF VA!RequestCap
  <2> QED
    BY <1>5, <2>1, RequestCounts DEF VA!EndBatch
<1>7. retries' \in 0..RetryLimit /\ requests' \in 0..VA!RequestCap
  BY <1>1, <1>3, <1>5, <1>6 DEF VA!RequestCap
<1>8. VA!TypeOK'
  BY <1>2, <1>4, <1>7 DEF DialogueInv, VA!TypeOK, VA!RequestCap
<1>9. VA!RoundsAllowed' = VA!RoundsAllowed
  BY <1>2 DEF VA!RoundsAllowed
<1>10. requests' <= 1 + retries' + round'
  <2>1. retries' \in Nat /\ retries <= retries'
    BY <1>1, <1>3, <1>5
  <2>2. round' = round
    BY <1>2
  <2>3. /\ requests \in Nat /\ retries \in Nat /\ round \in Nat
        /\ requests <= retries + round /\ requests' = requests + 1
    BY <1>1, <1>5, <1>6
  <2>4. ASSUME NEW n \in Nat, NEW m \in Nat, NEW l \in Nat, NEW k \in Nat, n <= m + k, m <= l
        PROVE  n + 1 <= 1 + l + k
    BY <2>4
  <2>5. requests + 1 <= 1 + retries' + round
    BY <2>1, <2>3, <2>4
  <2> QED
    BY <2>2, <2>3, <2>5
<1>11. owed' = 0
  BY <1>2 DEF DialogueInv
<1> QED
  BY <1>2, <1>4, <1>8, <1>9, <1>10, <1>11 DEF DialogueInv

LEMMA DialogueKept == VA!NaturalLimits /\ DialogueInv /\ [VA!Next]_(VA!vars) => DialogueInv'
<1> SUFFICES ASSUME VA!NaturalLimits, DialogueInv, [VA!Next]_(VA!vars) PROVE DialogueInv'
  OBVIOUS
<1>1. ASSUME NEW f, phase = "asked", VA!RecoverOr(f)
      PROVE  DialogueInv'
  BY <1>1, FinishKeeps, RecoverKeeps DEF VA!RecoverOr
<1>2. CASE VA!TimedOut \/ VA!Fails \/ VA!Judge
  BY <1>1, <1>2, FinishKeeps DEF VA!TimedOut, VA!Fails, VA!Judge
<1>3. CASE \E n \in 1..(BatchLimit + 1) : VA!Batch(n)
  BY <1>3, BatchKeeps
<1>7. CASE VA!NullCall
  BY <1>7, FinishKeeps DEF VA!NullCall
<1>4. CASE VA!BadCall \/ VA!DeniedCall
  <2>1. CASE VA!BadCall
    BY <2>1, RejectKeeps DEF VA!BadCall
  <2>2. CASE VA!DeniedCall
    <3>1. PICK a \in assets, boxed \in BOOLEAN :
            VA!Reject(VA!Refusal(a, boxed) \in VA!LimitCodes)
      BY <2>2 DEF VA!DeniedCall
    <3>2. phase = "batch" /\ batched > 0
      BY <2>2 DEF VA!DeniedCall
    <3>3. (VA!Refusal(a, boxed) \in VA!LimitCodes) \in BOOLEAN
      OBVIOUS
    <3> QED
      BY <3>1, <3>2, <3>3, RejectKeeps
  <2> QED
    BY <1>4, <2>1, <2>2
<1>5. CASE VA!CropMade \/ VA!CropFails \/ VA!CropThrows
  <2>1. PICK a \in assets :
          /\ VA!Crops(a)
          /\ assets' = assets \/ assets' = assets \cup {[root |-> a.root, depth |-> a.depth + 1]}
          /\ made' \in BOOLEAN
          /\ UNCHANGED <<started, opts, retries, round, exhausted, tools, large, requests>>
          /\ \/ phase' = phase /\ VA!Answered
             \/ phase' = "free" /\ UNCHANGED <<batched, owed>>
    BY <1>5 DEF VA!CropMade, VA!CropFails, VA!CropThrows, VA!budget, VA!batch, DialogueInv,
       VA!TypeOK
  <2> QED
    BY <2>1, CropKeeps
<1>6. CASE UNCHANGED VA!vars
  BY <1>6 DEF VA!vars, VA!budget, VA!batch, VA!registry, DialogueInv, VA!TypeOK, VA!RoundsAllowed
<1> QED
  BY <1>2, <1>3, <1>4, <1>5, <1>6, <1>7, StartKeeps, EndBatchKeeps DEF VA!Next, VA!Answer, VA!Handle

(* The dialogue with the visual model is well formed and bounded whatever  *)
(* the model asks for, for every limit of rounds, retries, crops and depth *)
(* and any number of analyses over one registry (analyzeVisualAssets).     *)
THEOREM DialogueIsBounded == VA!Spec => []VisionBounded
<1> USE DialogueAssumption
<1>1. VA!Init => DialogueInv
  <2>1. SUFFICES ASSUME VA!Init PROVE DialogueInv
    OBVIOUS
  <2>2. VA!TypeOK
    <3>1. /\ Analyses \in Nat /\ RetryLimit \in Nat /\ BatchLimit \in Nat
          /\ CropsPerRoot \in Nat /\ DepthLimit \in Nat /\ RoundLimit \in Nat
      BY DEF VA!NaturalLimits
    <3>2. assets \subseteq [root : Images, depth : 0..DepthLimit]
      BY <2>1, <3>1 DEF VA!Init
    <3>3. used \in [Images -> 0..CropsPerRoot] /\ attempts \in [Images -> Nat]
      BY <2>1, <3>1 DEF VA!Init
    <3>4. {exhausted, tools, large, made} \subseteq BOOLEAN
      BY <2>1 DEF VA!Init
    <3> QED
      BY <2>1, <3>1, <3>2, <3>3, <3>4 DEF VA!Init, VA!TypeOK, VA!RequestCap
  <2>3. VA!RoundsAllowed \in Nat
    BY RoundsAllowedValue DEF VA!NaturalLimits
  <2> QED
    BY <2>1, <2>2, <2>3 DEF VA!Init, DialogueInv
<1>2. DialogueInv => VisionBounded
  <2>1. SUFFICES ASSUME DialogueInv PROVE VA!VisionBounded
    BY DEF DialogueInv, VisionBounded
  <2>2. CropsPerRoot \in Nat /\ RetryLimit \in Nat
    BY DEF VA!NaturalLimits
  <2>3. VA!CropsWithinQuota
    <3>1. SUFFICES ASSUME NEW i \in Images PROVE attempts[i] <= CropsPerRoot
      BY DEF VA!CropsWithinQuota
    <3>2. attempts[i] \in Nat /\ used[i] \in 0..CropsPerRoot /\ attempts[i] <= used[i]
      BY <2>1 DEF DialogueInv, VA!TypeOK
    <3> QED
      BY <2>2, <3>2
  <2>4. VA!DialogueBounded
    BY <2>1, <2>2, RoundsAllowedValue DEF DialogueInv, VA!DialogueBounded, VA!TypeOK
  <2> QED
    BY <2>1, <2>3, <2>4 DEF DialogueInv, VA!CallsAnswered, VA!VisionBounded
<1> QED
  BY <1>1, <1>2, DialogueKept, PTL DEF VA!Spec

-----------------------------------------------------------------------------
(* What becomes of the outcomes *)

(* Evidence that lacks something has left its mark among the tiles, and    *)
(* nothing is stored before the end.                                       *)
Flaws == {"unresolved", "partial", "failed"}

KeptInv ==
    /\ stored => stage = "evidence"
    /\ stored /\ job # "pdf" => ~lacks
    /\ job = "image" /\ stage = "start" => ~lacks
    /\ job = "image" /\ stage = "tiles" /\ lacks => regions \cap Flaws # {}

(* The loops of parsePdf: a page of the route k that has been passed is    *)
(* named once, or once its tiles are analysed; no other page is.           *)
Passed(k, p) == k < turn \/ (k = turn /\ VE!Rank(k, p) < next)
Shown(p) == covered[p] + IF p \in zooming THEN 1 ELSE 0
LoopInv ==
    /\ \A p \in VE!PageSet : route[p] # "none"
    /\ \A p \in VE!PageSet, k \in 1..4 :
          p \in VE!Entries(k) => Shown(p) = IF Passed(k, p) THEN 1 ELSE 0
    /\ \A p \in VE!PageSet : ~VE!NeedsVision(p) => Shown(p) = 0

(* The pages are classified in their order, all of them before the first   *)
(* batch.                                                                  *)
PagesInv ==
    /\ route \in [VE!PageSet -> VE!Routes \cup {"none"}]
    /\ covered \in [VE!PageSet -> Nat]
    /\ zooming \subseteq VE!PageSet
    /\ turn \in 1..5 /\ next \in Nat
    /\ job = "pdf" /\ stage \in {"start", "plan"} => \A p \in VE!PageSet : route[p] = "none"
    /\ job = "pdf" /\ stage \in {"start", "plan", "classify"} =>
         turn = 1 /\ next = 0 /\ zooming = {} /\ \A p \in VE!PageSet : covered[p] = 0
    /\ job = "pdf" /\ stage = "batches" => LoopInv
    /\ VE!PagesCovered

(* What an analysis may return is a failure, or evidence that is cacheable *)
(* exactly when it lacks nothing.                                          *)
Sound(r, zoomAllowed) ==
    \/ r.kind \in {"recoverable", "fatal", "aborted"} /\ r.lacking
    \/ /\ r.kind = "evidence"
       /\ r.zoom => zoomAllowed /\ r.lacking
       /\ r.cacheable <=> ~r.lacking
       /\ {r.zoom, r.cacheable, r.lacking} \subseteq BOOLEAN

LEMMA PromisedResults ==
    /\ \A r \in VE!RootResults : Sound(r, TRUE)
    /\ \A r \in VE!TileResults : Sound(r, FALSE)
BY DEF VE!Promised, VE!Failures, VE!Failure, VE!RootResults, VE!TileResults, Sound

LEMMA EvidenceStarts == VE!Init => KeptInv /\ PagesInv
BY DEF VE!Init, KeptInv, PagesInv, VE!PageSet, VE!PagesCovered

(* A tile that lacks something is a flaw of the zoom.                      *)
LEMMA FlawedTile ==
  ASSUME NEW r \in VE!TileResults, r.kind \in {"evidence", "recoverable"}, r.lacking
  PROVE  VE!TileStatus(r) \in Flaws
<1>1. Sound(r, FALSE)
  BY PromisedResults
<1>2. CASE r.kind = "recoverable"
  <2>1. VE!TileStatus(r) = "failed"
    BY <1>2 DEF VE!TileStatus
  <2> QED
    BY <2>1 DEF Flaws
<1>3. CASE r.kind = "evidence"
  <2>1. ~r.zoom /\ ~r.cacheable
    BY <1>1, <1>3 DEF Sound
  <2>2. VE!TileStatus(r) = "partial"
    BY <1>3, <2>1 DEF VE!TileStatus
  <2> QED
    BY <2>2 DEF Flaws
<1> QED
  BY <1>2, <1>3

(* The attachment is a single image: its root frame and its tiles.         *)
LEMMA ImageKeeps == KeptInv /\ VE!Image => KeptInv'
<1> SUFFICES ASSUME KeptInv, VE!Image PROVE KeptInv'
  OBVIOUS
<1>1. CASE VE!ImageRoot
  <2>1. PICK r \in VE!RootResults :
          \/ r.kind = "evidence" /\ ~r.zoom /\ lacks' = r.lacking /\ VE!End("evidence", r.cacheable)
          \/ stage' = "tiles" /\ UNCHANGED <<job, lacks, stored>>
          \/ r.kind = "recoverable" /\ VE!End("unavailable", FALSE)
          \/ r.kind \in {"fatal", "aborted"} /\ VE!End("thrown", FALSE)
    BY <1>1 DEF VE!ImageRoot
  <2>2. job = "image" /\ stage = "start"
    BY <1>1 DEF VE!ImageRoot
  <2>3. CASE r.kind = "evidence" /\ ~r.zoom /\ lacks' = r.lacking /\ VE!End("evidence", r.cacheable)
    <3>1. stored' => ~r.lacking
      BY <2>1, <2>3, PromisedResults DEF VE!End, Sound
    <3>2. lacks' => ~stored'
      <4>1. lacks' = r.lacking
        BY <2>3
      <4> QED
        BY <3>1, <4>1, Zenon
    <3>3. stage' = "evidence"
      BY <2>3 DEF VE!End
    <3> QED
      BY <3>2, <3>3 DEF KeptInv
  <2>4. ASSUME NEW how \in {"unavailable", "thrown"}, VE!End(how, FALSE)
        PROVE  KeptInv'
    BY <2>4 DEF VE!End, KeptInv
  <2>5. CASE stage' = "tiles" /\ UNCHANGED <<job, lacks, stored>>
    BY <2>2, <2>5 DEF KeptInv
  <2> QED
    BY <2>1, <2>3, <2>4, <2>5
<1>2. CASE VE!ImageThrows
  BY <1>2 DEF VE!ImageThrows, VE!End, KeptInv
<1>3. CASE VE!ImageTile
  <2>1. PICK r \in VE!TileResults :
          \/ /\ r.kind \in {"evidence", "recoverable"}
             /\ regions' = regions \cup {VE!TileStatus(r)}
             /\ lacks' = (lacks \/ r.lacking)
             /\ UNCHANGED <<job, stage, stored>>
          \/ VE!End("thrown", FALSE)
    BY <1>3 DEF VE!ImageTile
  <2>2. job = "image" /\ stage = "tiles"
    BY <1>3 DEF VE!ImageTile
  <2>3. CASE VE!End("thrown", FALSE)
    BY <2>3 DEF VE!End, KeptInv
  <2>4. CASE /\ r.kind \in {"evidence", "recoverable"}
             /\ regions' = regions \cup {VE!TileStatus(r)}
             /\ lacks' = (lacks \/ r.lacking)
             /\ UNCHANGED <<job, stage, stored>>
    <3>1. r.lacking => VE!TileStatus(r) \in Flaws
      BY <2>4, FlawedTile
    <3>2. lacks' => regions' \cap Flaws # {}
      BY <2>2, <2>4, <3>1 DEF KeptInv
    <3> QED
      BY <2>2, <2>4, <3>2 DEF KeptInv
  <2> QED
    BY <2>1, <2>3, <2>4
<1>4. CASE VE!ImageDone
  BY <1>4 DEF VE!ImageDone, VE!ZoomCacheable, VE!End, KeptInv, Flaws
<1> QED
  BY <1>1, <1>2, <1>3, <1>4 DEF VE!Image

(* A directed query is stored when it is complete.                         *)
LEMMA QueryKeeps == KeptInv /\ VE!Query => KeptInv'
<1> SUFFICES ASSUME KeptInv, VE!Query PROVE KeptInv'
  OBVIOUS
<1>1. job = "directed"
  BY DEF VE!Query, VE!QueryHit, VE!QueryFirst, VE!QueryRepair
<1>2. ASSUME NEW s \in VE!Perceived, VE!QueryDone(s)
      PROVE  KeptInv'
  BY <1>1, <1>2 DEF VE!QueryDone, VE!QueryStored, VE!End, KeptInv
<1>3. ASSUME NEW r \in VE!RawResults, VE!QueryUnanswered(r)
      PROVE  KeptInv'
  BY <1>1, <1>3 DEF VE!QueryUnanswered, VE!End, KeptInv
<1>4. CASE VE!QueryHit
  BY <1>1, <1>4 DEF VE!QueryHit, VE!End, KeptInv
<1>5. CASE VE!QueryFirst
  <2>1. CASE job' = job /\ stage' = "repair" /\ UNCHANGED <<lacks, stored>>
    BY <1>1, <1>5, <2>1 DEF KeptInv, VE!QueryFirst
  <2> QED
    BY <1>2, <1>3, <1>5, <2>1 DEF VE!QueryFirst
<1>6. CASE VE!QueryRepair
  <2>1. CASE VE!End("unavailable", FALSE)
    BY <1>1, <2>1 DEF VE!End, KeptInv
  <2> QED
    BY <1>2, <1>3, <1>6, <2>1 DEF VE!QueryRepair
<1> QED
  BY <1>4, <1>5, <1>6 DEF VE!Query

LEMMA PdfIsNoImage == KeptInv /\ VE!Pdf => KeptInv'
<1> SUFFICES ASSUME KeptInv, VE!Pdf PROVE KeptInv'
  OBVIOUS
<1>1. job = "pdf"
  BY DEF VE!Pdf, VE!PdfOpen, VE!PdfWithoutVision, VE!PdfVision, VE!PdfThrows, VE!PdfClassify,
     VE!PdfNextRoute, VE!PdfBatch, VE!PdfSchematic, VE!PdfTile, VE!PdfDone,
     VE!AtLoop, VE!InLoop
<1>2. ASSUME NEW how, NEW keep, VE!End(how, keep)
      PROVE  KeptInv'
  BY <1>1, <1>2 DEF VE!End, KeptInv
<1>3. CASE stage # "evidence" /\ UNCHANGED <<job, stored>>
  BY <1>1, <1>3 DEF KeptInv
<1> QED
  BY <1>2, <1>3 DEF VE!Pdf, VE!PdfOpen, VE!PdfWithoutVision, VE!PdfVision, VE!PdfThrows,
     VE!PdfClassify, VE!PdfNextRoute, VE!PdfBatch, VE!PdfSchematic, VE!PdfTile, VE!PdfDone,
     VE!AtLoop, VE!InLoop, VE!Ends

(* The flag that decides whether image evidence or a perception is stored  *)
(* is right for any number of tiles, whatever each analysis returns        *)
(* (adaptImage, generic-zoom.js, executeDirectedVisualQuery).              *)
THEOREM KeptIsComplete == VE!Spec => []OnlyCompleteKept
<1>1. KeptInv /\ [VE!Next]_(VE!vars) => KeptInv'
  <2>1. KeptInv /\ UNCHANGED VE!vars => KeptInv'
    BY DEF KeptInv, VE!vars
  <2> QED
    BY <2>1, ImageKeeps, QueryKeeps, PdfIsNoImage DEF VE!Next
<1>2. KeptInv => OnlyCompleteKept
  BY DEF KeptInv, VE!OnlyCompleteKept, OnlyCompleteKept
<1> QED
  BY <1>1, <1>2, EvidenceStarts, PTL DEF VE!Spec

(* The pages of a route are counted below by their ranks.                  *)
LEMMA RankBelow ==
  ASSUME NEW k, NEW p \in VE!Entries(k)
  PROVE  /\ VE!Rank(k, p) \in Nat /\ Cardinality(VE!Entries(k)) \in Nat
         /\ VE!Rank(k, p) < Cardinality(VE!Entries(k))
<1> DEFINE E == VE!Entries(k)
           T == {q \in E : q < p}
<1>1. Pages \in Nat
  BY EvidenceAssumption DEF VE!PageLimits
<1>2. IsFiniteSet(E) /\ E \subseteq Nat
  <2>1. IsFiniteSet(VE!PageSet) /\ VE!PageSet \subseteq Nat
    BY <1>1, FS_Interval DEF VE!PageSet
  <2>2. E \subseteq VE!PageSet
    BY DEF VE!Entries
  <2> QED
    BY <2>1, <2>2, FS_Subset
<1>3. T \subseteq E /\ p \in E /\ p \notin T
  BY <1>2
<1>4. /\ IsFiniteSet(T) /\ Cardinality(T) <= Cardinality(E)
      /\ Cardinality(E) # Cardinality(T)
  BY <1>2, <1>3, FS_Subset
<1>5. Cardinality(T) \in Nat /\ Cardinality(E) \in Nat
  BY <1>2, <1>4, FS_CardinalityType
<1> QED
  BY <1>4, <1>5 DEF VE!Rank, VE!Cardinality, Cardinality

LEMMA EntriesApart ==
  ASSUME NEW k \in 1..4, NEW i \in 1..4, NEW p \in VE!Entries(k), p \in VE!Entries(i)
  PROVE  k = i
BY DEF VE!Entries, VE!LoopRoutes

(* The pages and their routes stay: so do the entries of the loops.        *)
LEMMA EntriesStay ==
  ASSUME UNCHANGED <<route, low>>
  PROVE  /\ \A k : VE!Entries(k)' = VE!Entries(k)
         /\ \A k, p : VE!Rank(k, p)' = VE!Rank(k, p)
         /\ \A p : VE!NeedsVision(p)' = VE!NeedsVision(p)
BY DEF VE!Entries, VE!NeedsVision, VE!Rank

(* A slice of the loop that runs: its pages are the next ones, and they    *)
(* are named at once or wait for their tiles.                              *)
LEMMA SliceKeepsPages ==
  ASSUME PagesInv, job = "pdf", stage = "batches", zooming = {}, turn \in 1..4,
         NEW size \in Nat, next' = next + size,
         \/ VE!Cover(VE!Slice(size)) /\ zooming' = zooming
         \/ zooming' = VE!Slice(size) /\ covered' = covered,
         UNCHANGED <<job, stage, route, low, turn>>
  PROVE  PagesInv'
<1>1. VE!Slice(size) \subseteq VE!PageSet
  BY DEF VE!Slice, VE!Entries
<1>2. covered' \in [VE!PageSet -> Nat] /\ zooming' \subseteq VE!PageSet
  BY <1>1 DEF PagesInv, VE!Cover
<1>3. \A p \in VE!PageSet : Shown(p)' = Shown(p) + IF p \in VE!Slice(size) THEN 1 ELSE 0
  BY <1>1 DEF PagesInv, VE!Cover, Shown
<1>4. \A p \in VE!PageSet : ~VE!NeedsVision(p) => p \notin VE!Slice(size)
  BY DEF VE!Slice, VE!Entries
<1>5. ASSUME NEW p \in VE!PageSet, NEW k \in 1..4, p \in VE!Entries(k)
      PROVE  Shown(p)' = IF Passed(k, p)' THEN 1 ELSE 0
  <2>1. VE!Rank(k, p) \in Nat /\ VE!Rank(k, p)' = VE!Rank(k, p)
    BY <1>5, RankBelow, EntriesStay
  <2>2. p \in VE!Slice(size)
          <=> k = turn /\ next <= VE!Rank(k, p) /\ VE!Rank(k, p) < next + size
    BY <1>5, EntriesApart DEF VE!Slice
  <2>3. Shown(p) = IF Passed(k, p) THEN 1 ELSE 0
    BY <1>5 DEF PagesInv, LoopInv
  <2>4. next \in Nat /\ turn \in Nat
    BY DEF PagesInv
  <2> QED
    BY <1>3, <2>1, <2>2, <2>3, <2>4 DEF Passed
<1>6. LoopInv'
  <2>1. \A p \in VE!PageSet : ~VE!NeedsVision(p) => Shown(p)' = 0
    BY <1>3, <1>4 DEF PagesInv, LoopInv
  <2> QED
    BY <1>5, <2>1, EntriesStay DEF PagesInv, LoopInv
<1> QED
  BY <1>2, <1>6 DEF PagesInv, VE!PagesCovered

(* The last tile of a page: it is named, and waits no more.                *)
LEMMA TileKeepsPages == PagesInv /\ VE!PdfTile /\ stage' = stage => PagesInv'
<1> SUFFICES ASSUME PagesInv, VE!PdfTile, stage' = stage PROVE PagesInv'
  OBVIOUS
<1>1. PICK p \in zooming :
        /\ UNCHANGED <<job, route, low, turn, next>>
        /\ \/ UNCHANGED <<zooming, covered>>
           \/ zooming' = zooming \ {p} /\ VE!Cover({p})
  BY DEF VE!PdfTile, VE!End, VE!loop
<1>2. job = "pdf" /\ stage = "batches"
  BY DEF VE!PdfTile
<1>3. covered' \in [VE!PageSet -> Nat] /\ zooming' \subseteq VE!PageSet
  BY <1>1 DEF PagesInv, VE!Cover
<1>4. \A q \in VE!PageSet : Shown(q)' = Shown(q)
  BY <1>1 DEF PagesInv, VE!Cover, Shown
<1>5. \A k, q : Passed(k, q)' <=> Passed(k, q)
  BY <1>1, EntriesStay DEF Passed
<1>6. LoopInv'
  <2>1. LoopInv
    BY <1>2 DEF PagesInv
  <2> QED
    BY <1>1, <1>4, <1>5, <2>1, EntriesStay DEF LoopInv
<1> QED
  BY <1>1, <1>2, <1>3, <1>6 DEF PagesInv, VE!PagesCovered

(* The loop of a route ends behind its last page.                          *)
LEMMA NextRouteKeepsPages == PagesInv /\ VE!PdfNextRoute => PagesInv'
<1> SUFFICES ASSUME PagesInv, VE!PdfNextRoute PROVE PagesInv'
  OBVIOUS
<1>1. /\ job = "pdf" /\ stage = "batches" /\ turn \in 1..4
      /\ next >= Cardinality(VE!Entries(turn)) /\ turn' = turn + 1 /\ next' = 0
      /\ UNCHANGED <<job, stage, route, low, zooming, covered>>
  BY DEF VE!PdfNextRoute, VE!AtLoop, VE!Cardinality, Cardinality
<1>2. LoopInv /\ next \in Nat
  BY <1>1 DEF PagesInv
<1>3. ASSUME NEW p \in VE!PageSet, NEW k \in 1..4, p \in VE!Entries(k)
      PROVE  Passed(k, p)' <=> Passed(k, p)
  <2>1. /\ VE!Rank(k, p) \in Nat /\ VE!Rank(k, p)' = VE!Rank(k, p)
        /\ Cardinality(VE!Entries(k)) \in Nat
        /\ VE!Rank(k, p) < Cardinality(VE!Entries(k))
    BY <1>1, <1>3, RankBelow, EntriesStay
  <2> QED
    BY <1>1, <1>2, <2>1 DEF Passed
<1>4. \A p : Shown(p)' = Shown(p)
  BY <1>1 DEF Shown
<1>5. LoopInv'
  BY <1>1, <1>2, <1>3, <1>4, EntriesStay DEF LoopInv
<1> QED
  BY <1>1, <1>5 DEF PagesInv, VE!PagesCovered

(* Behind the last loop every page that needs it has been named once.      *)
LEMMA LoopsAreDone ==
  ASSUME PagesInv, VE!PdfDone, NEW p \in VE!PageSet
  PROVE  /\ route[p] # "none"
         /\ covered[p] = IF VE!NeedsVision(p) THEN 1 ELSE 0
<1>1. turn = 5 /\ zooming = {} /\ LoopInv /\ route[p] \in VE!Routes /\ covered[p] \in Nat
  BY DEF PagesInv, LoopInv, VE!PdfDone, VE!AtLoop
<1>2. Shown(p) = covered[p]
  BY <1>1 DEF Shown
<1>3. CASE VE!NeedsVision(p)
  <2>1. PICK k \in 1..4 : p \in VE!Entries(k)
    BY <1>1, <1>3 DEF VE!Entries, VE!LoopRoutes, VE!Routes
  <2> QED
    BY <1>1, <1>2, <1>3, <2>1 DEF LoopInv, Passed
<1>4. CASE ~VE!NeedsVision(p)
  BY <1>1, <1>2, <1>4 DEF LoopInv
<1> QED
  BY <1>1, <1>3, <1>4 DEF LoopInv

LEMMA PdfKeepsPages == PagesInv /\ VE!Pdf => PagesInv'
<1> SUFFICES ASSUME PagesInv, VE!Pdf PROVE PagesInv'
  OBVIOUS
<1>1. job = "pdf"
  BY DEF VE!Pdf, VE!PdfOpen, VE!PdfWithoutVision, VE!PdfVision, VE!PdfThrows, VE!PdfClassify,
     VE!PdfNextRoute, VE!PdfBatch, VE!PdfSchematic, VE!PdfTile, VE!PdfDone, VE!AtLoop,
     VE!InLoop
<1>2. ASSUME VE!End("thrown", FALSE)
      PROVE  PagesInv'
  BY <1>1, <1>2 DEF PagesInv, VE!PagesCovered, VE!End, VE!pdf, VE!loop
<1>3. CASE VE!PdfOpen \/ VE!PdfVision
  BY <1>1, <1>3 DEF PagesInv, VE!PagesCovered, VE!PdfOpen, VE!PdfVision, VE!pdf, VE!loop
<1>4. CASE VE!PdfWithoutVision
  <2>1. ASSUME NEW keep, VE!End("evidence", keep)
        PROVE  PagesInv'
    BY <1>1, <1>4, <2>1 DEF PagesInv, VE!PagesCovered, VE!PdfWithoutVision, VE!End, VE!pdf,
       VE!loop
  <2> QED
    BY <1>2, <1>4, <2>1 DEF VE!PdfWithoutVision
<1>5. CASE VE!PdfClassify
  <2>1. PICK p \in VE!PageSet, class \in VE!Routes :
          /\ route' = [route EXCEPT ![p] = class]
          /\ stage' = IF p = Pages THEN "batches" ELSE "classify"
          /\ \A s \in 1..(p - 1) : route[s] # "none"
    BY <1>5 DEF VE!PdfClassify, VE!Routes
  <2>2. stage = "classify" /\ UNCHANGED <<job, low, turn, next, zooming, covered>>
    BY <1>5 DEF VE!PdfClassify, VE!loop
  <2>3. route' \in [VE!PageSet -> VE!Routes \cup {"none"}]
    BY <2>1 DEF PagesInv
  <2>4. /\ turn = 1 /\ next = 0 /\ zooming = {}
        /\ \A q \in VE!PageSet : covered[q] = 0
    BY <1>1, <2>2 DEF PagesInv
  <2>5. p = Pages => LoopInv'
    <3> SUFFICES ASSUME p = Pages PROVE LoopInv'
      OBVIOUS
    <3>1. \A q \in VE!PageSet : route'[q] # "none"
      BY <2>1 DEF PagesInv, VE!PageSet, VE!Routes
    <3>2. \A q \in VE!PageSet : Shown(q)' = 0
      BY <2>2, <2>4 DEF Shown
    <3>3. \A q \in VE!PageSet, k \in 1..4 : q \in VE!Entries(k)' => VE!Rank(k, q)' \in Nat
      <4>1. ASSUME NEW k \in 1..4, NEW q \in VE!Entries(k)'
            PROVE  VE!Rank(k, q)' \in Nat
        <5>1. IsFiniteSet(VE!PageSet)
          BY EvidenceAssumption, FS_Interval DEF VE!PageSet, VE!PageLimits
        <5>2. {r \in VE!Entries(k)' : r < q} \subseteq VE!PageSet
          BY DEF VE!Entries
        <5> QED
          BY <5>1, <5>2, FS_Subset, FS_CardinalityType DEF VE!Rank, VE!Cardinality, Cardinality
      <4> QED
        BY <4>1
    <3>4. \A q \in VE!PageSet, k \in 1..4 : q \in VE!Entries(k)' => ~Passed(k, q)'
      BY <2>2, <2>4, <3>3 DEF Passed
    <3> QED
      BY <3>1, <3>2, <3>4 DEF LoopInv
  <2> QED
    BY <1>1, <2>1, <2>2, <2>3, <2>4, <2>5 DEF PagesInv, VE!PagesCovered
<1>6. CASE VE!PdfNextRoute
  BY <1>6, NextRouteKeepsPages
<1>7. CASE VE!PdfBatch
  <2>1. /\ stage = "batches" /\ zooming = {} /\ turn \in 1..4 /\ PageBatch \in Nat
    BY <1>7, EvidenceAssumption DEF VE!PdfBatch, VE!InLoop, VE!AtLoop, VE!PageLimits
  <2>2. CASE /\ next' = next + PageBatch
             /\ \/ VE!Cover(VE!Slice(PageBatch)) /\ zooming' = zooming
                \/ zooming' = VE!Slice(PageBatch) /\ covered' = covered
             /\ UNCHANGED <<job, stage, route, low, turn>>
    BY <1>1, <2>1, <2>2, SliceKeepsPages
  <2> QED
    BY <1>2, <1>7, <2>2 DEF VE!PdfBatch
<1>8. CASE VE!PdfSchematic
  <2>1. /\ stage = "batches" /\ zooming = {} /\ turn \in 1..4
    BY <1>8 DEF VE!PdfSchematic, VE!InLoop, VE!AtLoop
  <2>2. CASE /\ next' = next + 1 /\ zooming' = VE!Slice(1)
             /\ UNCHANGED <<job, stage, route, low, turn, covered>>
    BY <1>1, <2>1, <2>2, SliceKeepsPages
  <2> QED
    BY <1>2, <1>8, <2>2 DEF VE!PdfSchematic
<1>9. CASE VE!PdfTile
  <2>1. stage' = stage \/ VE!End("thrown", FALSE)
    BY <1>9 DEF VE!PdfTile
  <2> QED
    BY <1>2, <1>9, <2>1, TileKeepsPages
<1>10. CASE VE!PdfDone
  <2>1. VE!End("evidence", TRUE)
    BY <1>10 DEF VE!PdfDone
  <2> QED
    BY <1>1, <1>10, <2>1, LoopsAreDone DEF PagesInv, VE!PagesCovered, VE!NeedsVision, VE!End,
       VE!pdf, VE!loop
<1>11. CASE VE!PdfThrows
  BY <1>2, <1>11 DEF VE!PdfThrows
<1> QED
  BY <1>3, <1>4, <1>5, <1>6, <1>7, <1>8, <1>9, <1>10, <1>11 DEF VE!Pdf

LEMMA PagesKeep == PagesInv /\ [VE!Next]_(VE!vars) => PagesInv'
<1> SUFFICES ASSUME PagesInv, [VE!Next]_(VE!vars) PROVE PagesInv'
  OBVIOUS
<1>1. CASE job # "pdf" /\ UNCHANGED <<job, VE!pdf>>
  BY <1>1 DEF PagesInv, VE!PagesCovered, VE!pdf, VE!loop
<1>2. CASE UNCHANGED VE!vars
  <2>1. UNCHANGED <<job, stage, route, low, turn, next, zooming, covered>>
    BY <1>2 DEF VE!vars, VE!pdf, VE!loop
  <2>2. LoopInv => LoopInv'
    BY <2>1, EntriesStay DEF LoopInv, Passed, Shown
  <2> QED
    BY <2>1, <2>2 DEF PagesInv, VE!PagesCovered
<1>3. CASE VE!Image
  <2>1. job = "image" /\ UNCHANGED <<job, VE!pdf>>
    BY <1>3 DEF VE!Image, VE!ImageRoot, VE!ImageThrows, VE!ImageTile, VE!ImageDone, VE!End
  <2> QED
    BY <1>1, <2>1
<1>4. CASE VE!Query
  <2>1. job = "directed" /\ UNCHANGED <<job, VE!pdf>>
    BY <1>4 DEF VE!Query, VE!QueryHit, VE!QueryFirst, VE!QueryRepair, VE!QueryDone,
       VE!QueryUnanswered, VE!End
  <2> QED
    BY <1>1, <2>1
<1> QED
  BY <1>2, <1>3, <1>4, PdfKeepsPages DEF VE!Next

(* A PDF's result names each page that needs visual evidence in exactly    *)
(* one visual batch, and no other page, for any number of pages, any size  *)
(* of a batch and any number of tiles (parsePdf, batchVisualPages).        *)
THEOREM PagesAreCovered == VE!Spec => []PagesCovered
<1>1. PagesInv => PagesCovered
  BY DEF PagesInv, PagesCovered
<1> QED
  BY <1>1, PagesKeep, EvidenceStarts, PTL DEF VE!Spec
=============================================================================

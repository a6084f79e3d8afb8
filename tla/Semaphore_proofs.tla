--------------------------- MODULE Semaphore_proofs ---------------------------
(***************************************************************************)
(* The semaphore's safety properties for every set of callers and every    *)
(* limit.  The queue facts carry the permit facts: the permit count only   *)
(* stays exact because the head of the queue is a waiting caller, and that *)
(* caller is in the queue once.                                            *)
(***************************************************************************)
EXTENDS Semaphore, Subsequence_proofs

(* The entries of the queue are distinct and are the waiting callers:      *)
(* QueueIsWaiters in the two halves the steps disturb separately.          *)
Distinct(s) == \A i, j \in 1..Len(s) : s[i] = s[j] => i = j
Entries(s) == {s[i] : i \in 1..Len(s)}

IInv == TypeOK /\ QueueIsWaiters /\ PermitsBounded /\ NoIdlePermit
-----------------------------------------------------------------------------
(* What RemoveAt returns: the sequence without its i-th element, the later *)
(* elements one place earlier.                                             *)
LEMMA RemoveAtProperties ==
    ASSUME NEW S, NEW s \in Seq(S), NEW i \in 1..Len(s)
    PROVE  /\ RemoveAt(s, i) \in Seq(S)
           /\ Len(RemoveAt(s, i)) = Len(s) - 1
           /\ \A j \in 1..(Len(s) - 1) :
                RemoveAt(s, i)[j] = IF j < i THEN s[j] ELSE s[j + 1]
<1>1. RemoveAt(s, i) = Without(s, i)
  BY DEF RemoveAt, Without
<1> QED
  BY <1>1, CutOut

(* Removing one element of a sequence without repetitions keeps it without *)
(* repetitions, and takes exactly that element out of its range.           *)
LEMMA RemoveAtDistinct ==
    ASSUME NEW S, NEW s \in Seq(S), NEW i \in 1..Len(s), Distinct(s)
    PROVE  /\ Distinct(RemoveAt(s, i))
           /\ Entries(RemoveAt(s, i)) = Entries(s) \ {s[i]}
<1> DEFINE r == RemoveAt(s, i)
<1>1. /\ Len(s) \in Nat
      /\ Len(r) = Len(s) - 1
      /\ \A j \in 1..(Len(s) - 1) : r[j] = IF j < i THEN s[j] ELSE s[j + 1]
  BY RemoveAtProperties, LenProperties
<1> HIDE DEF r
<1>2. Distinct(r)
  BY <1>1 DEF Distinct
<1>3. Entries(r) \subseteq Entries(s) \ {s[i]}
  BY <1>1 DEF Distinct, Entries
<1>4. ASSUME NEW x \in Entries(s) \ {s[i]}
      PROVE  x \in Entries(r)
  <2>1. PICK k \in 1..Len(s) : x = s[k] /\ k # i
    BY DEF Entries
  <2>2. CASE k < i
    <3>1. k \in 1..Len(r) /\ r[k] = x
      BY <1>1, <2>1, <2>2
    <3> QED
      BY <3>1 DEF Entries
  <2>3. CASE k > i
    <3>1. k - 1 \in 1..Len(r) /\ r[k - 1] = x
      BY <1>1, <2>1, <2>3
    <3> QED
      BY <3>1 DEF Entries
  <2> QED
    BY <2>1, <2>2, <2>3
<1> QED
  BY <1>2, <1>3, <1>4 DEF r

(* The same for the shift of the drain loop, which takes the first entry.  *)
LEMMA TailDistinct ==
    ASSUME NEW S, NEW s \in Seq(S), s # <<>>, Distinct(s)
    PROVE  /\ Tail(s) \in Seq(S)
           /\ Distinct(Tail(s))
           /\ Entries(Tail(s)) = Entries(s) \ {Head(s)}
           /\ Head(s) \in Entries(s)
<1>1. /\ Len(s) \in Nat \ {0}
      /\ Tail(s) \in Seq(S)
      /\ Len(Tail(s)) = Len(s) - 1
      /\ \A i \in 1..(Len(s) - 1) : Tail(s)[i] = s[i + 1]
      /\ Head(s) = s[1]
  BY HeadTailProperties, EmptySeq
<1>2. Distinct(Tail(s))
  BY <1>1 DEF Distinct
<1>3. Entries(Tail(s)) \subseteq Entries(s) \ {Head(s)}
  BY <1>1 DEF Distinct, Entries
<1>4. ASSUME NEW x \in Entries(s) \ {Head(s)}
      PROVE  x \in Entries(Tail(s))
  <2>1. PICK k \in 1..Len(s) : x = s[k] /\ k # 1
    BY <1>1 DEF Entries
  <2>2. k - 1 \in 1..Len(Tail(s)) /\ Tail(s)[k - 1] = x
    BY <1>1, <2>1
  <2> QED
    BY <2>2 DEF Entries
<1>5. Head(s) \in Entries(s)
  BY <1>1 DEF Entries
<1> QED
  BY <1>1, <1>2, <1>3, <1>4, <1>5

(* An entry pushed at the back that was not in the queue keeps it distinct. *)
LEMMA AppendDistinct ==
    ASSUME NEW S, NEW s \in Seq(S), NEW x \in S, Distinct(s), x \notin Entries(s)
    PROVE  /\ Append(s, x) \in Seq(S)
           /\ Append(s, x) # <<>>
           /\ Distinct(Append(s, x))
           /\ Entries(Append(s, x)) = Entries(s) \cup {x}
<1> DEFINE t == Append(s, x)
<1>1. /\ Len(s) \in Nat
      /\ t \in Seq(S)
      /\ t # <<>>
      /\ Len(t) = Len(s) + 1
      /\ \A i \in 1..Len(s) : t[i] = s[i]
      /\ t[Len(s) + 1] = x
  BY AppendProperties, LenProperties
<1> HIDE DEF t
<1>2. Distinct(t)
  BY <1>1 DEF Distinct, Entries
<1>3. Entries(t) \subseteq Entries(s) \cup {x}
  BY <1>1 DEF Entries
<1>4. Entries(s) \subseteq Entries(t)
  BY <1>1 DEF Entries
<1>5. x \in Entries(t)
  BY <1>1 DEF Entries
<1> QED
  BY <1>1, <1>2, <1>3, <1>4, <1>5 DEF t
-----------------------------------------------------------------------------
(* QueueIsWaiters in terms of Distinct and Entries. *)
LEMMA QueueSplit ==
    QueueIsWaiters <=> /\ Distinct(waiting)
                       /\ {c \in Callers : pc[c] = "waiting"} = Entries(waiting)
BY DEF QueueIsWaiters, Distinct, Entries

(* The number of holders when one caller starts or stops holding. *)
LEMMA HoldersCount ==
    ASSUME TypeOK
    PROVE  /\ IsFiniteSet(Holders)
           /\ Cardinality(Holders) \in Nat
           /\ \A c \in Callers \ Holders :
                Cardinality(Holders \cup {c}) = Cardinality(Holders) + 1
           /\ \A c \in Holders :
                Cardinality(Holders \ {c}) = Cardinality(Holders) - 1
<1>1. IsFiniteSet(Holders)
  BY CallersAssumption, FS_Subset DEF Holders
<1> QED
  BY <1>1, FS_CardinalityType, FS_AddElement, FS_RemoveElement

LEMMA InitInv == Init => IInv
<1> SUFFICES ASSUME Init PROVE IInv
  OBVIOUS
<1>1. TypeOK
  BY EmptySeq DEF Init, TypeOK, CallerStates
<1>2. Len(waiting) = 0
  BY DEF Init
<1>3. QueueIsWaiters
  BY <1>2 DEF Init, QueueIsWaiters
<1>4. Holders = {}
  BY DEF Init, Holders
<1>5. PermitsBounded
  BY <1>4, FS_EmptySet, LimitAssumption DEF Init, PermitsBounded
<1> QED
  BY <1>1, <1>3, <1>5 DEF Init, IInv, NoIdlePermit
-----------------------------------------------------------------------------
(* A step in which only a caller moves that neither waits nor holds, before *)
(* or after it, keeps the invariant.                                       *)
LEMMA OutsideStep ==
    ASSUME IInv, NEW c \in Callers,
           pc[c] \notin {"waiting", "holding"},
           NEW st \in {"idle", "rejected"},
           pc' = [pc EXCEPT ![c] = st],
           aborted' \subseteq Callers,
           UNCHANGED <<active, waiting, draining>>
    PROVE  IInv'
<1> USE DEF IInv
<1>1. TypeOK'
  BY DEF TypeOK, CallerStates
<1>2. QueueIsWaiters'
  <2>1. {d \in Callers : pc'[d] = "waiting"} = {d \in Callers : pc[d] = "waiting"}
    BY DEF TypeOK
  <2> QED
    BY <2>1, QueueSplit DEF QueueIsWaiters
<1>3. Holders' = Holders
  BY DEF TypeOK, Holders
<1> QED
  BY <1>1, <1>2, <1>3 DEF PermitsBounded, NoIdlePermit

(* A waiting caller leaves the queue without a permit (abort or drain). *)
LEMMA LeaveStep ==
    ASSUME IInv, NEW c \in Callers, pc[c] = "waiting",
           pc' = [pc EXCEPT ![c] = "rejected"],
           waiting' \in Seq(Callers),
           Distinct(waiting'), Entries(waiting') = Entries(waiting) \ {c},
           UNCHANGED <<active, aborted, draining>>,
           waiting' # <<>> => waiting # <<>>
    PROVE  IInv'
<1>1. TypeOK'
  BY DEF IInv, TypeOK, CallerStates
<1>2. {d \in Callers : pc'[d] = "waiting"} = {d \in Callers : pc[d] = "waiting"} \ {c}
  BY DEF IInv, TypeOK
<1>3. QueueIsWaiters'
  <2>1. {d \in Callers : pc[d] = "waiting"} = Entries(waiting)
    BY QueueSplit DEF IInv
  <2>2. {d \in Callers : pc'[d] = "waiting"} = Entries(waiting')
    BY <1>2, <2>1
  <2> QED
    BY <2>2 DEF QueueIsWaiters, Distinct, Entries
<1>4. Holders' = Holders
  BY DEF IInv, TypeOK, Holders
<1> QED
  BY <1>1, <1>3, <1>4 DEF IInv, PermitsBounded, NoIdlePermit

LEMMA StepInv == IInv /\ [Next]_vars => IInv'
<1> SUFFICES ASSUME IInv, [Next]_vars PROVE IInv'
  OBVIOUS
<1>q. /\ Distinct(waiting)
      /\ {d \in Callers : pc[d] = "waiting"} = Entries(waiting)
      /\ waiting \in Seq(Callers)
      /\ TypeOK
  BY QueueSplit DEF IInv, TypeOK
<1>h. /\ IsFiniteSet(Holders)
      /\ \A c \in Callers \ Holders :
           Cardinality(Holders \cup {c}) = Cardinality(Holders) + 1
      /\ \A c \in Holders :
           Cardinality(Holders \ {c}) = Cardinality(Holders) - 1
      /\ active = Cardinality(Holders) /\ active \in Nat /\ active <= Limit
      /\ Limit \in Nat \ {0}
  BY HoldersCount, LimitAssumption DEF IInv, PermitsBounded, TypeOK
<1>1. ASSUME NEW c \in Callers, AcquireAborted(c) PROVE IInv'
  BY <1>1, OutsideStep, <1>q DEF AcquireAborted, TypeOK
<1>2. ASSUME NEW c \in Callers, AcquireFree(c) PROVE IInv'
  <2>1. TypeOK'
    BY <1>2, <1>q DEF AcquireFree, TypeOK, CallerStates
  <2>2. Holders' = Holders \cup {c} /\ c \in Callers \ Holders
    BY <1>2, <1>q DEF AcquireFree, TypeOK, Holders
  <2>3. PermitsBounded'
    BY <1>2, <2>2, <1>h DEF AcquireFree, PermitsBounded
  <2>4. {d \in Callers : pc'[d] = "waiting"} = {d \in Callers : pc[d] = "waiting"}
    BY <1>2, <1>q DEF AcquireFree, TypeOK
  <2>5. QueueIsWaiters'
    BY <1>2, <2>4, <1>q DEF AcquireFree, QueueIsWaiters, Distinct, Entries
  <2>6. NoIdlePermit'
    BY <1>2, <1>h DEF AcquireFree, NoIdlePermit, IInv
  <2> QED
    BY <2>1, <2>3, <2>5, <2>6 DEF IInv
<1>3. ASSUME NEW c \in Callers, AcquireQueued(c) PROVE IInv'
  <2>1. /\ waiting' \in Seq(Callers)
        /\ Distinct(waiting')
        /\ Entries(waiting') = Entries(waiting) \cup {c}
    <3>1. c \notin Entries(waiting)
      BY <1>3, <1>q DEF AcquireQueued
    <3> QED
      BY <1>3, <3>1, <1>q, AppendDistinct DEF AcquireQueued
  <2>2. TypeOK'
    BY <1>3, <2>1, <1>q DEF AcquireQueued, TypeOK, CallerStates
  <2>3. {d \in Callers : pc'[d] = "waiting"}
          = {d \in Callers : pc[d] = "waiting"} \cup {c}
    BY <1>3, <1>q DEF AcquireQueued, TypeOK
  <2>4. QueueIsWaiters'
    <3>1. {d \in Callers : pc'[d] = "waiting"} = Entries(waiting')
      BY <2>1, <2>3, <1>q
    <3> QED
      BY <3>1, <2>1 DEF QueueIsWaiters, Distinct, Entries
  <2>5. Holders' = Holders
    BY <1>3, <1>q DEF AcquireQueued, TypeOK, Holders
  <2>6. PermitsBounded' /\ NoIdlePermit'
    BY <1>3, <2>5, <1>h DEF AcquireQueued, PermitsBounded, NoIdlePermit
  <2> QED
    BY <2>2, <2>4, <2>6 DEF IInv
<1>4. ASSUME NEW c \in Callers, Abort(c) PROVE IInv'
  <2>1. TypeOK'
    BY <1>4, <1>q DEF Abort, TypeOK
  <2>2. QueueIsWaiters' /\ PermitsBounded' /\ NoIdlePermit'
    BY <1>4 DEF Abort, IInv, QueueIsWaiters, PermitsBounded, NoIdlePermit, Holders
  <2> QED
    BY <2>1, <2>2 DEF IInv
<1>5. ASSUME NEW c \in Callers, OnAbort(c) PROVE IInv'
  <2>1. PICK i \in 1..Len(waiting) :
          waiting[i] = c /\ waiting' = RemoveAt(waiting, i)
    BY <1>5 DEF OnAbort
  <2>2. /\ waiting' \in Seq(Callers)
        /\ Distinct(waiting')
        /\ Entries(waiting') = Entries(waiting) \ {c}
    BY <2>1, <1>q, RemoveAtDistinct, RemoveAtProperties
  <2>3. waiting # <<>>
    BY <2>1
  <2> QED
    BY <1>5, <2>2, <2>3, LeaveStep DEF OnAbort
<1>6. ASSUME NEW c \in Callers, Release(c) PROVE IInv'
  <2>1. Holders' = Holders \ {c} /\ c \in Holders
    BY <1>6, <1>q DEF Release, TypeOK, Holders
  <2>2. Cardinality(Holders) - 1 \in Nat
    BY <2>1, <1>h, FS_RemoveElement, FS_CardinalityType, FS_Subset
  <2>3. TypeOK'
    BY <1>6, <1>q, <2>2, <1>h DEF Release, TypeOK, CallerStates
  <2>4. {d \in Callers : pc'[d] = "waiting"} = {d \in Callers : pc[d] = "waiting"}
    BY <1>6, <1>q DEF Release, TypeOK
  <2>5. QueueIsWaiters'
    BY <1>6, <2>4, <1>q DEF Release, QueueIsWaiters, Distinct, Entries
  <2>6. PermitsBounded' /\ NoIdlePermit'
    BY <1>6, <2>1, <1>h DEF Release, PermitsBounded, NoIdlePermit
  <2> QED
    BY <2>3, <2>5, <2>6 DEF IInv
<1>7. ASSUME NEW c \in Callers, NextCall(c) PROVE IInv'
  BY <1>7, OutsideStep, <1>q DEF NextCall, TypeOK
<1>t. ASSUME waiting # <<>>
      PROVE  /\ Tail(waiting) \in Seq(Callers)
             /\ Distinct(Tail(waiting))
             /\ Entries(Tail(waiting)) = Entries(waiting) \ {Head(waiting)}
             /\ Head(waiting) \in Callers
             /\ pc[Head(waiting)] = "waiting"
  BY <1>t, <1>q, TailDistinct
<1>8. ASSUME DrainReject PROVE IInv'
  BY <1>8, <1>t, LeaveStep DEF DrainReject, CanDrain
<1>9. ASSUME DrainGrant PROVE IInv'
  <2> DEFINE c == Head(waiting)
  <2>0. /\ c \in Callers /\ pc[c] = "waiting"
        /\ pc' = [pc EXCEPT ![c] = "holding"]
        /\ waiting' \in Seq(Callers)
        /\ Distinct(waiting')
        /\ Entries(waiting') = Entries(waiting) \ {c}
        /\ active' = active + 1 /\ active < Limit
        /\ UNCHANGED <<aborted, draining>>
        /\ draining
    BY <1>9, <1>t DEF DrainGrant, CanDrain
  <2> HIDE DEF c
  <2>1. TypeOK'
    BY <2>0, <1>q DEF TypeOK, CallerStates
  <2>2. {d \in Callers : pc'[d] = "waiting"}
          = {d \in Callers : pc[d] = "waiting"} \ {c}
    BY <2>0, <1>q DEF TypeOK
  <2>3. QueueIsWaiters'
    <3>1. {d \in Callers : pc'[d] = "waiting"} = Entries(waiting')
      BY <2>0, <2>2, <1>q
    <3> QED
      BY <3>1, <2>0 DEF QueueIsWaiters, Distinct, Entries
  <2>4. Holders' = Holders \cup {c} /\ c \in Callers \ Holders
    BY <2>0, <1>q DEF TypeOK, Holders
  <2>5. PermitsBounded' /\ NoIdlePermit'
    BY <2>0, <2>4, <1>h DEF PermitsBounded, NoIdlePermit
  <2> QED
    BY <2>1, <2>3, <2>5 DEF IInv
<1>10. ASSUME DrainDone PROVE IInv'
  <2>1. TypeOK'
    BY <1>10, <1>q DEF DrainDone, TypeOK
  <2>2. QueueIsWaiters' /\ PermitsBounded'
    BY <1>10 DEF DrainDone, IInv, QueueIsWaiters, PermitsBounded, Holders
  <2>3. NoIdlePermit'
    BY <1>10, <1>h DEF DrainDone, CanDrain, NoIdlePermit
  <2> QED
    BY <2>1, <2>2, <2>3 DEF IInv
<1>11. ASSUME UNCHANGED vars PROVE IInv'
  BY <1>11 DEF vars, IInv, TypeOK, QueueIsWaiters, PermitsBounded, NoIdlePermit,
               Holders
<1> QED
  BY <1>1, <1>2, <1>3, <1>4, <1>5, <1>6, <1>7, <1>8, <1>9, <1>10, <1>11 DEF Next

LEMMA InvAlways == Spec => []IInv
BY InitInv, StepInv, PTL DEF Spec
-----------------------------------------------------------------------------
(* The state of the semaphore keeps its types; in particular active never  *)
(* goes below zero, however releases and drains interleave.                *)
THEOREM TypeCorrect == Spec => []TypeOK
<1>1. IInv => TypeOK
  BY DEF IInv
<1> QED
  BY InvAlways, <1>1, PTL

(* The counter is the number of holders and stays within the limit: no     *)
(* permit is lost or duplicated (acquire, #releaseFactory, #drain).        *)
THEOREM PermitsAreBounded == Spec => []PermitsBounded
<1>1. IInv => PermitsBounded
  BY DEF IInv
<1> QED
  BY InvAlways, <1>1, PTL

(* The queue is the set of waiting callers, each once (onAbort, #drain). *)
THEOREM QueueHoldsTheWaiters == Spec => []QueueIsWaiters
<1>1. IInv => QueueIsWaiters
  BY DEF IInv
<1> QED
  BY InvAlways, <1>1, PTL

(* Outside a drain nobody queues while a permit is free (#drain). *)
THEOREM NoPermitIdles == Spec => []NoIdlePermit
<1>1. IInv => NoIdlePermit
  BY DEF IInv
<1> QED
  BY InvAlways, <1>1, PTL

(* A grant never overtakes a live waiter and never goes to an aborted one: *)
(* only DrainGrant turns a queued caller into a holder, and it takes the   *)
(* head of the queue, which the queue contains once (#drain).              *)
THEOREM GrantsAreInOrder == Spec => GrantsInOrder
<1> DEFINE InOrder ==
      \A i \in 1..Len(waiting) :
         pc'[waiting[i]] = "holding" =>
           /\ waiting[i] \notin aborted
           /\ \A j \in 1..(i - 1) : waiting[j] \in aborted
<1>1. IInv /\ [Next]_vars => [InOrder]_vars
  <2> SUFFICES ASSUME IInv, Next, NEW i \in 1..Len(waiting),
                      pc'[waiting[i]] = "holding"
               PROVE  /\ waiting[i] \notin aborted
                      /\ \A j \in 1..(i - 1) : waiting[j] \in aborted
    OBVIOUS
  <2>q. /\ Distinct(waiting)
        /\ \A k \in 1..Len(waiting) : waiting[k] \in Callers /\ pc[waiting[k]] = "waiting"
        /\ waiting \in Seq(Callers) /\ Len(waiting) \in Nat
        /\ pc \in [Callers -> CallerStates]
    BY QueueSplit, LenProperties DEF IInv, TypeOK, Entries
  <2>1. ASSUME DrainGrant PROVE i = 1 /\ Head(waiting) = waiting[1]
    <3>1. pc' = [pc EXCEPT ![Head(waiting)] = "holding"] /\ Head(waiting) = waiting[1]
      BY <2>1 DEF DrainGrant
    <3>2. waiting[i] = waiting[1]
      BY <3>1, <2>q
    <3> QED
      BY <3>1, <3>2, <2>q DEF Distinct
  <2>2. CASE DrainGrant
    BY <2>1, <2>2 DEF DrainGrant
  <2>3. ASSUME ~DrainGrant PROVE FALSE
    <3>1. pc'[waiting[i]] # "holding"
      BY <2>3, <2>q DEF Next, AcquireAborted, AcquireFree, AcquireQueued, Abort,
         OnAbort, Release, NextCall, DrainReject, DrainDone
    <3> QED
      BY <3>1
  <2> QED
    BY <2>2, <2>3
<1> QED
  BY InvAlways, <1>1, PTL DEF Spec, GrantsInOrder
=============================================================================

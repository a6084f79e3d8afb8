-------------------------- MODULE ManagedLoop_proofs --------------------------
(***************************************************************************)
(* Proofs about ManagedLoop, for any number of requests, ids, replies and  *)
(* rounds: a managed tool runs at most once per tool_use id; a reply that  *)
(* is being probed is not lost; the history a model is asked with answers  *)
(* each call of its last turn once; the client is sent one result block    *)
(* for each use block; and the type invariant.  The first two rest on      *)
(* invariants of few parts (LedgerInv, CandidateInv), which need nothing   *)
(* of the turns.  The others follow the calls of a round from the answer   *)
(* of the model to the message that carries their results (HistoryInv).    *)
(***************************************************************************)
EXTENDS ManagedLoop, Subsequence_proofs, SequenceTheorems, TLAPS

-----------------------------------------------------------------------------
(* The ledger *)

Fields == {"sig", "st", "owner"}

(* The ledger has an entry for an id exactly when the id was executed, and *)
(* entries are never removed: executeToolOnce sets the entry before the    *)
(* execution first awaits.                                                 *)
LedgerInv ==
    /\ DOMAIN ledger = LedgerIds
    /\ execs \in [LedgerIds -> Nat]
    /\ \A id \in LedgerIds :
         /\ DOMAIN ledger[id] = Fields
         /\ execs[id] = IF ledger[id].st = "absent" THEN 0 ELSE 1

LEMMA LedgerStarts == Init => LedgerInv
  BY DEF Init, LedgerInv, Absent, Fields

(* The one step that runs a tool finds its id absent and fills the entry.  *)
LEMMA StartCallKeepsLedger ==
  ASSUME NEW r \in Requests, NEW i \in Nat, LedgerInv, StartCall(r, i)
  PROVE  LedgerInv'
<1> DEFINE c == calls[r][i]
           e == [sig |-> c.sig, st |-> "running", owner |-> r]
<1>1. /\ ledger' = [ledger EXCEPT ![c.id] = e]
      /\ execs' = [execs EXCEPT ![c.id] = @ + 1]
      /\ ledger[c.id].st = "absent"
  BY DEF StartCall
<1>2. DOMAIN e = Fields /\ e.st = "running"
  BY DEF Fields
<1> HIDE DEF c, e
<1>3. DOMAIN ledger' = LedgerIds
  BY <1>1 DEF LedgerInv
<1>5. execs' \in [LedgerIds -> Nat]
  <2>1. \A id \in LedgerIds : execs[id] \in Nat
    BY DEF LedgerInv
  <2>2. \A id \in LedgerIds : execs[id] + 1 \in Nat
    BY <2>1
  <2>3. execs' = [id \in LedgerIds |-> IF id = c.id THEN execs[id] + 1 ELSE execs[id]]
    BY <1>1 DEF LedgerInv
  <2> QED
    BY <2>1, <2>2, <2>3
<1>4. ASSUME NEW id \in LedgerIds
      PROVE  /\ DOMAIN ledger'[id] = Fields
             /\ execs'[id] = IF ledger'[id].st = "absent" THEN 0 ELSE 1
  BY <1>1, <1>2 DEF LedgerInv
<1> QED
  BY <1>3, <1>4, <1>5 DEF LedgerInv

(* The end of an execution leaves the entry, with another state. *)
LEMMA SettleKeepsLedger ==
  ASSUME NEW x \in LedgerIds, LedgerInv, Settle(x)
  PROVE  LedgerInv'
<1>1. PICK st \in {"ok", "error"} \cup Reason(ledger[x].owner) :
        ledger' = [ledger EXCEPT ![x].st = st]
  BY DEF Settle
<1>2. st # "absent"
  BY DEF Reason
<1>3. execs' = execs /\ ledger[x].st = "running"
  BY DEF Settle
<1>4. ASSUME NEW id \in LedgerIds
      PROVE  /\ DOMAIN ledger'[id] = Fields
             /\ execs'[id] = IF ledger'[id].st = "absent" THEN 0 ELSE 1
  <2>1. CASE id = x
    <3>1. ledger'[id] = [ledger[x] EXCEPT !.st = st]
      BY <1>1, <2>1 DEF LedgerInv
    <3>2. ledger'[id].st = st /\ DOMAIN ledger'[id] = Fields
      BY <3>1 DEF LedgerInv, Fields
    <3> QED
      BY <1>2, <1>3, <2>1, <3>2 DEF LedgerInv
  <2>2. CASE id # x
    BY <1>1, <1>3, <2>2 DEF LedgerInv
  <2> QED
    BY <2>1, <2>2
<1> QED
  BY <1>1, <1>3, <1>4 DEF LedgerInv

(* No other step touches the ledger. *)
LEMMA OthersKeepLedger ==
  ASSUME [Next]_vars
  PROVE  \/ UNCHANGED sharedVars
         \/ \E r \in Requests : \E i \in 1..Len(calls[r]) : StartCall(r, i)
         \/ \E id \in LedgerIds : Settle(id)
<1>1. CASE UNCHANGED vars
  BY <1>1 DEF vars, sharedVars
<1>2. ASSUME NEW r \in Requests, ModelStep(r)
      PROVE  UNCHANGED sharedVars
  BY <1>2 DEF ModelStep, ModelFails, AnswerCut, AnswerFinal, AnswerSearch,
       AnswerHandoff, AnswerClientTools, AnswerRefused, AnswerManaged
<1>3. ASSUME NEW r \in Requests, CallStep(r)
      PROVE  \/ UNCHANGED sharedVars
             \/ \E i \in 1..Len(calls[r]) : StartCall(r, i)
  BY <1>3 DEF CallStep, JoinCall, ConflictCall, DeliverCall, RethrowCall,
       AbortCalls, StopWaiting, PushResults, PushContinuation
<1>4. ASSUME NEW r \in Requests, ProbeStep(r)
      PROVE  UNCHANGED sharedVars
  BY <1>4 DEF ProbeStep, ProbeComplete, ProbeContinue, ProbeFails
<1>5. ASSUME NEW r \in Requests,
             \/ Start(r)
             \/ \E q \in Requests : StartContinuation(r, q)
             \/ Disconnect(r)
             \/ TaskTimeout(r)
      PROVE  UNCHANGED sharedVars
  BY <1>5 DEF Start, StartContinuation, Disconnect, TaskTimeout, StopWaiting
<1> QED
  BY <1>1, <1>2, <1>3, <1>4, <1>5 DEF Next

LEMMA LedgerPreserved == LedgerInv /\ [Next]_vars => LedgerInv'
<1> SUFFICES ASSUME LedgerInv, [Next]_vars
             PROVE  LedgerInv'
  OBVIOUS
<1>1. CASE UNCHANGED sharedVars
  BY <1>1 DEF LedgerInv, sharedVars
<1>2. ASSUME NEW r \in Requests, NEW i \in 1..Len(calls[r]), StartCall(r, i)
      PROVE  LedgerInv'
  BY <1>2, StartCallKeepsLedger
<1>3. ASSUME NEW id \in LedgerIds, Settle(id)
      PROVE  LedgerInv'
  BY <1>3, SettleKeepsLedger
<1> QED
  BY <1>1, <1>2, <1>3, OthersKeepLedger

(* A managed tool runs at most once per tool_use id of a session, in every *)
(* interleaving of any number of requests (executeToolOnce).               *)
THEOREM RunsAtMostOnce == Spec => []AtMostOnce
<1>1. LedgerInv => AtMostOnce
  BY DEF LedgerInv, AtMostOnce
<1> QED
  BY <1>1, LedgerStarts, LedgerPreserved, PTL DEF Spec
-----------------------------------------------------------------------------
(* The completion probe *)

States == {"idle", "resume", "model", "probe", "tools", "done"}
Outcomes == Answered \cup Failures \cup {None}

ProbeTypes ==
    /\ pc \in [Requests -> States]
    /\ outcome \in [Requests -> Outcomes]
    /\ candidate \in [Requests -> Finals \cup {None}]
    /\ pending \in [Requests -> BOOLEAN]
    /\ DOMAIN calls = Requests

(* A request holds a candidate while it probes it, and a pending           *)
(* continuation while it asks the model; a failure overtakes them only by  *)
(* the ends CandidateKept names.  A request that has no call to wait for   *)
(* cannot fail by the rejection of one: that is why a shared execution,    *)
(* which may reject at any time, cannot take a candidate down.             *)
ProbeInv(r) ==
    /\ pc[r] # "done" => outcome[r] = None
    /\ candidate[r] # None =>
         pc[r] = "probe" \/ outcome[r] \in {"aborted", "task_timeout"}
    /\ pending[r] =>
         \/ pc[r] = "model"
         \/ outcome[r] \in {"aborted", "task_timeout", "model_error", "final"}
    /\ pc[r] \in {"idle", "model", "probe"} => calls[r] = <<>>

CandidateInv == ProbeTypes /\ \A r \in Requests : ProbeInv(r)

(* What the steps of one request leave of the others. *)
OnlyOf(r) ==
    \A q \in Requests \ {r} :
      /\ pc'[q] = pc[q] /\ outcome'[q] = outcome[q]
      /\ candidate'[q] = candidate[q] /\ pending'[q] = pending[q]
      /\ calls'[q] = calls[q]

LEMMA OneRequest ==
  ASSUME NEW r \in Requests, CandidateInv, OnlyOf(r), ProbeTypes', ProbeInv(r)'
  PROVE  CandidateInv'
<1>1. ASSUME NEW q \in Requests \ {r}
      PROVE  ProbeInv(q)'
  BY <1>1 DEF CandidateInv, ProbeInv, OnlyOf
<1> QED
  BY <1>1 DEF CandidateInv

LEMMA CandidateStarts == Init => CandidateInv
  BY DEF Init, CandidateInv, ProbeTypes, ProbeInv, States, Outcomes

(* A model answer: from "model", where no candidate is held. *)
LEMMA ModelStepKeepsCandidate ==
  ASSUME NEW r \in Requests, CandidateInv, ModelStep(r)
  PROVE  CandidateInv'
<1> USE NoneAssumption
    DEF CandidateInv, ProbeTypes, ProbeInv, OnlyOf, Asking, End, probeVars, NextRound,
        States, Outcomes, Answered, Failures
<1>1. CASE ModelFails(r)
  <2>1. OnlyOf(r) /\ ProbeTypes' /\ ProbeInv(r)'
    BY <1>1 DEF ModelFails
  <2> QED
    BY <2>1, OneRequest
<1>2. CASE AnswerCut(r)
  <2>1. OnlyOf(r) /\ ProbeTypes' /\ ProbeInv(r)'
    BY <1>2 DEF AnswerCut
  <2> QED
    BY <2>1, OneRequest
<1>3. ASSUME NEW f \in Finals, AnswerFinal(r, f)
      PROVE  CandidateInv'
  <2>1. OnlyOf(r) /\ ProbeTypes' /\ ProbeInv(r)'
    BY <1>3 DEF AnswerFinal
  <2> QED
    BY <2>1, OneRequest
<1>4. ASSUME NEW u \in Turns, AnswerSearch(r, u)
      PROVE  CandidateInv'
  <2>1. OnlyOf(r) /\ ProbeTypes' /\ ProbeInv(r)'
    BY <1>4 DEF AnswerSearch
  <2> QED
    BY <2>1, OneRequest
<1>5. ASSUME NEW u \in Turns, AnswerHandoff(r, u)
      PROVE  CandidateInv'
  <2>1. OnlyOf(r) /\ ProbeTypes' /\ ProbeInv(r)'
    BY <1>5 DEF AnswerHandoff
  <2> QED
    BY <2>1, OneRequest
<1>6. ASSUME NEW u \in Turns, AnswerClientTools(r, u)
      PROVE  CandidateInv'
  <2>1. OnlyOf(r) /\ ProbeTypes' /\ ProbeInv(r)'
    BY <1>6 DEF AnswerClientTools
  <2> QED
    BY <2>1, OneRequest
<1>7. ASSUME NEW u \in Turns, AnswerRefused(r, u)
      PROVE  CandidateInv'
  <2>1. OnlyOf(r) /\ ProbeTypes' /\ ProbeInv(r)'
    BY <1>7 DEF AnswerRefused
  <2> QED
    BY <2>1, OneRequest
<1>8. ASSUME NEW u \in Turns, AnswerManaged(r, u)
      PROVE  CandidateInv'
  <2>1. OnlyOf(r) /\ ProbeTypes' /\ ProbeInv(r)'
    BY <1>8 DEF AnswerManaged
  <2> QED
    BY <2>1, OneRequest
<1> QED
  BY <1>1, <1>2, <1>3, <1>4, <1>5, <1>6, <1>7, <1>8 DEF ModelStep

(* A call waits only in "tools" or "resume", or after its request ended.   *)
LEMMA CallStepKeepsCandidate ==
  ASSUME NEW r \in Requests, CandidateInv, CallStep(r)
  PROVE  CandidateInv'
<1> USE NoneAssumption
    DEF CandidateInv, ProbeTypes, ProbeInv, OnlyOf, End, NextRound, probeVars, Live,
        States, Outcomes, Answered, Failures
<1>1. ASSUME NEW i \in 1..Len(calls[r])
      PROVE  pc[r] \notin {"idle", "model", "probe"}
  BY <1>1
<1>2. ASSUME NEW i \in 1..Len(calls[r]),
             StartCall(r, i) \/ JoinCall(r, i) \/ ConflictCall(r, i) \/ DeliverCall(r, i)
      PROVE  CandidateInv'
  <2>1. OnlyOf(r) /\ ProbeTypes' /\ ProbeInv(r)'
    BY <1>1, <1>2 DEF StartCall, JoinCall, ConflictCall, DeliverCall
  <2> QED
    BY <2>1, OneRequest
<1>3. ASSUME NEW i \in 1..Len(calls[r]), RethrowCall(r, i)
      PROVE  CandidateInv'
  <2>1. OnlyOf(r) /\ ProbeTypes' /\ ProbeInv(r)'
    BY <1>1, <1>3 DEF RethrowCall
  <2> QED
    BY <2>1, OneRequest
<1>4. CASE AbortCalls(r)
  <2>1. OnlyOf(r) /\ ProbeTypes' /\ ProbeInv(r)'
    BY <1>4 DEF AbortCalls, StopWaiting
  <2> QED
    BY <2>1, OneRequest
<1>5. CASE PushResults(r)
  <2>1. OnlyOf(r) /\ ProbeTypes' /\ ProbeInv(r)'
    BY <1>5 DEF PushResults
  <2> QED
    BY <2>1, OneRequest
<1>6. CASE PushContinuation(r)
  <2>1. OnlyOf(r) /\ ProbeTypes' /\ ProbeInv(r)'
    BY <1>6 DEF PushContinuation
  <2> QED
    BY <2>1, OneRequest
<1> QED
  BY <1>2, <1>3, <1>4, <1>5, <1>6 DEF CallStep

(* A probe returns its candidate, or drops it for a round that is left.    *)
LEMMA ProbeStepKeepsCandidate ==
  ASSUME NEW r \in Requests, CandidateInv, ProbeStep(r)
  PROVE  CandidateInv'
<1> USE NoneAssumption
    DEF CandidateInv, ProbeTypes, ProbeInv, OnlyOf, End, NextRound, probeVars,
        States, Outcomes, Answered, Failures
<1>1. CASE ProbeComplete(r)
  <2>1. OnlyOf(r) /\ ProbeTypes' /\ ProbeInv(r)'
    BY <1>1 DEF ProbeComplete
  <2> QED
    BY <2>1, OneRequest
<1>2. CASE ProbeContinue(r)
  <2>1. OnlyOf(r) /\ ProbeTypes' /\ ProbeInv(r)'
    BY <1>2 DEF ProbeContinue
  <2> QED
    BY <2>1, OneRequest
<1>3. CASE ProbeFails(r)
  <2>1. OnlyOf(r) /\ ProbeTypes' /\ ProbeInv(r)'
    BY <1>3 DEF ProbeFails
  <2> QED
    BY <2>1, OneRequest
<1> QED
  BY <1>1, <1>2, <1>3 DEF ProbeStep

(* A request starts, is left by its client, or times out. *)
LEMMA EnvironmentKeepsCandidate ==
  ASSUME NEW r \in Requests, CandidateInv,
         \/ Start(r)
         \/ \E q \in Requests : StartContinuation(r, q)
         \/ Disconnect(r)
         \/ TaskTimeout(r)
  PROVE  CandidateInv'
<1> USE NoneAssumption
    DEF CandidateInv, ProbeTypes, ProbeInv, OnlyOf, End, Live, probeVars,
        States, Outcomes, Answered, Failures
<1>1. CASE Start(r)
  <2>1. OnlyOf(r) /\ ProbeTypes' /\ ProbeInv(r)'
    BY <1>1 DEF Start
  <2> QED
    BY <2>1, OneRequest
<1>2. ASSUME NEW q \in Requests, StartContinuation(r, q)
      PROVE  CandidateInv'
  <2>1. OnlyOf(r) /\ ProbeTypes' /\ ProbeInv(r)'
    BY <1>2 DEF StartContinuation
  <2> QED
    BY <2>1, OneRequest
<1>3. CASE Disconnect(r)
  BY <1>3 DEF Disconnect
<1>4. CASE TaskTimeout(r)
  <2>1. OnlyOf(r) /\ ProbeTypes' /\ ProbeInv(r)'
    BY <1>4 DEF TaskTimeout, StopWaiting
  <2> QED
    BY <2>1, OneRequest
<1> QED
  BY <1>1, <1>2, <1>3, <1>4

LEMMA CandidatePreserved == CandidateInv /\ [Next]_vars => CandidateInv'
<1> SUFFICES ASSUME CandidateInv, [Next]_vars
             PROVE  CandidateInv'
  OBVIOUS
<1>1. CASE UNCHANGED vars
  BY <1>1 DEF vars, CandidateInv, ProbeTypes, ProbeInv
<1>2. ASSUME NEW id \in LedgerIds, Settle(id)
      PROVE  CandidateInv'
  BY <1>2 DEF Settle, probeVars, CandidateInv, ProbeTypes, ProbeInv
<1> QED
  BY <1>1, <1>2, ModelStepKeepsCandidate, CallStepKeepsCandidate,
     ProbeStepKeepsCandidate, EnvironmentKeepsCandidate DEF Next

(* A valid reply under probe reaches the client unless the client leaves   *)
(* or the task times out, and a continuation the probe asked for is lost   *)
(* to those and to a failing model only (the completion probe of the loop).*)
THEOREM CandidateIsKept == Spec => []CandidateKept
<1>1. CandidateInv => CandidateKept
  BY NoneAssumption DEF CandidateInv, ProbeTypes, ProbeInv, CandidateKept, Failures
<1> QED
  BY <1>1, CandidateStarts, CandidatePreserved, PTL DEF Spec
-----------------------------------------------------------------------------
(* The history and the client's blocks *)

(* What stands in a turn, and in a mixed turn that was returned. *)
AnyUse == [kind : {"web", "client", "search"}, id : LedgerIds \cup {NoId}, sig : Sigs]
Mixed == {d \in Seq(AnyUse) :
            /\ Len(d) <= 3
            /\ \A i \in 1..Len(d) :
                 /\ d[i].kind \in {"web", "client"}
                 /\ d[i].kind = "web" => d[i].id \in LedgerIds}

ClientPart(d) == Select(d, LAMBDA x : x.kind = "client")

LoopTypes ==
    /\ ledger \in [LedgerIds -> EntryType \cup {Absent}]
    /\ calls \in [Requests -> Seq(CallType)]
    /\ turn \in [Requests -> [uses : Seq(AnyUse), results : Seq(AnyUse)]]
    /\ open \in [Requests -> Nat]
    /\ deferred \in [Requests -> Mixed]

(* A call that waits does so for an execution of its own name and input,   *)
(* and that is what a call that ended was given.                           *)
OwnExecution(r) ==
    \A i \in 1..Len(calls[r]) :
      LET c == calls[r][i] IN
      /\ c.st = "waiting" => ledger[c.id].st # "absent" /\ ledger[c.id].sig = c.sig
      /\ c.st \in {"ok", "error"} => c.got = c.sig

(* The calls c are those of the uses u, in their order. *)
CallsOf(c, u) ==
    /\ Len(c) = Len(u)
    /\ \A i \in 1..Len(c) : u[i] = [kind |-> "web", id |-> c[i].id, sig |-> c[i].sig]

Paired(t) == \A x : Count(t.uses, x) = Count(t.results, x)

(* What the last pushed turn lacks: nothing when the model is asked, and   *)
(* the results of the calls in progress else.                              *)
TurnKnown(r) ==
    /\ pc[r] \in {"idle", "model", "probe"} => Paired(turn[r])
    /\ pc[r] = "tools" => CallsOf(calls[r], turn[r].uses) /\ turn[r].results = <<>>
    /\ pc[r] = "resume" =>
         /\ turn[r].uses \in Mixed
         /\ turn[r].results = ClientPart(turn[r].uses)
         /\ CallsOf(calls[r], Web(turn[r].uses))

Pending(r) == {i \in 1..Len(calls[r]) : calls[r][i].st \in {"todo", "waiting"}}

(* Every published block that is not answered is a call in progress, or    *)
(* one that the returned response hands over.                              *)
BlocksKnown(r) ==
    /\ pc[r] \in {"idle", "model", "probe"} => open[r] = 0
    /\ pc[r] \in {"tools", "resume"} => open[r] = Cardinality(Pending(r))
    /\ open[r] >= Cardinality(Pending(r))
    /\ outcome[r] \in Answered => open[r] = Len(Web(deferred[r])) /\ calls[r] = <<>>
    /\ deferred[r] # <<>> => outcome[r] = "deferred"
    /\ Len(calls[r]) <= 3

HistoryInv(r) == OwnExecution(r) /\ TurnKnown(r) /\ BlocksKnown(r)

LoopInv ==
    /\ CandidateInv
    /\ LoopTypes
    /\ \A r \in Requests : HistoryInv(r)
-----------------------------------------------------------------------------
(* Counting the elements of a sequence *)

LEMMA CountConcat ==
  ASSUME NEW T, NEW s \in Seq(T), NEW t \in Seq(T), NEW x
  PROVE  Count(s \o t, x) = Count(s, x) + Count(t, x)
<1> DEFINE A == {i \in 1..Len(s) : s[i] = x}
           B == {i \in 1..Len(t) : t[i] = x}
           C == {i \in 1..Len(s \o t) : (s \o t)[i] = x}
           D == C \ A
           g == [i \in B |-> i + Len(s)]
<1>1. /\ Len(s) \in Nat /\ Len(t) \in Nat
      /\ Len(s \o t) = Len(s) + Len(t)
      /\ \A i \in 1..(Len(s) + Len(t)) :
           (s \o t)[i] = IF i <= Len(s) THEN s[i] ELSE t[i - Len(s)]
  BY LenProperties, ConcatProperties
<1>2. A \subseteq C
  BY <1>1
<1>3. g \in [B -> D]
  BY <1>1
<1>4. \A i, j \in B : g[i] = g[j] => i = j
  BY <1>1
<1>5. ASSUME NEW k \in D
      PROVE  \E i \in B : g[i] = k
  <2>1. k > Len(s) /\ k \in 1..(Len(s) + Len(t))
    BY <1>1
  <2>2. k - Len(s) \in B /\ g[k - Len(s)] = k
    BY <1>1, <2>1
  <2> QED
    BY <2>2
<1>6. IsFiniteSet(A) /\ IsFiniteSet(B) /\ IsFiniteSet(C)
  <2>1. /\ A \in SUBSET (1..Len(s)) /\ B \in SUBSET (1..Len(t))
        /\ C \in SUBSET (1..Len(s \o t)) /\ Len(s \o t) \in Nat
    BY <1>1
  <2> HIDE DEF A, B, C
  <2> QED
    BY <1>1, <2>1, IndicesFinite
<1>7. g \in Bijection(B, D)
  <2> HIDE DEF g, B, D
  <2> QED
    BY <1>3, <1>4, <1>5 DEF Bijection, Injection, Surjection, IsInjective
<1>8. IsFiniteSet(D) /\ Cardinality(D) = Cardinality(B)
  <2>1. ExistsBijection(B, D)
    BY <1>7 DEF ExistsBijection
  <2> HIDE DEF B, D
  <2> QED
    BY <1>6, <2>1, FS_Bijection
<1>9. Cardinality(C) = Cardinality(A) + Cardinality(D)
  <2>1. C = A \cup D /\ A \cap D = {}
    BY <1>2
  <2> HIDE DEF A, C, D
  <2>2. Cardinality(C) = Cardinality(A) + Cardinality(D) - Cardinality(A \cap D)
    BY <1>6, <1>8, <2>1, FS_Union
  <2>3. Cardinality(A \cap D) = 0
    BY <2>1, FS_EmptySet
  <2>4. Cardinality(A) \in Nat /\ Cardinality(D) \in Nat
    BY <1>6, <1>8, FS_CardinalityType
  <2> QED
    BY <2>2, <2>3, <2>4
<1> QED
  BY <1>8, <1>9 DEF Count

(* A mixed turn is its client tools and its managed calls. *)
LEMMA MixedSplits ==
  ASSUME NEW d \in Mixed, NEW x
  PROVE  Count(d, x) = Count(ClientPart(d) \o Web(d), x)
<1> DEFINE I == {i \in DOMAIN d : d[i].kind = "client"}
           J == {i \in DOMAIN d : d[i].kind = "web"}
           A == {i \in I : d[i] = x}
           B == {i \in J : d[i] = x}
           C == {i \in 1..Len(d) : d[i] = x}
<1>1. d \in Seq(AnyUse) /\ DOMAIN d = 1..Len(d) /\ Len(d) \in Nat
  BY DEF Mixed
<1>2. ClientPart(d) = Subsequence(d, I) /\ Web(d) = Subsequence(d, J)
  BY DEF ClientPart, Web, Select
<1>3. /\ ClientPart(d) \in Seq(AnyUse) /\ Web(d) \in Seq(AnyUse)
  BY <1>1, <1>2, SubsequenceType
<1>4. Count(ClientPart(d) \o Web(d), x) = Count(ClientPart(d), x) + Count(Web(d), x)
  BY <1>3, CountConcat
<1>5. Count(ClientPart(d), x) = Cardinality(A) /\ Count(Web(d), x) = Cardinality(B)
  <2>1. /\ DOMAIN ClientPart(d) = 1..Len(ClientPart(d))
        /\ DOMAIN Web(d) = 1..Len(Web(d))
    BY <1>3
  <2>2. I \in SUBSET DOMAIN d /\ J \in SUBSET DOMAIN d
    OBVIOUS
  <2> HIDE DEF I, J
  <2>3. /\ Cardinality(Places(ClientPart(d), DOMAIN ClientPart(d), x))
             = Cardinality(Places(d, I, x))
        /\ Cardinality(Places(Web(d), DOMAIN Web(d), x)) = Cardinality(Places(d, J, x))
    BY <1>1, <1>2, <2>2, SubsequenceCounts
  <2> QED
    BY <2>1, <2>3 DEF Count, Places
<1>6. A \cup B = C /\ A \cap B = {}
  BY <1>1 DEF Mixed
<1>7. IsFiniteSet(A) /\ IsFiniteSet(B)
  <2>1. A \in SUBSET (1..Len(d)) /\ B \in SUBSET (1..Len(d))
    BY <1>1
  <2> QED
    BY <1>1, <2>1, IndicesFinite
<1>8. Cardinality(C) = Cardinality(A) + Cardinality(B)
  <2> HIDE DEF A, B, C
  <2>2. Cardinality(C) = Cardinality(A) + Cardinality(B) - Cardinality(A \cap B)
    BY <1>6, <1>7, FS_Union
  <2>3. Cardinality(A \cap B) = 0
    BY <1>6, FS_EmptySet
  <2>4. Cardinality(A) \in Nat /\ Cardinality(B) \in Nat
    BY <1>7, FS_CardinalityType
  <2> QED
    BY <2>2, <2>3, <2>4
<1> QED
  BY <1>4, <1>5, <1>8 DEF Count
-----------------------------------------------------------------------------
(* What one step changes *)

LedgerGrows ==
    \A id \in LedgerIds : ledger[id].st # "absent" =>
      ledger'[id].st # "absent" /\ ledger'[id].sig = ledger[id].sig

(* A step of request r. *)
StepOf(r) ==
    /\ LedgerGrows
    /\ \A q \in Requests \ {r} :
         /\ pc'[q] = pc[q] /\ outcome'[q] = outcome[q] /\ calls'[q] = calls[q]
         /\ turn'[q] = turn[q] /\ open'[q] = open[q] /\ deferred'[q] = deferred[q]

LEMMA OthersKeepHistory ==
  ASSUME LoopInv, NEW r \in Requests, StepOf(r), NEW q \in Requests \ {r}
  PROVE  HistoryInv(q)'
<1>1. /\ HistoryInv(q)
      /\ calls[q] \in Seq(CallType)
      /\ LedgerGrows
      /\ pc'[q] = pc[q] /\ outcome'[q] = outcome[q] /\ calls'[q] = calls[q]
      /\ turn'[q] = turn[q] /\ open'[q] = open[q] /\ deferred'[q] = deferred[q]
  BY DEF LoopInv, LoopTypes, StepOf
<1>2. \A i \in 1..Len(calls[q]) : calls[q][i].id \in LedgerIds
  <2>1. \A i \in 1..Len(calls[q]) : calls[q][i] \in CallType
    BY <1>1, ElementOfSeq
  <2> QED
    BY <2>1 DEF CallType
<1>3. OwnExecution(q)'
  BY <1>1, <1>2 DEF HistoryInv, OwnExecution, LedgerGrows
<1>4. TurnKnown(q)'
  BY <1>1 DEF HistoryInv, TurnKnown, CallsOf
<1>5. Pending(q)' = Pending(q)
  BY <1>1 DEF Pending
<1>6. BlocksKnown(q)'
  BY <1>1, <1>5 DEF HistoryInv, BlocksKnown
<1> QED
  BY <1>3, <1>4, <1>6 DEF HistoryInv

LEMMA StepKeepsLoop ==
  ASSUME LoopInv, CandidateInv', NEW r \in Requests, StepOf(r), LoopTypes', HistoryInv(r)'
  PROVE  LoopInv'
  BY OthersKeepHistory DEF LoopInv

(* The calls in progress are a finite set. *)
LEMMA PendingFinite ==
  ASSUME NEW r \in Requests, calls[r] \in Seq(CallType)
  PROVE  /\ IsFiniteSet(Pending(r)) /\ Cardinality(Pending(r)) \in Nat
         /\ calls[r] = <<>> => Cardinality(Pending(r)) = 0
<1>1. Len(calls[r]) \in Nat
  BY LenProperties
<1>2. Pending(r) \in SUBSET (1..Len(calls[r]))
  BY DEF Pending
<1>3. calls[r] = <<>> => Pending(r) = {}
  BY DEF Pending
<1> QED
  BY <1>1, <1>2, <1>3, IndicesFinite, FS_EmptySet

(* One call changes. *)
CallBecomes(r, i, c) ==
    calls' = [calls EXCEPT ![r] = [calls[r] EXCEPT ![i] = c]]

LEMMA CallUpdate ==
  ASSUME LoopTypes, NEW r \in Requests, NEW i \in 1..Len(calls[r]), NEW c \in CallType,
         CallBecomes(r, i, c)
  PROVE  /\ calls' \in [Requests -> Seq(CallType)]
         /\ Len(calls'[r]) = Len(calls[r])
         /\ \A j \in 1..Len(calls[r]) : calls'[r][j] = IF j = i THEN c ELSE calls[r][j]
         /\ \A q \in Requests \ {r} : calls'[q] = calls[q]
<1>1. calls[r] \in Seq(CallType)
  BY DEF LoopTypes
<1> DEFINE s == [calls[r] EXCEPT ![i] = c]
<1>2. /\ s \in Seq(CallType) /\ Len(s) = Len(calls[r])
      /\ \A j \in 1..Len(calls[r]) : s[j] = IF j = i THEN c ELSE calls[r][j]
  BY <1>1, ExceptSeq
<1>3. calls' = [calls EXCEPT ![r] = s]
  BY DEF CallBecomes
<1> HIDE DEF s
<1> QED
  BY <1>2, <1>3 DEF LoopTypes

(* A call of a round or continuation that is answered. *)
LEMMA PendingAnswered ==
  ASSUME LoopTypes, NEW r \in Requests, NEW i \in Pending(r), NEW c \in CallType,
         CallBecomes(r, i, c), c.st \notin {"todo", "waiting"}
  PROVE  Cardinality(Pending(r)') = Cardinality(Pending(r)) - 1
<1>1. i \in 1..Len(calls[r])
  BY DEF Pending
<1>2. /\ Len(calls'[r]) = Len(calls[r])
      /\ \A j \in 1..Len(calls[r]) : calls'[r][j] = IF j = i THEN c ELSE calls[r][j]
  BY <1>1, CallUpdate
<1>3. Pending(r)' = Pending(r) \ {i}
  BY <1>1, <1>2 DEF Pending
<1>4. IsFiniteSet(Pending(r))
  BY PendingFinite DEF LoopTypes
<1> QED
  BY <1>3, <1>4, FS_RemoveElement

LEMMA PendingKept ==
  ASSUME LoopTypes, NEW r \in Requests, NEW i \in Pending(r), NEW c \in CallType,
         CallBecomes(r, i, c), c.st \in {"todo", "waiting"}
  PROVE  Pending(r)' = Pending(r)
<1>1. i \in 1..Len(calls[r])
  BY DEF Pending
<1>2. /\ Len(calls'[r]) = Len(calls[r])
      /\ \A j \in 1..Len(calls[r]) : calls'[r][j] = IF j = i THEN c ELSE calls[r][j]
  BY <1>1, CallUpdate
<1> QED
  BY <1>1, <1>2 DEF Pending
-----------------------------------------------------------------------------
(* The steps of a call *)

(* A call that changes its state, or gets its own execution's result, is   *)
(* still the call of its use.                                              *)
LEMMA CallKeepsTurn ==
  ASSUME LoopInv, NEW r \in Requests, NEW i \in 1..Len(calls[r]), NEW c \in CallType,
         CallBecomes(r, i, c), c.id = calls[r][i].id, c.sig = calls[r][i].sig,
         UNCHANGED <<pc, turn>>
  PROVE  TurnKnown(r)'
<1>1. /\ Len(calls'[r]) = Len(calls[r])
      /\ \A j \in 1..Len(calls[r]) : calls'[r][j] = IF j = i THEN c ELSE calls[r][j]
  BY CallUpdate DEF LoopInv
<1>2. TurnKnown(r) /\ calls[r] # <<>>
  BY DEF LoopInv, HistoryInv
<1>3. ASSUME NEW u, CallsOf(calls[r], u)
      PROVE  CallsOf(calls'[r], u)
  BY <1>1, <1>3 DEF CallsOf
<1>4. pc[r] \notin {"idle", "model", "probe"}
  BY <1>2 DEF LoopInv, CandidateInv, ProbeInv
<1> QED
  BY <1>2, <1>3, <1>4 DEF TurnKnown

LEMMA CallKnown ==
  ASSUME LoopInv, NEW r \in Requests, NEW i \in 1..Len(calls[r])
  PROVE  /\ calls[r][i] \in CallType /\ calls[r] # <<>>
         /\ calls[r][i].id \in LedgerIds /\ calls[r][i].sig \in Sigs
         /\ ledger[calls[r][i].id] \in EntryType \cup {Absent}
         /\ outcome[r] \notin Answered
<1>1. calls[r] \in Seq(CallType)
  BY DEF LoopInv, LoopTypes
<1>2. calls[r][i] \in CallType
  BY <1>1, ElementOfSeq
<1>3. calls[r] # <<>>
  OBVIOUS
<1> QED
  BY <1>2, <1>3 DEF LoopInv, LoopTypes, CallType, HistoryInv, BlocksKnown

LEMMA StartCallKeepsLoop ==
  ASSUME LoopInv, CandidateInv', NEW r \in Requests, NEW i \in 1..Len(calls[r]),
         StartCall(r, i)
  PROVE  LoopInv'
<1> DEFINE c == calls[r][i]
           d == [c EXCEPT !.st = "waiting"]
           e == [sig |-> c.sig, st |-> "running", owner |-> r]
<1>1. /\ c \in CallType /\ c.id \in LedgerIds /\ c.sig \in Sigs
      /\ outcome[r] \notin Answered
  BY CallKnown
<1>2. /\ d \in CallType /\ d.st = "waiting" /\ d.id = c.id /\ d.sig = c.sig
      /\ c.st = "todo"
      /\ e \in EntryType
  BY <1>1 DEF CallType, EntryType, StartCall, MayRun
<1>3. /\ CallBecomes(r, i, d)
      /\ ledger' = [ledger EXCEPT ![c.id] = e]
      /\ ledger[c.id].st = "absent"
      /\ UNCHANGED <<pc, turn, outcome, open, deferred>>
  BY <1>1 DEF StartCall, CallBecomes, probeVars
<1> HIDE DEF c, d
<1>4. ledger' \in [LedgerIds -> EntryType \cup {Absent}]
  BY <1>1, <1>2, <1>3 DEF LoopInv, LoopTypes
<1>5. /\ ledger'[c.id].sig = c.sig /\ ledger'[c.id].st = "running"
      /\ LedgerGrows
  BY <1>1, <1>3 DEF LoopInv, LoopTypes, LedgerGrows
<1>6. /\ calls' \in [Requests -> Seq(CallType)] /\ Len(calls'[r]) = Len(calls[r])
      /\ \A j \in 1..Len(calls[r]) : calls'[r][j] = IF j = i THEN d ELSE calls[r][j]
      /\ \A q \in Requests \ {r} : calls'[q] = calls[q]
  BY <1>2, <1>3, CallUpdate DEF LoopInv
<1>7. LoopTypes' /\ StepOf(r)
  BY <1>3, <1>4, <1>5, <1>6 DEF LoopInv, LoopTypes, StepOf
<1>8. OwnExecution(r)'
  <2> SUFFICES ASSUME NEW j \in 1..Len(calls[r])
               PROVE  LET k == calls'[r][j] IN
                      /\ k.st = "waiting" => ledger'[k.id].st # "absent" /\ ledger'[k.id].sig = k.sig
                      /\ k.st \in {"ok", "error"} => k.got = k.sig
    BY <1>6 DEF OwnExecution
  <2>1. CASE j = i
    BY <1>2, <1>5, <1>6, <2>1
  <2>2. CASE j # i
    <3>1. calls'[r][j] = calls[r][j] /\ calls[r][j].id \in LedgerIds
      BY <1>6, <2>2, CallKnown
    <3> QED
      BY <1>5, <3>1 DEF LedgerGrows, LoopInv, HistoryInv, OwnExecution
  <2> QED
    BY <2>1, <2>2
<1>9. TurnKnown(r)'
  BY <1>2, <1>3, CallKeepsTurn DEF c
<1>10. Pending(r)' = Pending(r)
  <2>1. i \in Pending(r)
    BY <1>2 DEF Pending, c
  <2> QED
    BY <1>2, <1>3, <2>1, PendingKept DEF LoopInv
<1>11. BlocksKnown(r)'
  BY <1>1, <1>3, <1>6, <1>10 DEF LoopInv, HistoryInv, BlocksKnown
<1> QED
  BY <1>7, <1>8, <1>9, <1>11, StepKeepsLoop DEF HistoryInv

LEMMA JoinCallKeepsLoop ==
  ASSUME LoopInv, CandidateInv', NEW r \in Requests, NEW i \in 1..Len(calls[r]),
         JoinCall(r, i)
  PROVE  LoopInv'
<1> DEFINE c == calls[r][i]
           d == [c EXCEPT !.st = "waiting"]
<1>1. /\ c \in CallType /\ c.id \in LedgerIds /\ c.sig \in Sigs
      /\ outcome[r] \notin Answered
  BY CallKnown
<1>2. /\ d \in CallType /\ d.st = "waiting" /\ d.id = c.id /\ d.sig = c.sig
      /\ c.st = "todo"
  BY <1>1 DEF CallType, JoinCall, MayRun
<1>3. /\ CallBecomes(r, i, d)
      /\ ledger[c.id].st # "absent" /\ ledger[c.id].sig = c.sig
      /\ UNCHANGED <<ledger, pc, turn, outcome, open, deferred>>
  BY <1>1 DEF JoinCall, CallBecomes, probeVars, sharedVars
<1> HIDE DEF c, d
<1>6. /\ calls' \in [Requests -> Seq(CallType)] /\ Len(calls'[r]) = Len(calls[r])
      /\ \A j \in 1..Len(calls[r]) : calls'[r][j] = IF j = i THEN d ELSE calls[r][j]
      /\ \A q \in Requests \ {r} : calls'[q] = calls[q]
  BY <1>2, <1>3, CallUpdate DEF LoopInv
<1>7. LoopTypes' /\ StepOf(r)
  BY <1>3, <1>6 DEF LoopInv, LoopTypes, StepOf, LedgerGrows
<1>8. OwnExecution(r)'
  BY <1>2, <1>3, <1>6 DEF LoopInv, HistoryInv, OwnExecution
<1>9. TurnKnown(r)'
  BY <1>2, <1>3, CallKeepsTurn DEF c
<1>10. Pending(r)' = Pending(r)
  <2>1. i \in Pending(r)
    BY <1>2 DEF Pending, c
  <2> QED
    BY <1>2, <1>3, <2>1, PendingKept DEF LoopInv
<1>11. BlocksKnown(r)'
  BY <1>1, <1>3, <1>6, <1>10 DEF LoopInv, HistoryInv, BlocksKnown
<1> QED
  BY <1>7, <1>8, <1>9, <1>11, StepKeepsLoop DEF HistoryInv

(* A call that gets a result publishes it: one block less is open. *)
LEMMA AnsweredCallKeepsLoop ==
  ASSUME LoopInv, CandidateInv', NEW r \in Requests, NEW i \in Pending(r),
         NEW d \in CallType, CallBecomes(r, i, d),
         d.id = calls[r][i].id, d.sig = calls[r][i].sig,
         d.st \in {"ok", "error"}, d.got = d.sig,
         open' = [open EXCEPT ![r] = @ - 1],
         UNCHANGED <<ledger, pc, turn, outcome, deferred>>
  PROVE  LoopInv'
<1>1. i \in 1..Len(calls[r])
  BY DEF Pending
<1>2. outcome[r] \notin Answered
  BY <1>1, CallKnown
<1>3. /\ calls' \in [Requests -> Seq(CallType)] /\ Len(calls'[r]) = Len(calls[r])
      /\ \A j \in 1..Len(calls[r]) : calls'[r][j] = IF j = i THEN d ELSE calls[r][j]
      /\ \A q \in Requests \ {r} : calls'[q] = calls[q]
  BY <1>1, CallUpdate DEF LoopInv
<1>4. /\ Cardinality(Pending(r)') = Cardinality(Pending(r)) - 1
      /\ Cardinality(Pending(r)) \in Nat
      /\ Cardinality(Pending(r)') \in Nat
  <2>1. Cardinality(Pending(r)') = Cardinality(Pending(r)) - 1
    BY PendingAnswered DEF LoopInv
  <2>2. IsFiniteSet(Pending(r)) /\ Cardinality(Pending(r)) \in Nat
    BY PendingFinite DEF LoopInv, LoopTypes
  <2>3. Cardinality(Pending(r)) # 0
    BY <2>2, FS_EmptySet
  <2> QED
    BY <2>1, <2>2, <2>3
<1>5. open[r] \in Nat /\ open[r] >= Cardinality(Pending(r))
  BY DEF LoopInv, LoopTypes, HistoryInv, BlocksKnown
<1>6. open' \in [Requests -> Nat] /\ open'[r] = open[r] - 1
  BY <1>4, <1>5 DEF LoopInv, LoopTypes
<1>7. LoopTypes' /\ StepOf(r)
  BY <1>3, <1>6 DEF LoopInv, LoopTypes, StepOf, LedgerGrows
<1>8. OwnExecution(r)'
  BY <1>3 DEF LoopInv, HistoryInv, OwnExecution
<1>9. TurnKnown(r)'
  BY <1>1, CallKeepsTurn
<1>10. pc[r] \notin {"idle", "model", "probe"}
  BY <1>1, CallKnown DEF LoopInv, CandidateInv, ProbeInv
<1>11. BlocksKnown(r)'
  BY <1>2, <1>3, <1>4, <1>5, <1>6, <1>10 DEF LoopInv, HistoryInv, BlocksKnown
<1> QED
  BY <1>7, <1>8, <1>9, <1>11, StepKeepsLoop DEF HistoryInv

LEMMA ConflictCallKeepsLoop ==
  ASSUME LoopInv, CandidateInv', NEW r \in Requests, NEW i \in 1..Len(calls[r]),
         ConflictCall(r, i)
  PROVE  LoopInv'
<1> DEFINE c == calls[r][i]
           d == [c EXCEPT !.st = "error", !.got = c.sig]
<1>1. c \in CallType
  BY CallKnown
<1>2. /\ d \in CallType /\ d.st = "error" /\ d.got = d.sig
      /\ d.id = c.id /\ d.sig = c.sig
  BY <1>1 DEF CallType
<1>3. CallBecomes(r, i, d)
  BY DEF ConflictCall, CallBecomes
<1>4. i \in Pending(r)
  BY DEF ConflictCall, MayRun, Pending
<1>5. /\ open' = [open EXCEPT ![r] = @ - 1]
      /\ UNCHANGED <<ledger, pc, turn, outcome, deferred>>
  BY DEF ConflictCall, probeVars, sharedVars
<1> HIDE DEF d
<1> QED
  BY <1>2, <1>3, <1>4, <1>5, AnsweredCallKeepsLoop

LEMMA DeliverCallKeepsLoop ==
  ASSUME LoopInv, CandidateInv', NEW r \in Requests, NEW i \in 1..Len(calls[r]),
         DeliverCall(r, i)
  PROVE  LoopInv'
<1> DEFINE c == calls[r][i]
           e == ledger[c.id]
           d == [c EXCEPT !.st = e.st, !.got = e.sig]
<1>1. c \in CallType
  BY CallKnown
<1>2. c.st = "waiting" /\ e.st \in {"ok", "error"} /\ e.sig = c.sig
  BY DEF DeliverCall, LoopInv, HistoryInv, OwnExecution
<1>3. /\ d \in CallType /\ d.st \in {"ok", "error"} /\ d.got = d.sig
      /\ d.id = c.id /\ d.sig = c.sig
  BY <1>1, <1>2 DEF CallType
<1>4. CallBecomes(r, i, d)
  BY DEF DeliverCall, CallBecomes
<1>5. i \in Pending(r)
  BY <1>2 DEF Pending
<1>6. /\ open' = [open EXCEPT ![r] = @ - 1]
      /\ UNCHANGED <<ledger, pc, turn, outcome, deferred>>
  BY DEF DeliverCall, probeVars, sharedVars
<1> HIDE DEF d, e
<1> QED
  BY <1>3, <1>4, <1>5, <1>6, AnsweredCallKeepsLoop

(* The calls of a request that fails, or failed, are dropped or thrown. *)
Dropped(r, s) ==
    \/ s = <<>>
    \/ /\ s \in Seq(CallType) /\ Len(s) = Len(calls[r])
       /\ \A j \in 1..Len(s) : s[j] = calls[r][j] \/ s[j].st = "thrown"

LEMMA DropKeepsLoop ==
  ASSUME LoopInv, CandidateInv', NEW r \in Requests, NEW s, Dropped(r, s),
         calls' = [calls EXCEPT ![r] = s],
         UNCHANGED <<ledger, turn, open, deferred>>,
         \/ pc[r] # "done" /\ \E o \in Failures : End(r, o)
         \/ pc[r] = "done" /\ outcome[r] \notin Answered /\ UNCHANGED <<pc, outcome>>
  PROVE  LoopInv'
<1>1. /\ LoopTypes /\ CandidateInv /\ HistoryInv(r)
      /\ calls[r] \in Seq(CallType) /\ Len(calls[r]) \in Nat /\ Len(calls[r]) <= 3
  BY LenProperties DEF LoopInv, LoopTypes, HistoryInv, BlocksKnown
<1>2. s \in Seq(CallType) /\ Len(s) <= 3
  <2>1. CASE s = <<>>
    <3>1. s \in Seq(CallType) /\ Len(s) = 0
      BY <2>1, EmptySeq
    <3> QED
      BY <3>1
  <2>2. CASE s # <<>>
    BY <1>1, <2>2 DEF Dropped
  <2> QED
    BY <2>1, <2>2
<1>3. /\ pc' \in [Requests -> States] /\ pc'[r] = "done"
      /\ \A q \in Requests \ {r} : pc'[q] = pc[q] /\ outcome'[q] = outcome[q]
  BY <1>1 DEF End, CandidateInv, ProbeTypes, States
<1>4. outcome'[r] \notin Answered /\ (deferred[r] # <<>> => outcome'[r] = "deferred")
  <2>1. CASE pc[r] # "done"
    <3>1. outcome'[r] \in Failures /\ outcome[r] = None
      BY <1>1, <2>1 DEF End, CandidateInv, ProbeTypes, ProbeInv
    <3> QED
      BY <1>1, <3>1, NoneAssumption DEF HistoryInv, BlocksKnown, Failures, Answered
  <2>2. CASE pc[r] = "done"
    BY <1>1, <2>2 DEF HistoryInv, BlocksKnown
  <2> QED
    BY <2>1, <2>2
<1>5. /\ calls'[r] = s
      /\ calls' \in [Requests -> Seq(CallType)]
      /\ \A q \in Requests \ {r} : calls'[q] = calls[q]
  BY <1>1, <1>2 DEF LoopTypes
<1>6. LoopTypes' /\ StepOf(r)
  BY <1>1, <1>3, <1>5 DEF LoopTypes, StepOf, LedgerGrows
<1>7. OwnExecution(r)'
  BY <1>1, <1>5 DEF Dropped, HistoryInv, OwnExecution
<1>8. TurnKnown(r)'
  BY <1>3 DEF TurnKnown
<1>9. Cardinality(Pending(r)') <= Cardinality(Pending(r))
  <2>1. Pending(r)' \in SUBSET Pending(r)
    BY <1>5 DEF Dropped, Pending
  <2>2. IsFiniteSet(Pending(r))
    BY <1>1, PendingFinite
  <2> QED
    BY <2>1, <2>2, FS_Subset
<1>10. /\ Cardinality(Pending(r)) \in Nat /\ Cardinality(Pending(r)') \in Nat
       /\ open[r] \in Nat
  <2>1. Cardinality(Pending(r)) \in Nat /\ IsFiniteSet(Pending(r))
    BY <1>1, PendingFinite
  <2>2. Pending(r)' \in SUBSET Pending(r)
    BY <1>5 DEF Dropped, Pending
  <2>3. IsFiniteSet(Pending(r)')
    BY <2>1, <2>2, FS_Subset
  <2> QED
    BY <1>1, <2>1, <2>3, FS_CardinalityType DEF LoopTypes
<1>11. BlocksKnown(r)'
  BY <1>1, <1>2, <1>3, <1>4, <1>5, <1>9, <1>10 DEF HistoryInv, BlocksKnown
<1> QED
  BY <1>6, <1>7, <1>8, <1>11, StepKeepsLoop DEF HistoryInv

LEMMA RethrowCallKeepsLoop ==
  ASSUME LoopInv, CandidateInv', NEW r \in Requests, NEW i \in 1..Len(calls[r]),
         RethrowCall(r, i)
  PROVE  LoopInv'
<1> DEFINE c == calls[r][i]
           d == [c EXCEPT !.st = "thrown"]
           s == IF pc[r] = "resume" THEN <<>> ELSE [calls[r] EXCEPT ![i] = d]
<1>1. /\ c \in CallType /\ calls[r] # <<>> /\ outcome[r] \notin Answered
      /\ calls[r] \in Seq(CallType)
  BY CallKnown DEF LoopInv, LoopTypes
<1>2. d \in CallType /\ d.st = "thrown"
  BY <1>1 DEF CallType
<1>3. calls' = [calls EXCEPT ![r] = s]
  BY DEF RethrowCall
<1>4. Dropped(r, s)
  <2> HIDE DEF d
  <2>1. /\ [calls[r] EXCEPT ![i] = d] \in Seq(CallType)
        /\ Len([calls[r] EXCEPT ![i] = d]) = Len(calls[r])
        /\ \A j \in 1..Len(calls[r]) :
             [calls[r] EXCEPT ![i] = d][j] = IF j = i THEN d ELSE calls[r][j]
    BY <1>1, <1>2, ExceptSeq
  <2> QED
    BY <1>2, <2>1 DEF Dropped
<1>5. UNCHANGED <<ledger, turn, open, deferred>>
  BY DEF RethrowCall, sharedVars
<1>6. \/ pc[r] # "done" /\ \E o \in Failures : End(r, o)
      \/ pc[r] = "done" /\ outcome[r] \notin Answered /\ UNCHANGED <<pc, outcome>>
  <2>1. pc[r] # "idle" /\ pc[r] \in States
    BY <1>1 DEF LoopInv, CandidateInv, ProbeTypes, ProbeInv
  <2> QED
    BY <1>1, <2>1 DEF RethrowCall, Live, States, Failures
<1> HIDE DEF s
<1> QED
  BY <1>3, <1>4, <1>5, <1>6, DropKeepsLoop

LEMMA StopWaitingKeepsLoop ==
  ASSUME LoopInv, CandidateInv', NEW r \in Requests, NEW o \in Failures,
         pc[r] # "done", StopWaiting(r, o)
  PROVE  LoopInv'
<1> DEFINE s == IF pc[r] = "resume" THEN <<>>
                ELSE [i \in 1..Len(calls[r]) |-> Thrown(calls[r][i])]
<1>1. calls[r] \in Seq(CallType) /\ Len(calls[r]) \in Nat
  BY LenProperties DEF LoopInv, LoopTypes
<1>2. calls' = [calls EXCEPT ![r] = s]
  BY DEF StopWaiting
<1>3. \A i \in 1..Len(calls[r]) :
        /\ Thrown(calls[r][i]) \in CallType
        /\ Thrown(calls[r][i]) = calls[r][i] \/ Thrown(calls[r][i]).st = "thrown"
  <2> SUFFICES ASSUME NEW c \in CallType
               PROVE  Thrown(c) \in CallType /\ (Thrown(c) = c \/ Thrown(c).st = "thrown")
    BY <1>1, ElementOfSeq
  <2> QED
    BY DEF Thrown, CallType
<1>4. Dropped(r, s)
  <2> DEFINE u == [i \in 1..Len(calls[r]) |-> Thrown(calls[r][i])]
  <2>1. u \in Seq(CallType) /\ Len(u) = Len(calls[r])
    BY <1>1, <1>3
  <2>2. \A j \in 1..Len(u) : u[j] = calls[r][j] \/ u[j].st = "thrown"
    BY <1>3, <2>1
  <2> QED
    BY <2>1, <2>2 DEF Dropped
<1>5. UNCHANGED <<ledger, turn, open, deferred>> /\ End(r, o)
  BY DEF StopWaiting, sharedVars
<1> HIDE DEF s
<1> QED
  BY <1>2, <1>4, <1>5, DropKeepsLoop
-----------------------------------------------------------------------------
(* The results are pushed *)

LEMMA ResultsAre ==
  ASSUME LoopInv, NEW r \in Requests, CallsDone(r),
         NEW u \in Seq(AnyUse), CallsOf(calls[r], u)
  PROVE  Results(r) = u
<1>1. \A i \in 1..Len(calls[r]) : calls[r][i].got = calls[r][i].sig
  BY DEF CallsDone, LoopInv, HistoryInv, OwnExecution
<1>2. \A i \in 1..Len(calls[r]) :
        [kind |-> "web", id |-> calls[r][i].id, sig |-> calls[r][i].got] = u[i]
  BY <1>1 DEF CallsOf
<1>3. Results(r) = [i \in 1..Len(u) |-> u[i]]
  BY <1>2 DEF Results, CallsOf
<1> QED
  BY <1>3

LEMMA NonePending ==
  ASSUME LoopInv, NEW r \in Requests, CallsDone(r), pc[r] \in {"tools", "resume"}
  PROVE  open[r] = 0
<1>1. Pending(r) = {}
  BY DEF Pending, CallsDone
<1> QED
  BY <1>1, FS_EmptySet DEF LoopInv, HistoryInv, BlocksKnown

LEMMA WebType ==
  ASSUME NEW d \in Seq(AnyUse)
  PROVE  /\ Web(d) \in Seq(AnyUse) /\ ClientPart(d) \in Seq(AnyUse)
         /\ Len(Web(d)) \in Nat /\ Len(Web(d)) <= Len(d)
         /\ \A i \in 1..Len(Web(d)) : \E j \in 1..Len(d) :
              Web(d)[i] = d[j] /\ d[j].kind = "web"
<1> DEFINE I == {i \in DOMAIN d : d[i].kind = "client"}
           J == {i \in DOMAIN d : d[i].kind = "web"}
<1>1. DOMAIN d = 1..Len(d) /\ Len(d) \in Nat
  OBVIOUS
<1>2. ClientPart(d) = Subsequence(d, I) /\ Web(d) = Subsequence(d, J)
  BY DEF ClientPart, Web, Select
<1>3. I \in SUBSET DOMAIN d /\ J \in SUBSET DOMAIN d /\ \A j \in J : d[j].kind = "web"
  OBVIOUS
<1> HIDE DEF I, J
<1>4. /\ Web(d) \in Seq(AnyUse) /\ ClientPart(d) \in Seq(AnyUse)
      /\ Len(Web(d)) = Cardinality(J)
  BY <1>2, <1>3, SubsequenceType
<1>5. Cardinality(J) <= Len(d)
  <2>1. IsFiniteSet(1..Len(d)) /\ Cardinality(1..Len(d)) = Len(d)
    BY <1>1, FS_Interval
  <2> QED
    BY <1>1, <1>3, <2>1, FS_Subset
<1>6. \A i \in DOMAIN Web(d) : \E j \in J : Web(d)[i] = d[j]
  BY <1>2, <1>3, SubsequenceElements
<1> QED
  BY <1>1, <1>3, <1>4, <1>5, <1>6

(* A request that has its results goes on with a paired turn. *)
LEMMA PushKeepsLoop ==
  ASSUME LoopInv, CandidateInv', NEW r \in Requests, NEW v \in Seq(AnyUse),
         pc[r] \in {"tools", "resume"}, CallsDone(r),
         turn' = [turn EXCEPT ![r].results = v],
         \A x : Count(turn[r].uses, x) = Count(v, x),
         calls' = [calls EXCEPT ![r] = <<>>],
         UNCHANGED <<ledger, open, deferred>>,
         \/ pc' = [pc EXCEPT ![r] = "model"] /\ UNCHANGED outcome
         \/ End(r, "loop_limit")
  PROVE  LoopInv'
<1>1. LoopTypes /\ CandidateInv /\ HistoryInv(r) /\ open[r] = 0
  BY NonePending DEF LoopInv
<1>2. /\ turn' \in [Requests -> [uses : Seq(AnyUse), results : Seq(AnyUse)]]
      /\ turn'[r].uses = turn[r].uses /\ turn'[r].results = v
      /\ \A q \in Requests \ {r} : turn'[q] = turn[q]
  BY <1>1 DEF LoopTypes
<1>3. /\ calls' \in [Requests -> Seq(CallType)] /\ calls'[r] = <<>>
      /\ \A q \in Requests \ {r} : calls'[q] = calls[q]
  BY <1>1, EmptySeq DEF LoopTypes
<1>4. /\ pc'[r] \in {"model", "done"}
      /\ \A q \in Requests \ {r} : pc'[q] = pc[q] /\ outcome'[q] = outcome[q]
      /\ outcome'[r] \notin Answered
      /\ deferred[r] = <<>>
  BY <1>1, NoneAssumption
  DEF CandidateInv, ProbeTypes, ProbeInv, End, Answered, HistoryInv, BlocksKnown
<1>5. LoopTypes' /\ StepOf(r)
  BY <1>1, <1>2, <1>3, <1>4 DEF LoopTypes, StepOf, LedgerGrows
<1>6. OwnExecution(r)'
  BY <1>3 DEF OwnExecution
<1>7. TurnKnown(r)'
  BY <1>2, <1>4 DEF TurnKnown, Paired
<1>8. Pending(r)' = {}
  BY <1>3 DEF Pending
<1>9. BlocksKnown(r)'
  BY <1>1, <1>3, <1>4, <1>8, FS_EmptySet DEF BlocksKnown
<1> QED
  BY <1>5, <1>6, <1>7, <1>9, StepKeepsLoop DEF HistoryInv

LEMMA PushResultsKeepsLoop ==
  ASSUME LoopInv, CandidateInv', NEW r \in Requests, PushResults(r)
  PROVE  LoopInv'
<1>1. /\ pc[r] = "tools" /\ CallsDone(r)
      /\ turn' = [turn EXCEPT ![r].results = Results(r)]
      /\ calls' = [calls EXCEPT ![r] = <<>>]
      /\ UNCHANGED <<ledger, open, deferred>>
  BY DEF PushResults, sharedVars
<1>2. turn[r].uses \in Seq(AnyUse) /\ CallsOf(calls[r], turn[r].uses)
  BY <1>1 DEF LoopInv, LoopTypes, HistoryInv, TurnKnown
<1>3. Results(r) = turn[r].uses
  BY <1>1, <1>2, ResultsAre
<1>4. \/ pc' = [pc EXCEPT ![r] = "model"] /\ UNCHANGED outcome
      \/ End(r, "loop_limit")
  BY DEF PushResults, NextRound
<1> QED
  BY <1>1, <1>2, <1>3, <1>4, PushKeepsLoop

LEMMA PushContinuationKeepsLoop ==
  ASSUME LoopInv, CandidateInv', NEW r \in Requests, PushContinuation(r)
  PROVE  LoopInv'
<1> DEFINE d == turn[r].uses
           v == ClientPart(d) \o Web(d)
<1>1. /\ pc[r] = "resume" /\ CallsDone(r)
      /\ turn' = [turn EXCEPT ![r].results = turn[r].results \o Results(r)]
      /\ calls' = [calls EXCEPT ![r] = <<>>]
      /\ UNCHANGED <<ledger, open, deferred>>
      /\ pc' = [pc EXCEPT ![r] = "model"] /\ UNCHANGED outcome
  BY DEF PushContinuation, sharedVars
<1>2. d \in Mixed /\ turn[r].results = ClientPart(d) /\ CallsOf(calls[r], Web(d))
  BY <1>1 DEF LoopInv, HistoryInv, TurnKnown
<1>3. Web(d) \in Seq(AnyUse) /\ ClientPart(d) \in Seq(AnyUse)
  BY <1>2, WebType DEF Mixed
<1>4. Results(r) = Web(d)
  BY <1>1, <1>2, <1>3, ResultsAre
<1>5. turn' = [turn EXCEPT ![r].results = v] /\ v \in Seq(AnyUse)
  BY <1>1, <1>2, <1>3, <1>4, ConcatProperties
<1>6. \A x : Count(turn[r].uses, x) = Count(v, x)
  BY <1>2, MixedSplits
<1> HIDE DEF v
<1> QED
  BY <1>1, <1>5, <1>6, PushKeepsLoop
-----------------------------------------------------------------------------
(* The steps of a request that has no call *)

(* Nothing is published: the request ends, or asks on. *)
LEMMA QuietStepKeepsLoop ==
  ASSUME LoopInv, CandidateInv', NEW r \in Requests,
         pc[r] \in {"idle", "model", "probe"}, pc'[r] \in {"model", "probe", "done"},
         \A q \in Requests \ {r} : pc'[q] = pc[q] /\ outcome'[q] = outcome[q],
         NEW t \in [uses : Seq(AnyUse), results : Seq(AnyUse)], Paired(t),
         turn' = [turn EXCEPT ![r] = t],
         UNCHANGED <<ledger, calls, open, deferred>>
  PROVE  LoopInv'
<1>1. /\ LoopTypes /\ HistoryInv(r) /\ calls[r] = <<>> /\ outcome[r] = None
      /\ open[r] = 0
  BY DEF LoopInv, CandidateInv, ProbeInv, HistoryInv, BlocksKnown
<1>2. deferred[r] = <<>>
  BY <1>1, NoneAssumption DEF HistoryInv, BlocksKnown
<1>3. LoopTypes' /\ StepOf(r)
  BY <1>1 DEF LoopTypes, StepOf, LedgerGrows
<1>4. OwnExecution(r)'
  BY <1>1 DEF OwnExecution
<1>5. TurnKnown(r)'
  BY <1>1 DEF TurnKnown, LoopTypes
<1>6. Cardinality(Pending(r)') = 0
  <2>1. Pending(r)' = {}
    BY <1>1 DEF Pending
  <2> QED
    BY <2>1, FS_EmptySet
<1>7. Len(Web(<<>>)) = 0
  <2> SUFFICES ASSUME NEW d, d = <<>>
               PROVE  Len(Web(d)) = 0
    OBVIOUS
  <2>1. d \in Seq(AnyUse) /\ Len(d) = 0
    BY EmptySeq
  <2>2. Len(Web(d)) \in Nat /\ Len(Web(d)) <= Len(d)
    BY <2>1, WebType
  <2> QED
    BY <2>1, <2>2
<1>8. BlocksKnown(r)'
  BY <1>1, <1>2, <1>6, <1>7 DEF BlocksKnown
<1> QED
  BY <1>3, <1>4, <1>5, <1>8, StepKeepsLoop DEF HistoryInv

(* The same without a turn of its own. *)
LEMMA SilentStepKeepsLoop ==
  ASSUME LoopInv, CandidateInv', NEW r \in Requests,
         pc[r] \in {"idle", "model", "probe"}, pc'[r] \in {"model", "probe", "done"},
         \A q \in Requests \ {r} : pc'[q] = pc[q] /\ outcome'[q] = outcome[q],
         UNCHANGED <<ledger, calls, turn, open, deferred>>
  PROVE  LoopInv'
<1>1. /\ turn[r] \in [uses : Seq(AnyUse), results : Seq(AnyUse)]
      /\ Paired(turn[r])
      /\ turn' = [turn EXCEPT ![r] = turn[r]]
  BY DEF LoopInv, LoopTypes, HistoryInv, TurnKnown
<1> QED
  BY <1>1, QuietStepKeepsLoop

LEMMA NewCalls ==
  ASSUME NEW u \in Seq(AnyUse),
         \A i \in 1..Len(u) : u[i].kind = "web" /\ u[i].id \in LedgerIds
  PROVE  /\ ToCalls(u) \in Seq(CallType) /\ Len(ToCalls(u)) = Len(u)
         /\ CallsOf(ToCalls(u), u)
         /\ \A i \in 1..Len(u) : ToCalls(u)[i].st = "todo"
<1>1. Len(u) \in Nat /\ \A i \in 1..Len(u) : u[i] \in AnyUse
  BY LenProperties, ElementOfSeq
<1>2. \A i \in 1..Len(u) :
        [id |-> u[i].id, sig |-> u[i].sig, st |-> "todo", got |-> None] \in CallType
  BY <1>1 DEF AnyUse, CallType
<1>3. ToCalls(u) \in Seq(CallType) /\ Len(ToCalls(u)) = Len(u)
  BY <1>1, <1>2 DEF ToCalls
<1>4. ASSUME NEW i \in 1..Len(u)
      PROVE  /\ ToCalls(u)[i].id = u[i].id /\ ToCalls(u)[i].sig = u[i].sig
             /\ ToCalls(u)[i].st = "todo"
  BY DEF ToCalls
<1>5. \A i \in 1..Len(u) : u[i] = [kind |-> "web", id |-> u[i].id, sig |-> u[i].sig]
  BY <1>1 DEF AnyUse
<1>6. CallsOf(ToCalls(u), u)
  BY <1>3, <1>4, <1>5 DEF CallsOf
<1> QED
  BY <1>3, <1>4, <1>6

(* The calls u of a turn are published and begun. *)
LEMMA BeginKeepsLoop ==
  ASSUME LoopInv, CandidateInv', NEW r \in Requests, NEW u \in Seq(AnyUse), Len(u) <= 3,
         \A i \in 1..Len(u) : u[i].kind = "web" /\ u[i].id \in LedgerIds,
         NEW t \in [uses : Seq(AnyUse), results : Seq(AnyUse)],
         pc[r] \in {"idle", "model"},
         calls' = [calls EXCEPT ![r] = ToCalls(u)],
         turn' = [turn EXCEPT ![r] = t],
         open' = [open EXCEPT ![r] = Len(u)],
         UNCHANGED <<ledger, outcome, deferred>>,
         \/ /\ pc' = [pc EXCEPT ![r] = "tools"]
            /\ t.uses = u /\ t.results = <<>>
         \/ /\ pc' = [pc EXCEPT ![r] = "resume"]
            /\ t.uses \in Mixed /\ Web(t.uses) = u /\ t.results = ClientPart(t.uses)
  PROVE  LoopInv'
<1>1. /\ LoopTypes /\ HistoryInv(r) /\ outcome[r] = None
      /\ pc \in [Requests -> States]
  BY DEF LoopInv, CandidateInv, ProbeTypes, ProbeInv
<1>2. deferred[r] = <<>>
  BY <1>1, NoneAssumption DEF HistoryInv, BlocksKnown
<1>3. /\ ToCalls(u) \in Seq(CallType) /\ Len(ToCalls(u)) = Len(u) /\ Len(u) \in Nat
      /\ CallsOf(ToCalls(u), u)
      /\ \A i \in 1..Len(u) : ToCalls(u)[i].st = "todo"
  BY NewCalls, LenProperties
<1>4. /\ calls'[r] = ToCalls(u) /\ turn'[r] = t /\ open'[r] = Len(u)
      /\ pc'[r] \in {"tools", "resume"}
      /\ pc'[r] = "tools" => t.uses = u /\ t.results = <<>>
      /\ pc'[r] = "resume" =>
           t.uses \in Mixed /\ Web(t.uses) = u /\ t.results = ClientPart(t.uses)
  BY <1>1 DEF LoopTypes
<1>5. LoopTypes' /\ StepOf(r)
  BY <1>1, <1>3 DEF LoopTypes, StepOf, LedgerGrows
<1>6. OwnExecution(r)'
  BY <1>3, <1>4 DEF OwnExecution
<1>7. TurnKnown(r)'
  BY <1>3, <1>4 DEF TurnKnown
<1>8. Pending(r)' = 1..Len(u)
  BY <1>3, <1>4 DEF Pending
<1>9. Cardinality(Pending(r)') = Len(u)
  <2>1. Len(u) \in Nat
    BY LenProperties
  <2>2. Cardinality(1..Len(u)) = Len(u)
    BY <2>1, IndicesCount
  <2> QED
    BY <1>8, <2>2
<1>10. outcome'[r] \notin Answered
  BY <1>1, NoneAssumption DEF Answered
<1>11. BlocksKnown(r)'
  BY <1>2, <1>3, <1>4, <1>9, <1>10 DEF BlocksKnown
<1> QED
  BY <1>5, <1>6, <1>7, <1>11, StepKeepsLoop DEF HistoryInv

LEMMA TurnType ==
  ASSUME NEW u \in Turns
  PROVE  /\ u \in Seq(AnyUse) /\ Len(u) \in Nat /\ Len(u) <= 3
         /\ \A i \in 1..Len(u) : u[i] \in Use /\ u[i] \in AnyUse
<1>1. u \in Seq(Use) /\ Len(u) <= 3
  BY TurnsAssumption
<1>2. Use \subseteq AnyUse
  BY DEF Use, AnyUse, LedgerIds
<1>3. u \in Seq(AnyUse)
  BY <1>1, <1>2, SeqMonotonic
<1>4. \A i \in 1..Len(u) : u[i] \in Use
  BY <1>1, ElementOfSeq
<1> QED
  BY <1>1, <1>2, <1>3, <1>4, LenProperties

LEMMA StartContinuationKeepsLoop ==
  ASSUME LoopInv, CandidateInv', NEW r \in Requests, NEW q \in Requests,
         StartContinuation(r, q)
  PROVE  LoopInv'
<1> DEFINE d == deferred[q]
           t == [uses |-> d, results |-> ClientPart(d)]
<1>1. d \in Mixed /\ d \in Seq(AnyUse) /\ Len(d) <= 3
  BY DEF LoopInv, LoopTypes, Mixed
<1>2. /\ Web(d) \in Seq(AnyUse) /\ ClientPart(d) \in Seq(AnyUse)
      /\ Len(Web(d)) <= 3
  <2>1. Len(d) \in Nat
    BY <1>1, LenProperties
  <2> QED
    BY <1>1, <2>1, WebType
<1>3. \A i \in 1..Len(Web(d)) : Web(d)[i].kind = "web" /\ Web(d)[i].id \in LedgerIds
  BY <1>1, WebType DEF Mixed
<1>4. t \in [uses : Seq(AnyUse), results : Seq(AnyUse)]
  BY <1>1, <1>2
<1>5. /\ pc[r] = "idle" /\ pc' = [pc EXCEPT ![r] = "resume"]
      /\ calls' = [calls EXCEPT ![r] = ToCalls(Web(d))]
      /\ turn' = [turn EXCEPT ![r] = t]
      /\ open' = [open EXCEPT ![r] = Len(Web(d))]
      /\ UNCHANGED <<ledger, outcome, deferred>>
  BY DEF StartContinuation, ClientPart, sharedVars, Select
<1>6. t.uses = d /\ t.results = ClientPart(d)
  OBVIOUS
<1> HIDE DEF d, t
<1> QED
  BY <1>1, <1>2, <1>3, <1>4, <1>5, <1>6, BeginKeepsLoop

LEMMA AnswerManagedKeepsLoop ==
  ASSUME LoopInv, CandidateInv', NEW r \in Requests, NEW u \in Turns, AnswerManaged(r, u)
  PROVE  LoopInv'
<1> DEFINE t == [uses |-> u, results |-> <<>>]
<1>1. /\ u \in Seq(AnyUse) /\ Len(u) \in Nat /\ Len(u) <= 3
      /\ \A i \in 1..Len(u) : u[i] \in Use
  BY TurnType
<1>2. \A i \in 1..Len(u) : u[i].kind = "web" /\ u[i].id \in LedgerIds
  BY <1>1 DEF AnswerManaged, OnlyWeb, Some, AmbiguousIds, Use, LedgerIds
<1>3. open[r] = 0 /\ pc[r] = "model"
  BY DEF AnswerManaged, Asking, LoopInv, HistoryInv, BlocksKnown
<1>4. /\ calls' = [calls EXCEPT ![r] = ToCalls(u)]
      /\ turn' = [turn EXCEPT ![r] = t]
      /\ pc' = [pc EXCEPT ![r] = "tools"]
      /\ open' = [open EXCEPT ![r] = open[r] + Len(u)]
      /\ UNCHANGED <<ledger, outcome, deferred>>
  BY DEF AnswerManaged, sharedVars
<1>5. t \in [uses : Seq(AnyUse), results : Seq(AnyUse)] /\ t.uses = u /\ t.results = <<>>
  BY <1>1, EmptySeq
<1>6. open' = [open EXCEPT ![r] = Len(u)]
  BY <1>1, <1>3, <1>4
<1> HIDE DEF t
<1> QED
  BY <1>1, <1>2, <1>3, <1>4, <1>5, <1>6, BeginKeepsLoop

(* A mixed turn goes back with fresh ids, and as many blocks to continue   *)
(* as it published.                                                        *)
LEMMA MixedTurn ==
  ASSUME NEW r \in Requests, NEW u \in Turns, ~Some(u, "search")
  PROVE  LET d == [i \in 1..Len(u) |->
                     IF u[i].kind = "web" THEN [u[i] EXCEPT !.id = <<r, i>>] ELSE u[i]]
         IN  /\ d \in Mixed
             /\ Len(Web(d)) = Len(Web(u)) /\ Len(Web(u)) \in Nat
<1> DEFINE e(i) == IF u[i].kind = "web" THEN [u[i] EXCEPT !.id = <<r, i>>] ELSE u[i]
           d == [i \in 1..Len(u) |-> e(i)]
<1>1. /\ u \in Seq(AnyUse) /\ Len(u) \in Nat /\ Len(u) <= 3
      /\ \A i \in 1..Len(u) : u[i] \in AnyUse
  BY TurnType
<1>2. \A i \in 1..Len(u) : <<r, i>> \in LedgerIds
  BY <1>1 DEF LedgerIds, ServerIds
<1>3. ASSUME NEW i \in 1..Len(u)
      PROVE  /\ e(i) \in AnyUse /\ e(i).kind = u[i].kind /\ e(i).kind # "search"
             /\ e(i).kind = "web" => e(i).id \in LedgerIds
  <2>1. u[i] \in AnyUse /\ u[i].kind # "search" /\ <<r, i>> \in LedgerIds
    BY <1>1, <1>2 DEF Some
  <2>2. CASE u[i].kind = "web"
    <3>1. e(i) = [kind |-> "web", id |-> <<r, i>>, sig |-> u[i].sig]
      BY <2>1, <2>2 DEF AnyUse
    <3> QED
      BY <2>1, <2>2, <3>1 DEF AnyUse
  <2>3. CASE u[i].kind # "web"
    BY <2>1, <2>3
  <2> QED
    BY <2>2, <2>3
<1> HIDE DEF e
<1>4. d \in Seq(AnyUse) /\ Len(d) = Len(u)
  BY <1>1, <1>3
<1>5. d \in Mixed
  <2>1. \A i \in 1..Len(d) : d[i].kind \in {"web", "client"}
                             /\ (d[i].kind = "web" => d[i].id \in LedgerIds)
    BY <1>3, <1>4 DEF AnyUse
  <2> QED
    BY <1>1, <1>4, <2>1 DEF Mixed
<1> DEFINE I == {i \in DOMAIN d : d[i].kind = "web"}
           J == {i \in DOMAIN u : u[i].kind = "web"}
<1>6. I = J
  BY <1>1, <1>3, <1>4
<1>7. Web(d) = Subsequence(d, I) /\ Web(u) = Subsequence(u, J)
  BY DEF Web, Select
<1>8. I \in SUBSET DOMAIN d /\ J \in SUBSET DOMAIN u
  OBVIOUS
<1> HIDE DEF I, J, d
<1>9. Len(Web(d)) = Cardinality(I) /\ Len(Web(u)) = Cardinality(J) /\ Cardinality(J) \in Nat
  BY <1>1, <1>4, <1>7, <1>8, SubsequenceType
<1> QED
  BY <1>5, <1>6, <1>9 DEF d, e

LEMMA AnswerClientToolsKeepsLoop ==
  ASSUME LoopInv, CandidateInv', NEW r \in Requests, NEW u \in Turns,
         AnswerClientTools(r, u)
  PROVE  LoopInv'
<1> DEFINE d == [i \in 1..Len(u) |->
                   IF u[i].kind = "web" THEN [u[i] EXCEPT !.id = <<r, i>>] ELSE u[i]]
<1>1. /\ pc[r] = "model" /\ open[r] = 0 /\ calls[r] = <<>>
      /\ LoopTypes /\ CandidateInv /\ HistoryInv(r)
  BY DEF AnswerClientTools, Asking, LoopInv, HistoryInv, BlocksKnown, CandidateInv, ProbeInv
<1>2. CASE Some(u, "web")
  <2>1. d \in Mixed /\ Len(Web(d)) = Len(Web(u)) /\ Len(Web(u)) \in Nat
    BY MixedTurn DEF AnswerClientTools
  <2>2. /\ deferred' = [deferred EXCEPT ![r] = d]
        /\ open' = [open EXCEPT ![r] = open[r] + Len(Web(u))]
        /\ End(r, "deferred")
        /\ UNCHANGED <<ledger, calls, turn>>
    BY <1>2 DEF AnswerClientTools, sharedVars
  <2> HIDE DEF d
  <2>3. /\ open' \in [Requests -> Nat] /\ open'[r] = Len(Web(u))
        /\ deferred' \in [Requests -> Mixed] /\ deferred'[r] = d
        /\ pc'[r] = "done" /\ outcome'[r] = "deferred"
    BY <1>1, <2>1, <2>2 DEF LoopTypes, End, CandidateInv, ProbeTypes
  <2>4. LoopTypes' /\ StepOf(r)
    BY <1>1, <2>2, <2>3 DEF LoopTypes, StepOf, LedgerGrows, End, CandidateInv, ProbeTypes
  <2>5. OwnExecution(r)' /\ TurnKnown(r)'
    BY <1>1, <2>2, <2>3 DEF OwnExecution, TurnKnown
  <2>6. Cardinality(Pending(r)') = 0
    <3>1. Pending(r)' = {}
      BY <1>1, <2>2 DEF Pending
    <3> QED
      BY <3>1, FS_EmptySet
  <2>7. BlocksKnown(r)'
    BY <1>1, <2>1, <2>2, <2>3, <2>6 DEF BlocksKnown
  <2> QED
    BY <2>4, <2>5, <2>7, StepKeepsLoop DEF HistoryInv
<1>3. CASE ~Some(u, "web")
  <2>1. End(r, "client_tools") /\ UNCHANGED <<ledger, calls, turn, open, deferred>>
    BY <1>3 DEF AnswerClientTools, sharedVars
  <2>2. /\ pc'[r] = "done"
        /\ \A q \in Requests \ {r} : pc'[q] = pc[q] /\ outcome'[q] = outcome[q]
    BY <1>1, <2>1 DEF End, CandidateInv, ProbeTypes
  <2> QED
    BY <1>1, <2>1, <2>2, SilentStepKeepsLoop
<1> QED
  BY <1>2, <1>3

(* Every search is answered, and nothing else is in the history. *)
LEMMA AnswerSearchKeepsLoop ==
  ASSUME LoopInv, CandidateInv', NEW r \in Requests, NEW u \in Turns, AnswerSearch(r, u)
  PROVE  LoopInv'
<1> DEFINE I == {i \in DOMAIN u : u[i].kind = "search"}
           k == Subsequence(u, I)
           t == [uses |-> k, results |-> k]
<1>1. k \in Seq(AnyUse)
  <2>1. u \in Seq(AnyUse) /\ I \in SUBSET DOMAIN u
    BY TurnType
  <2> QED
    BY <2>1, SubsequenceType
<1>2. /\ pc[r] = "model" /\ pc \in [Requests -> States]
      /\ outcome \in [Requests -> Outcomes]
      /\ UNCHANGED <<ledger, calls, open, deferred>>
      /\ turn' = [turn EXCEPT ![r] = t]
      /\ NextRound(r)
  BY DEF AnswerSearch, Asking, sharedVars, Select, LoopInv, CandidateInv, ProbeTypes
<1>3. /\ pc'[r] \in {"model", "done"}
      /\ \A q \in Requests \ {r} : pc'[q] = pc[q] /\ outcome'[q] = outcome[q]
  BY <1>2 DEF NextRound, End
<1>4. t \in [uses : Seq(AnyUse), results : Seq(AnyUse)] /\ Paired(t)
  BY <1>1 DEF Paired
<1> HIDE DEF t
<1> QED
  BY <1>2, <1>3, <1>4, QuietStepKeepsLoop

LEMMA ModelStepKeepsLoop ==
  ASSUME LoopInv, CandidateInv', NEW r \in Requests, ModelStep(r)
  PROVE  LoopInv'
<1>1. pc \in [Requests -> States] /\ outcome \in [Requests -> Outcomes]
  BY DEF LoopInv, CandidateInv, ProbeTypes
<1> USE DEF End, Asking, sharedVars, probeVars
<1>2. CASE ModelFails(r) \/ AnswerCut(r)
  <2>1. /\ pc[r] = "model" /\ pc'[r] = "done"
        /\ \A q \in Requests \ {r} : pc'[q] = pc[q] /\ outcome'[q] = outcome[q]
        /\ UNCHANGED <<ledger, calls, turn, open, deferred>>
    BY <1>1, <1>2 DEF ModelFails, AnswerCut
  <2> QED
    BY <2>1, SilentStepKeepsLoop
<1>3. ASSUME NEW f \in Finals, AnswerFinal(r, f)
      PROVE  LoopInv'
  <2>1. /\ pc[r] = "model" /\ pc'[r] \in {"probe", "done"}
        /\ \A q \in Requests \ {r} : pc'[q] = pc[q] /\ outcome'[q] = outcome[q]
        /\ UNCHANGED <<ledger, calls, turn, open, deferred>>
    BY <1>1, <1>3 DEF AnswerFinal
  <2> QED
    BY <2>1, SilentStepKeepsLoop
<1>4. ASSUME NEW u \in Turns, AnswerHandoff(r, u) \/ AnswerRefused(r, u)
      PROVE  LoopInv'
  <2>1. /\ pc[r] = "model" /\ pc'[r] = "done"
        /\ \A q \in Requests \ {r} : pc'[q] = pc[q] /\ outcome'[q] = outcome[q]
        /\ UNCHANGED <<ledger, calls, turn, open, deferred>>
    BY <1>1, <1>4 DEF AnswerHandoff, AnswerRefused
  <2> QED
    BY <2>1, SilentStepKeepsLoop
<1> QED
  BY <1>2, <1>3, <1>4, AnswerSearchKeepsLoop, AnswerClientToolsKeepsLoop,
     AnswerManagedKeepsLoop DEF ModelStep

LEMMA CallStepKeepsLoop ==
  ASSUME LoopInv, CandidateInv', NEW r \in Requests, CallStep(r)
  PROVE  LoopInv'
<1>1. ASSUME AbortCalls(r)
      PROVE  LoopInv'
  <2>1. pc[r] # "done" /\ StopWaiting(r, "aborted")
    BY <1>1 DEF AbortCalls
  <2>2. "aborted" \in Failures
    BY DEF Failures
  <2> QED
    BY <2>1, <2>2, StopWaitingKeepsLoop
<1> QED
  BY <1>1, StartCallKeepsLoop, JoinCallKeepsLoop, ConflictCallKeepsLoop,
     DeliverCallKeepsLoop, RethrowCallKeepsLoop, PushResultsKeepsLoop,
     PushContinuationKeepsLoop DEF CallStep

LEMMA ProbeStepKeepsLoop ==
  ASSUME LoopInv, CandidateInv', NEW r \in Requests, ProbeStep(r)
  PROVE  LoopInv'
<1>1. pc \in [Requests -> States] /\ outcome \in [Requests -> Outcomes]
  BY DEF LoopInv, CandidateInv, ProbeTypes
<1>2. /\ pc[r] = "probe" /\ pc'[r] \in {"model", "probe", "done"}
      /\ \A q \in Requests \ {r} : pc'[q] = pc[q] /\ outcome'[q] = outcome[q]
      /\ UNCHANGED <<ledger, calls, turn, open, deferred>>
  BY <1>1 DEF ProbeStep, ProbeComplete, ProbeContinue, ProbeFails, NextRound, End,
       sharedVars, probeVars
<1> QED
  BY <1>2, SilentStepKeepsLoop

LEMMA EnvironmentKeepsLoop ==
  ASSUME LoopInv, CandidateInv', NEW r \in Requests,
         \/ Start(r)
         \/ \E q \in Requests : StartContinuation(r, q)
         \/ Disconnect(r)
         \/ TaskTimeout(r)
  PROVE  LoopInv'
<1>1. CASE Start(r)
  <2>1. /\ pc[r] = "idle" /\ pc'[r] = "model"
        /\ \A q \in Requests \ {r} : pc'[q] = pc[q] /\ outcome'[q] = outcome[q]
        /\ UNCHANGED <<ledger, calls, turn, open, deferred>>
    BY <1>1 DEF Start, sharedVars, probeVars, LoopInv, CandidateInv, ProbeTypes
  <2> QED
    BY <2>1, SilentStepKeepsLoop
<1>2. CASE Disconnect(r)
  <2>1. UNCHANGED <<ledger, pc, outcome, calls, turn, open, deferred>>
    BY <1>2 DEF Disconnect, sharedVars, probeVars
  <2>2. LoopTypes'
    BY <2>1 DEF LoopInv, LoopTypes
  <2>3. ASSUME NEW q \in Requests PROVE HistoryInv(q)'
    <3>1. HistoryInv(q)
      BY DEF LoopInv
    <3>2. OwnExecution(q)'
      BY <2>1, <3>1 DEF HistoryInv, OwnExecution
    <3>3. TurnKnown(q)'
      BY <2>1, <3>1 DEF HistoryInv, TurnKnown
    <3>4. BlocksKnown(q)'
      BY <2>1, <3>1 DEF HistoryInv, BlocksKnown, Pending
    <3> QED
      BY <3>2, <3>3, <3>4 DEF HistoryInv
  <2> QED
    BY <2>2, <2>3 DEF LoopInv
<1>3. CASE TaskTimeout(r)
  <2>1. pc[r] # "done" /\ StopWaiting(r, "task_timeout") /\ "task_timeout" \in Failures
    BY <1>3 DEF TaskTimeout, Live, Failures
  <2> QED
    BY <2>1, StopWaitingKeepsLoop
<1> QED
  BY <1>1, <1>2, <1>3, StartContinuationKeepsLoop

(* The end of an execution: no entry is lost or exchanged. *)
LEMMA SettleKeepsLoop ==
  ASSUME LoopInv, CandidateInv', NEW id \in LedgerIds, Settle(id)
  PROVE  LoopInv'
<1>1. PICK st \in {"ok", "error"} \cup Reason(ledger[id].owner) :
        ledger' = [ledger EXCEPT ![id].st = st]
  BY DEF Settle
<1>2. st \in {"ok", "error", "aborted", "timeout"}
  BY DEF Reason
<1>3. /\ ledger[id].st = "running" /\ ledger[id] \in EntryType \cup {Absent}
      /\ UNCHANGED <<pc, outcome, calls, turn, open, deferred>>
  BY DEF Settle, LoopInv, LoopTypes, probeVars
<1>4. ledger[id] \in EntryType
  BY <1>3 DEF Absent
<1> DEFINE e == [ledger[id] EXCEPT !.st = st]
<1>5. e \in EntryType /\ e.sig = ledger[id].sig /\ e.st = st
  BY <1>2, <1>4 DEF EntryType
<1>6. ledger' = [ledger EXCEPT ![id] = e]
  BY <1>1
<1> HIDE DEF e
<1>7. ledger' \in [LedgerIds -> EntryType \cup {Absent}] /\ LedgerGrows
  BY <1>2, <1>5, <1>6 DEF LoopInv, LoopTypes, LedgerGrows
<1>8. LoopTypes'
  BY <1>3, <1>7 DEF LoopInv, LoopTypes
<1>9. ASSUME NEW r \in Requests
      PROVE  HistoryInv(r)'
  <2>1. HistoryInv(r)
    BY DEF LoopInv
  <2>2. \A i \in 1..Len(calls[r]) : calls[r][i].id \in LedgerIds
    BY CallKnown
  <2>3. OwnExecution(r)'
    BY <1>3, <1>7, <2>1, <2>2 DEF HistoryInv, OwnExecution, LedgerGrows
  <2>4. TurnKnown(r)' /\ BlocksKnown(r)'
    BY <1>3, <2>1 DEF HistoryInv, TurnKnown, BlocksKnown, Pending
  <2> QED
    BY <2>3, <2>4 DEF HistoryInv
<1> QED
  BY <1>8, <1>9 DEF LoopInv

LEMMA LoopStarts == Init => LoopInv
<1> SUFFICES ASSUME Init PROVE LoopInv
  OBVIOUS
<1>1. CandidateInv
  BY CandidateStarts
<1>2. <<>> \in Mixed /\ <<>> \in Seq(AnyUse) /\ <<>> \in Seq(CallType) /\ Len(<<>>) = 0
  <2>1. Len(<<>>) = 0
    OBVIOUS
  <2> QED
    BY <2>1, EmptySeq DEF Mixed
<1>3. LoopTypes
  BY <1>2 DEF Init, LoopTypes, NoTurn
<1>4. ASSUME NEW r \in Requests
      PROVE  HistoryInv(r)
  <2>1. OwnExecution(r)
    BY DEF Init, OwnExecution
  <2>2. TurnKnown(r)
    BY DEF Init, TurnKnown, Paired, NoTurn
  <2>3. Cardinality(Pending(r)) = 0
    <3>1. Pending(r) = {}
      BY DEF Init, Pending
    <3> QED
      BY <3>1, FS_EmptySet
  <2>4. BlocksKnown(r)
    BY <2>3, NoneAssumption DEF Init, BlocksKnown, Answered
  <2> QED
    BY <2>1, <2>2, <2>4 DEF HistoryInv
<1> QED
  BY <1>1, <1>3, <1>4 DEF LoopInv

LEMMA LoopPreserved == LoopInv /\ [Next]_vars => LoopInv'
<1> SUFFICES ASSUME LoopInv, [Next]_vars
             PROVE  LoopInv'
  OBVIOUS
<1>1. CandidateInv'
  BY CandidatePreserved DEF LoopInv
<1>2. CASE UNCHANGED vars
  BY <1>1, <1>2 DEF vars, LoopInv, LoopTypes, HistoryInv, OwnExecution, TurnKnown,
       BlocksKnown, Pending
<1> QED
  BY <1>1, <1>2, ModelStepKeepsLoop, CallStepKeepsLoop, ProbeStepKeepsLoop,
     EnvironmentKeepsLoop, SettleKeepsLoop DEF Next

(* Whenever the model is asked, the last pushed assistant message and the  *)
(* user message after it pair every tool call with one result of its own   *)
(* name and input, also when requests share an execution, an id conflicts, *)
(* or a mixed turn is continued by a later request.                        *)
THEOREM HistoryIsPaired == Spec => []HistoryPaired
<1>1. LoopInv => HistoryPaired
  BY DEF LoopInv, HistoryInv, TurnKnown, Paired, HistoryPaired
<1> QED
  BY <1>1, LoopStarts, LoopPreserved, PTL DEF Spec

(* A client that is answered has a result for every block it was shown,    *)
(* save those of the response that hands them over.                        *)
THEOREM ClientGetsPairs == Spec => []ClientSeesPairs
<1>1. LoopInv => ClientSeesPairs
  BY DEF LoopInv, HistoryInv, BlocksKnown, ClientSeesPairs
<1> QED
  BY <1>1, LoopStarts, LoopPreserved, PTL DEF Spec
-----------------------------------------------------------------------------
(* Types, with the bounds of rounds, probes and retries *)

BoundsInv ==
    /\ aborted \subseteq Requests
    /\ round \in [Requests -> 0..MaxRounds]
    /\ attempts \in [Requests -> [Finals -> 0..ProbeLimit]]
    /\ retry \in [Requests -> 0..RetryLimit]
    /\ \A r \in Requests : pc[r] # "done" => round[r] < MaxRounds

LEMMA NextRoundBounded ==
  ASSUME LoopInv, BoundsInv, NEW r \in Requests, pc[r] # "done", NextRound(r)
  PROVE  /\ round' \in [Requests -> 0..MaxRounds]
         /\ \A q \in Requests : pc'[q] # "done" => round'[q] < MaxRounds
  BY BoundsAssumption DEF LoopInv, CandidateInv, ProbeTypes, BoundsInv, NextRound, End

LEMMA BoundsPreserved == LoopInv /\ BoundsInv /\ [Next]_vars => BoundsInv'
<1> SUFFICES ASSUME LoopInv, BoundsInv, [Next]_vars
             PROVE  BoundsInv'
  OBVIOUS
<1>0. pc \in [Requests -> States]
  BY DEF LoopInv, CandidateInv, ProbeTypes
<1> USE DEF End, Asking, sharedVars, probeVars
<1>1. CASE UNCHANGED vars
  BY <1>1 DEF vars, BoundsInv
<1>2. ASSUME NEW id \in LedgerIds, Settle(id)
      PROVE  BoundsInv'
  BY <1>2 DEF Settle, BoundsInv
<1>3. ASSUME NEW r \in Requests,
             \/ Start(r)
             \/ \E q \in Requests : StartContinuation(r, q)
             \/ Disconnect(r)
             \/ TaskTimeout(r)
      PROVE  BoundsInv'
  BY <1>0, <1>3
  DEF Start, StartContinuation, Disconnect, TaskTimeout, StopWaiting, BoundsInv
<1>4. ASSUME NEW r \in Requests, ModelStep(r)
      PROVE  BoundsInv'
  <2>1. CASE ModelFails(r) \/ AnswerCut(r)
    BY <1>0, <2>1 DEF ModelFails, AnswerCut, BoundsInv
  <2>2. ASSUME NEW f \in Finals, AnswerFinal(r, f)
        PROVE  BoundsInv'
    <3>1. CASE UNCHANGED <<attempts, retry>>
      BY <1>0, <2>2, <3>1 DEF AnswerFinal, BoundsInv
    <3>2. CASE /\ pc[r] = "model" /\ pc' = [pc EXCEPT ![r] = "probe"]
               /\ attempts[r][f] < ProbeLimit
               /\ attempts' = [attempts EXCEPT ![r][f] = @ + 1]
               /\ retry' = [retry EXCEPT ![r] = 0]
      <4>1. attempts[r] \in [Finals -> 0..ProbeLimit] /\ attempts[r][f] \in 0..ProbeLimit
        BY DEF BoundsInv
      <4>2. [attempts[r] EXCEPT ![f] = @ + 1] \in [Finals -> 0..ProbeLimit]
        BY <3>2, <4>1, BoundsAssumption
      <4>3. attempts' \in [Requests -> [Finals -> 0..ProbeLimit]]
        BY <3>2, <4>2 DEF BoundsInv
      <4>4. retry' \in [Requests -> 0..RetryLimit]
        BY <3>2, BoundsAssumption DEF BoundsInv
      <4> QED
        BY <1>0, <2>2, <3>2, <4>3, <4>4 DEF AnswerFinal, BoundsInv
    <3> QED
      BY <2>2, <3>1, <3>2 DEF AnswerFinal
  <2>3. ASSUME NEW u \in Turns, AnswerSearch(r, u)
        PROVE  BoundsInv'
    <3>1. pc[r] # "done" /\ NextRound(r) /\ UNCHANGED <<aborted, attempts, retry>>
      BY <2>3 DEF AnswerSearch
    <3> QED
      BY <3>1, NextRoundBounded DEF BoundsInv
  <2>4. ASSUME NEW u \in Turns,
               \/ AnswerHandoff(r, u) \/ AnswerClientTools(r, u)
               \/ AnswerRefused(r, u) \/ AnswerManaged(r, u)
        PROVE  BoundsInv'
    BY <1>0, <2>4
    DEF AnswerHandoff, AnswerClientTools, AnswerRefused, AnswerManaged, BoundsInv
  <2> QED
    BY <1>4, <2>1, <2>2, <2>3, <2>4 DEF ModelStep
<1>5. ASSUME NEW r \in Requests, CallStep(r)
      PROVE  BoundsInv'
  <2>1. CASE PushResults(r)
    <3>1. pc[r] # "done" /\ NextRound(r) /\ UNCHANGED <<aborted, attempts, retry>>
      BY <2>1 DEF PushResults
    <3> QED
      BY <3>1, NextRoundBounded DEF BoundsInv
  <2>2. CASE AbortCalls(r) \/ PushContinuation(r)
    BY <1>0, <2>2 DEF AbortCalls, StopWaiting, PushContinuation, BoundsInv
  <2>3. ASSUME NEW i \in 1..Len(calls[r]),
               \/ StartCall(r, i) \/ JoinCall(r, i) \/ ConflictCall(r, i)
               \/ DeliverCall(r, i)
        PROVE  BoundsInv'
    BY <2>3 DEF StartCall, JoinCall, ConflictCall, DeliverCall, BoundsInv
  <2>4. ASSUME NEW i \in 1..Len(calls[r]), RethrowCall(r, i)
        PROVE  BoundsInv'
    BY <1>0, <2>4 DEF RethrowCall, BoundsInv
  <2> QED
    BY <1>5, <2>1, <2>2, <2>3, <2>4 DEF CallStep
<1>6. ASSUME NEW r \in Requests, ProbeStep(r)
      PROVE  BoundsInv'
  <2>1. CASE ProbeComplete(r)
    BY <1>0, <2>1 DEF ProbeComplete, BoundsInv
  <2>2. CASE ProbeContinue(r)
    <3>1. CASE round[r] + 1 >= MaxRounds
      BY <1>0, <2>2, <3>1 DEF ProbeContinue, BoundsInv
    <3>2. CASE ~(round[r] + 1 >= MaxRounds)
      <4>1. pc[r] # "done" /\ NextRound(r) /\ UNCHANGED <<aborted, attempts, retry>>
        BY <2>2, <3>2 DEF ProbeContinue
      <4> QED
        BY <4>1, NextRoundBounded DEF BoundsInv
    <3> QED
      BY <3>1, <3>2
  <2>3. CASE ProbeFails(r)
    <3>1. retry' \in [Requests -> 0..RetryLimit]
      BY <2>3, BoundsAssumption DEF ProbeFails, BoundsInv
    <3> QED
      BY <1>0, <2>3, <3>1 DEF ProbeFails, BoundsInv
  <2> QED
    BY <1>6, <2>1, <2>2, <2>3 DEF ProbeStep
<1> QED
  BY <1>1, <1>2, <1>3, <1>4, <1>5, <1>6 DEF Next

(* Every variable keeps its type, and no request exceeds its rounds, the   *)
(* probes of a candidate or the retries of a probe.                        *)
THEOREM LoopIsTyped == Spec => []TypeOK
<1>1. Init => BoundsInv
  BY BoundsAssumption DEF Init, BoundsInv
<1>2. LedgerInv /\ LoopInv /\ BoundsInv => TypeOK
  BY DEF LedgerInv, LoopInv, LoopTypes, CandidateInv, ProbeTypes, BoundsInv, TypeOK,
       HistoryInv, BlocksKnown, States, Outcomes
<1> QED
  BY <1>1, <1>2, LedgerStarts, LedgerPreserved, LoopStarts, LoopPreserved,
     BoundsPreserved, PTL DEF Spec
=============================================================================

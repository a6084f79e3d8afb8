----------------------------- MODULE Stores_proofs -----------------------------
(***************************************************************************)
(* The startup banner, for every number of requests, sessions and Map      *)
(* entries.  A request that reserved belongs to the epoch of its session   *)
(* in which it did.  Two requests of one epoch would have to reserve while *)
(* the session is neither reserved nor shown; but as long as the epoch     *)
(* lasts, whoever sends or sent is the owner or its card is shown, for     *)
(* only a failed delivery gives the reservation back, and then nothing was *)
(* sent.  The tool ledgers: the order of insertion is that of last use, so *)
(* an entry that is first has as many sessions used after it as the Map    *)
(* holds.  The recovery store: what a list of steps may look like, and     *)
(* what each step still to come may rely on, at every point at which the   *)
(* process may crash or a file operation fail.  And the media cache: only  *)
(* the head of its promise chain is at work, so a file still holds what    *)
(* that operation read or wrote.  The byte counts of both caches are sums  *)
(* over what they keep, whatever is added, replaced, evicted or removed in *)
(* between; a sum over a finite set is the same in every order, which has  *)
(* to be proved first.                                                     *)
(***************************************************************************)
EXTENDS Stores, Integers, Subsequence_proofs, SequenceTheorems, FiniteSetTheorems,
        WellFoundedInduction, TLAPS

BannerTypes ==
    /\ session \in [Requests -> Sessions]
    /\ banner \in [Requests -> {"none", "sending", "written", "finished", "skipped"}]
    /\ owner \in [Sessions -> Requests \cup {Nobody}]
    /\ shown \in Seq(Sessions)
    /\ epoch \in [Sessions -> Nat]
    /\ since \in [Requests -> Nat]

(* Requests whose card is being sent or was sent. *)
Delivering == {r \in Requests : banner[r] \in {"sending", "written", "finished"}}

OwnersCurrent == \A s \in Sessions : owner[s] # Nobody => since[owner[s]] = epoch[s]

NotFromTheFuture == \A r \in Delivering : since[r] <= epoch[session[r]]

CurrentKnown ==
    \A r \in Delivering : since[r] = epoch[session[r]] =>
      owner[session[r]] = r \/ Has(shown, session[r])

OneDelivery ==
    \A r, q \in Delivering : r # q /\ session[r] = session[q] => since[r] # since[q]

BannerInv ==
    /\ BannerTypes
    /\ ReservationsOwned
    /\ OwnersCurrent
    /\ NotFromTheFuture
    /\ CurrentKnown
    /\ OneDelivery
-----------------------------------------------------------------------------
(* What a Map keeps after an insertion: everything it had and the new key, *)
(* except the evicted one, which was one of these.                         *)
LEMMA TrimKeeps ==
    ASSUME NEW q \in Seq(Sessions), NEW s \in Sessions, NEW max \in Nat
    PROVE  LET order == Append(q, s)
           IN  /\ Trim(order, max) \in Seq(Sessions)
               /\ \A t : Has(Trim(order, max), t) => Has(q, t) \/ t = s
               /\ \A t : Has(q, t) \/ t = s =>
                    Has(Trim(order, max), t) \/ t \in Evicted(order, max)
               /\ \A t \in Evicted(order, max) : Has(q, t) \/ t = s
<1> DEFINE order == Append(q, s)
<1>1. /\ order \in Seq(Sessions)
      /\ Len(order) = Len(q) + 1
      /\ order[Len(order)] = s
      /\ \A i \in 1..Len(q) : order[i] = q[i]
  BY AppendProperties
<1>2. Len(q) \in Nat
  BY LenProperties
<1>3. /\ Tail(order) \in Seq(Sessions)
      /\ Len(Tail(order)) = Len(q)
      /\ \A i \in 1..Len(q) : Tail(order)[i] = order[i + 1]
      /\ Head(order) = order[1]
  BY <1>1, <1>2, HeadTailProperties, EmptySeq
<1> HIDE DEF order
<1>4. \A t : Has(order, t) <=> Has(q, t) \/ t = s
  BY <1>1, <1>2 DEF Has
<1>5. \A t : Has(Tail(order), t) => Has(order, t)
  BY <1>1, <1>2, <1>3 DEF Has
<1>6. \A t : Has(order, t) => Has(Tail(order), t) \/ t = Head(order)
  <2> SUFFICES ASSUME NEW t, NEW i \in 1..Len(order), order[i] = t, t # Head(order)
               PROVE  Has(Tail(order), t)
    BY DEF Has
  <2>1. i - 1 \in 1..Len(q) /\ Tail(order)[i - 1] = t
    BY <1>1, <1>2, <1>3
  <2> QED
    BY <2>1, <1>3 DEF Has
<1>7. Has(order, Head(order))
  BY <1>1, <1>2, <1>3 DEF Has
<1> QED
  BY <1>1, <1>3, <1>4, <1>5, <1>6, <1>7 DEF Trim, Evicted, order

LEMMA BannerInit == Init => BannerInv
<1> SUFFICES ASSUME Init PROVE BannerInv
  OBVIOUS
<1>1. BannerTypes
  BY DEF Init, BannerTypes
<1>2. Delivering = {}
  BY DEF Init, Delivering
<1>3. \A s \in Sessions : owner[s] = Nobody
  BY DEF Init
<1> QED
  BY <1>1, <1>2, <1>3 DEF BannerInv, ReservationsOwned, OwnersCurrent,
     NotFromTheFuture, CurrentKnown, OneDelivery
-----------------------------------------------------------------------------
(* A reservation opens no second delivery in its epoch.                    *)
LEMMA ReserveKeepsInv ==
    ASSUME BannerInv, NEW r \in Requests, Reserve(r)
    PROVE  BannerInv'
<1> DEFINE s == session[r]
           gone == Evicted(Append(ownerOrder, s), MaxRemembered)
<1> USE NobodyAssumption DEF BannerInv
<1>0. /\ banner[r] = "none" /\ owner[s] = Nobody /\ ~Has(shown, s) /\ s \in Sessions
      /\ session' = session /\ shown' = shown
      /\ banner' = [banner EXCEPT ![r] = "sending"]
      /\ since' = [since EXCEPT ![r] = epoch[s]]
      /\ epoch' = [t \in Sessions |-> epoch[t] + IF t \in gone THEN 1 ELSE 0]
      /\ owner' = [t \in Sessions |-> IF t \in gone THEN Nobody
                                    ELSE IF t = s THEN r ELSE owner[t]]
  BY DEF Reserve, MayReserve, BannerTypes, NextEpoch
<1> HIDE DEF gone
<1>1. BannerTypes'
  BY <1>0 DEF BannerTypes
<1>2. Delivering' = Delivering \cup {r} /\ r \notin Delivering
  BY <1>0 DEF BannerTypes, Delivering
<1>3. \A t \in Sessions :
        /\ owner'[t] # Nobody => t \notin gone /\ owner'[t] = IF t = s THEN r ELSE owner[t]
        /\ epoch'[t] = IF t \in gone THEN epoch[t] + 1 ELSE epoch[t]
  <2> HIDE DEF s
  <2> SUFFICES ASSUME NEW t \in Sessions
               PROVE  /\ owner'[t] # Nobody =>
                           t \notin gone /\ owner'[t] = IF t = s THEN r ELSE owner[t]
                      /\ epoch'[t] = IF t \in gone THEN epoch[t] + 1 ELSE epoch[t]
    OBVIOUS
  <2>1. epoch'[t] = IF t \in gone THEN epoch[t] + 1 ELSE epoch[t]
    BY <1>0 DEF BannerTypes
  <2>2. owner'[t] # Nobody => t \notin gone /\ owner'[t] = IF t = s THEN r ELSE owner[t]
    BY <1>0
  <2> QED
    BY <2>1, <2>2
<1>4. \A q \in Requests : since'[q] = IF q = r THEN epoch[s] ELSE since[q]
  BY <1>0 DEF BannerTypes
<1>5. \A q \in Requests : banner'[q] = IF q = r THEN "sending" ELSE banner[q]
  BY <1>0 DEF BannerTypes
<1>6. ReservationsOwned'
  <2> SUFFICES ASSUME NEW t \in Sessions, owner'[t] # Nobody
               PROVE  /\ session[owner'[t]] = t
                      /\ banner'[owner'[t]] \in {"sending", "written"}
                      /\ ~Has(shown, t)
    BY <1>0 DEF ReservationsOwned, Has
  <2>1. CASE t = s
    BY <2>1, <1>0, <1>3, <1>5
  <2>2. CASE t # s
    BY <2>2, <1>0, <1>3, <1>5 DEF ReservationsOwned, BannerTypes
  <2> QED
    BY <2>1, <2>2
<1>7. OwnersCurrent'
  <2> SUFFICES ASSUME NEW t \in Sessions, owner'[t] # Nobody
               PROVE  since'[owner'[t]] = epoch'[t]
    BY DEF OwnersCurrent
  <2>1. CASE t = s
    BY <2>1, <1>0, <1>3, <1>4
  <2>2. CASE t # s
    BY <2>2, <1>0, <1>3, <1>4 DEF OwnersCurrent, ReservationsOwned, BannerTypes
  <2> QED
    BY <2>1, <2>2
<1>8. NotFromTheFuture'
  <2> SUFFICES ASSUME NEW q \in Delivering'
               PROVE  since'[q] <= epoch'[session[q]]
    BY <1>0 DEF NotFromTheFuture
  <2>0. q \in Requests /\ session[q] \in Sessions /\ epoch[session[q]] \in Nat
        /\ since[q] \in Nat
    BY <1>2 DEF BannerTypes, Delivering
  <2>1. epoch'[session[q]] >= epoch[session[q]]
    BY <2>0, <1>3
  <2>2. CASE q = r
    BY <2>0, <2>1, <2>2, <1>4
  <2>3. CASE q # r
    BY <2>0, <2>1, <2>3, <1>1, <1>2, <1>4 DEF NotFromTheFuture, BannerTypes
  <2> QED
    BY <2>2, <2>3
<1>9. CurrentKnown'
  <2> SUFFICES ASSUME NEW q \in Delivering', since'[q] = epoch'[session[q]]
               PROVE  owner'[session[q]] = q \/ Has(shown, session[q])
    BY <1>0 DEF CurrentKnown, Has
  <2>0. q \in Requests /\ session[q] \in Sessions /\ epoch[session[q]] \in Nat
        /\ since[q] \in Nat
    BY <1>2 DEF BannerTypes, Delivering
  <2>1. session[q] \notin gone
    <3>1. CASE q = r
      BY <3>1, <2>0, <1>3, <1>4
    <3>2. CASE q # r
      BY <3>2, <2>0, <1>2, <1>3, <1>4 DEF NotFromTheFuture
    <3> QED
      BY <3>1, <3>2
  <2>2. CASE q = r
    BY <2>0, <2>1, <2>2, <1>0
  <2>3. CASE q # r
    <3>1. owner[session[q]] = q \/ Has(shown, session[q])
      BY <2>0, <2>1, <2>3, <1>2, <1>3, <1>4 DEF CurrentKnown
    <3> QED
      BY <3>1, <2>0, <2>1, <1>0
  <2> QED
    BY <2>2, <2>3
<1>10. \A q \in Delivering : session[q] = s => since[q] # epoch[s]
  BY <1>0, <1>2 DEF CurrentKnown, Delivering
<1>11. OneDelivery'
  BY <1>0, <1>2, <1>4, <1>10 DEF OneDelivery, Delivering
<1> QED
  BY <1>1, <1>6, <1>7, <1>8, <1>9, <1>11
-----------------------------------------------------------------------------
(* The remaining steps of a delivery change one request and one session.   *)

(* Giving a reservation back after a failed delivery, or finding that it   *)
(* was evicted: the request delivers no longer.                            *)
LEMMA NotSentKeepsInv ==
    ASSUME BannerInv, NEW r \in Requests, NotSent(r)
    PROVE  BannerInv'
<1> DEFINE s == session[r]
<1> USE NobodyAssumption DEF BannerInv
<1>0. /\ banner[r] = "sending" /\ s \in Sessions
      /\ session' = session /\ shown' = shown /\ epoch' = epoch
      /\ banner' = [banner EXCEPT ![r] = "skipped"]
      /\ since' = [since EXCEPT ![r] = 0]
      /\ owner' = IF owner[s] = r THEN [owner EXCEPT ![s] = Nobody] ELSE owner
  BY DEF NotSent, ReleaseBanner, Unreserve, BannerTypes
<1>1. BannerTypes'
  BY <1>0 DEF BannerTypes
<1>2. Delivering' = Delivering \ {r} /\ r \in Delivering
  BY <1>0 DEF BannerTypes, Delivering
<1>3. \A q \in Requests : q # r => since'[q] = since[q] /\ banner'[q] = banner[q]
  BY <1>0 DEF BannerTypes
<1>4. \A t \in Sessions : owner'[t] # Nobody => owner'[t] = owner[t] /\ owner[t] # r
  BY <1>0 DEF BannerTypes, ReservationsOwned
<1>5. ReservationsOwned'
  BY <1>0, <1>3, <1>4 DEF ReservationsOwned, BannerTypes, Has
<1>6. OwnersCurrent'
  BY <1>0, <1>3, <1>4 DEF OwnersCurrent, BannerTypes
<1>7. NotFromTheFuture'
  BY <1>0, <1>2, <1>3 DEF NotFromTheFuture, Delivering
<1>8. CurrentKnown'
  <2> SUFFICES ASSUME NEW q \in Delivering', since'[q] = epoch[session[q]]
               PROVE  owner'[session[q]] = q \/ Has(shown, session[q])
    BY <1>0 DEF CurrentKnown, Has
  <2>1. q \in Delivering /\ q \in Requests /\ q # r /\ session[q] \in Sessions
    BY <1>2 DEF Delivering, BannerTypes
  <2>2. owner[session[q]] = q \/ Has(shown, session[q])
    BY <2>1, <1>3 DEF CurrentKnown
  <2> QED
    BY <2>1, <2>2, <1>0 DEF BannerTypes
<1>9. OneDelivery'
  BY <1>0, <1>2, <1>3 DEF OneDelivery, Delivering
<1> QED
  BY <1>1, <1>5, <1>6, <1>7, <1>8, <1>9

(* The owner's card is counted as shown; a delivery whose reservation was  *)
(* evicted leaves no trace.                                                *)
LEMMA CommitKeepsInv ==
    ASSUME BannerInv, NEW r \in Requests, Commit(r)
    PROVE  BannerInv'
<1> DEFINE s == session[r]
           order == Append(shown, s)
           gone == Evicted(order, MaxRemembered)
<1> USE NobodyAssumption DEF BannerInv
<1>0. /\ banner[r] = "written" /\ s \in Sessions
      /\ session' = session /\ since' = since
      /\ banner' = [banner EXCEPT ![r] = "finished"]
  BY DEF Commit, BannerTypes
<1>1. Delivering' = Delivering
  BY <1>0 DEF BannerTypes, Delivering
<1>2. \A q \in Requests : q # r => banner'[q] = banner[q]
  BY <1>0 DEF BannerTypes
<1>3. CASE CanCommit(r)
  <2>0. /\ owner[s] = r
        /\ owner' = [owner EXCEPT ![s] = Nobody]
        /\ shown' = Trim(order, MaxRemembered)
        /\ epoch' = [t \in Sessions |-> epoch[t] + IF t \in gone THEN 1 ELSE 0]
    BY <1>3 DEF Commit, CanCommit, Unreserve, NextEpoch
  <2>1. /\ shown' \in Seq(Sessions)
        /\ \A t : Has(shown', t) => Has(shown, t) \/ t = s
        /\ \A t : Has(shown, t) \/ t = s => Has(shown', t) \/ t \in gone
        /\ \A t \in gone : Has(shown, t) \/ t = s
    BY <1>0, <2>0, TrimKeeps, LimitsAssumption DEF BannerTypes
  <2> HIDE DEF gone, order
  <2>2. BannerTypes'
    BY <1>0, <2>0, <2>1 DEF BannerTypes
  <2>3. \A t \in Sessions : owner'[t] # Nobody =>
          owner'[t] = owner[t] /\ owner[t] # r /\ t # s
    BY <1>0, <2>0 DEF BannerTypes, ReservationsOwned
  <2>4. \A t \in Sessions :
          epoch'[t] = IF t \in gone THEN epoch[t] + 1 ELSE epoch[t]
    BY <2>0 DEF BannerTypes
  <2>5. ReservationsOwned'
    <3> SUFFICES ASSUME NEW t \in Sessions, owner'[t] # Nobody
                 PROVE  /\ session[owner'[t]] = t
                        /\ banner'[owner'[t]] \in {"sending", "written"}
                        /\ ~Has(shown', t)
      BY <1>0 DEF ReservationsOwned, Has
    <3> QED
      BY <1>2, <2>1, <2>3 DEF ReservationsOwned, BannerTypes
  <2>6. OwnersCurrent'
    <3> SUFFICES ASSUME NEW t \in Sessions, owner'[t] # Nobody
                 PROVE  since[owner'[t]] = epoch'[t]
      BY <1>0 DEF OwnersCurrent
    <3>1. t \notin gone
      BY <2>1, <2>3 DEF ReservationsOwned
    <3> QED
      BY <3>1, <2>3, <2>4 DEF OwnersCurrent
  <2>7. NotFromTheFuture'
    <3> SUFFICES ASSUME NEW q \in Delivering
                 PROVE  since[q] <= epoch'[session[q]]
      BY <1>0, <1>1 DEF NotFromTheFuture
    <3>1. /\ session[q] \in Sessions /\ epoch[session[q]] \in Nat
          /\ since[q] \in Nat /\ since[q] <= epoch[session[q]]
      BY DEF NotFromTheFuture, Delivering, BannerTypes
    <3> QED
      BY <3>1, <2>4
  <2>8. CurrentKnown'
    <3> SUFFICES ASSUME NEW q \in Delivering, since[q] = epoch'[session[q]]
                 PROVE  owner'[session[q]] = q \/ Has(shown', session[q])
      BY <1>0, <1>1 DEF CurrentKnown, Has
    <3>1. /\ q \in Requests /\ session[q] \in Sessions /\ epoch[session[q]] \in Nat
          /\ since[q] \in Nat /\ since[q] <= epoch[session[q]]
      BY DEF NotFromTheFuture, Delivering, BannerTypes
    <3>2. session[q] \notin gone
      BY <3>1, <2>4
    <3>3. owner[session[q]] = q \/ Has(shown, session[q])
      BY <3>1, <3>2, <2>4 DEF CurrentKnown
    <3> QED
      BY <3>1, <3>2, <3>3, <2>0, <2>1 DEF BannerTypes
  <2>9. OneDelivery'
    BY <1>0, <1>1 DEF OneDelivery
  <2> QED
    BY <2>2, <2>5, <2>6, <2>7, <2>8, <2>9
<1>4. CASE ~CanCommit(r)
  <2>0. /\ owner[s] # r
        /\ shown' = shown /\ epoch' = epoch /\ owner' = owner
    BY <1>4, <1>0 DEF Commit, CanCommit, ReleaseBanner, ReservationsOwned
  <2>1. BannerTypes'
    BY <1>0, <2>0 DEF BannerTypes
  <2>2. \A t \in Sessions : owner[t] # r
    BY <1>0, <2>0 DEF ReservationsOwned, BannerTypes
  <2>3. ReservationsOwned'
    BY <1>0, <1>2, <2>0, <2>2 DEF ReservationsOwned, BannerTypes, Has
  <2>4. OwnersCurrent' /\ NotFromTheFuture' /\ OneDelivery'
    BY <1>0, <1>1, <2>0 DEF OwnersCurrent, NotFromTheFuture, OneDelivery
  <2>5. CurrentKnown'
    BY <1>0, <1>1, <2>0 DEF CurrentKnown, Has
  <2> QED
    BY <2>1, <2>3, <2>4, <2>5
<1> QED
  BY <1>3, <1>4

(* The end of the write, a request that finds the banner taken, and the    *)
(* steps of the ledgers leave reservations, cards and epochs alone.        *)
LEMMA OthersKeepInv ==
    ASSUME BannerInv,
           \/ \E r \in Requests : Written(r) \/ Skip(r)
           \/ LedgerStep
           \/ UNCHANGED vars
    PROVE  BannerInv'
<1> USE NobodyAssumption DEF BannerInv
<1>1. /\ session' = session /\ owner' = owner /\ shown' = shown
      /\ epoch' = epoch /\ since' = since
  BY DEF Written, Skip, LedgerStep, Tick, TakeLedger, AddTool, vars, bannerVars
<1>2. \/ \E r \in Requests :
           \/ banner[r] = "sending" /\ banner' = [banner EXCEPT ![r] = "written"]
           \/ banner[r] = "none" /\ banner' = [banner EXCEPT ![r] = "skipped"]
      \/ banner' = banner
  BY DEF Written, Skip, LedgerStep, Tick, TakeLedger, AddTool, vars, bannerVars
<1>3. Delivering' = Delivering
  <2>1. \A q \in Requests : q \in Delivering' <=> q \in Delivering
    BY <1>2 DEF Delivering, BannerTypes
  <2> QED
    BY <2>1 DEF Delivering
<1>4. \A r \in Requests : banner[r] \in {"sending", "written"} =>
        banner'[r] \in {"sending", "written"}
  BY <1>2 DEF BannerTypes
<1>5. BannerTypes'
  BY <1>1, <1>2 DEF BannerTypes
<1>6. ReservationsOwned'
  BY <1>1, <1>4 DEF ReservationsOwned, BannerTypes, Has
<1>7. OwnersCurrent' /\ NotFromTheFuture' /\ OneDelivery'
  BY <1>1, <1>3 DEF OwnersCurrent, NotFromTheFuture, OneDelivery
<1>8. CurrentKnown'
  BY <1>1, <1>3 DEF CurrentKnown, Has
<1> QED
  BY <1>5, <1>6, <1>7, <1>8
-----------------------------------------------------------------------------
LEMMA BannerInvKept == BannerInv /\ [Next]_vars => BannerInv'
BY ReserveKeepsInv, NotSentKeepsInv, CommitKeepsInv, OthersKeepInv DEF Next, BannerStep

LEMMA BannerInvHolds == Spec => []BannerInv
BY BannerInit, BannerInvKept, PTL DEF Spec

(* The startup card is delivered once per session and epoch, whatever the  *)
(* order of reservations, deliveries, failures and evictions.              *)
THEOREM BannerShownOnce == Spec => []BannerOnce
<1>1. BannerInv => BannerOnce
  BY DEF BannerInv, BannerOnce, OneDelivery, Delivering
<1> QED
  BY BannerInvHolds, <1>1, PTL

(* A reservation is always held by a request of that session which is      *)
(* still delivering: none outlives its request's attempt.                  *)
THEOREM NoReservationLeaks == Spec => []ReservationsOwned
<1>1. BannerInv => ReservationsOwned
  BY DEF BannerInv
<1> QED
  BY BannerInvHolds, <1>1, PTL

-----------------------------------------------------------------------------
(* The ledgers.  The Map is in the order of the last uses, its entries say *)
(* what the history says, and an entry at the head that has to go has as   *)
(* many sessions behind it as the Map may hold.                            *)

Entry == [session : Sessions, ledger : Nat, expiresAt : Nat]

LedgerTypes ==
    /\ session \in [Requests -> Sessions]
    /\ now \in Nat
    /\ ledgers \in Seq(Entry)
    /\ size \in Seq(Nat)
    /\ held \in [Requests -> Nat \cup {Waiting, Refused}]
    /\ lastUse \in [Sessions -> [ledger : Nat, at : Nat, turn : Nat]]

Served == {q \in Requests : held[q] # Waiting}
Later(t, use) == {u \in Sessions : use[u].turn > use[t].turn}

TurnsKnown == \A t \in Sessions : lastUse[t].turn <= Cardinality(Served)

EntryKnown(e, use) ==
    /\ e.ledger = use[e.session].ledger
    /\ e.expiresAt = use[e.session].at + TTL

EntriesKnown == \A i \in DOMAIN ledgers : EntryKnown(ledgers[i], lastUse)

Behind(q, use) ==
    \A i, j \in DOMAIN q : i < j => use[q[i].session].turn < use[q[j].session].turn

LedgerInv ==
    /\ LedgerTypes
    /\ TurnsKnown
    /\ EntriesKnown
    /\ Behind(ledgers, lastUse)
    /\ SameLedger

LEMMA LedgersInit == Init => LedgerInv
<1> SUFFICES ASSUME Init PROVE LedgerInv
  OBVIOUS
<1>1. /\ session \in [Requests -> Sessions] /\ now = 0 /\ ledgers = <<>> /\ size = <<>>
      /\ held = [r \in Requests |-> Waiting] /\ lastUse = [s \in Sessions |-> NeverUsed]
  BY DEF Init
<1>2. NeverUsed \in [ledger : Nat, at : Nat, turn : Nat] /\ NeverUsed.turn = 0
  BY DEF NeverUsed
<1>3. ledgers \in Seq(Entry) /\ size \in Seq(Nat) /\ DOMAIN ledgers = {}
  BY <1>1, EmptySeq
<1>4. LedgerTypes
  BY <1>1, <1>2, <1>3 DEF LedgerTypes
<1>5. Cardinality(Served) \in Nat
  BY FiniteAssumption, FS_Subset, FS_CardinalityType DEF Served
<1>6. TurnsKnown
  BY <1>1, <1>2, <1>5 DEF TurnsKnown
<1> QED
  BY <1>1, <1>3, <1>4, <1>6 DEF LedgerInv, EntriesKnown, Behind, SameLedger

(* A use of session s that is later than all others. *)
LEMMA LaterGrows ==
  ASSUME LedgerTypes, LedgerTypes', NEW s \in Sessions, NEW t \in Sessions, t # s,
         \A u \in Sessions : u # s => lastUse'[u] = lastUse[u],
         \A u \in Sessions : lastUse[u].turn < lastUse'[s].turn
  PROVE  /\ Later(t, lastUse) \subseteq Later(t, lastUse') /\ s \in Later(t, lastUse')
         /\ Cardinality(Later(t, lastUse)) <= Cardinality(Later(t, lastUse'))
<1>1. \A u \in Sessions : lastUse[u].turn \in Nat /\ lastUse'[u].turn \in Nat
  BY DEF LedgerTypes
<1>2. Later(t, lastUse) \subseteq Later(t, lastUse') /\ s \in Later(t, lastUse')
  BY <1>1 DEF Later
<1>3. IsFiniteSet(Later(t, lastUse'))
  BY FiniteAssumption, FS_Subset DEF Later
<1> QED
  BY <1>2, <1>3, FS_Subset

(* The sessions of the entries behind the first are all later ones.        *)
LEMMA ManyBehind ==
  ASSUME NEW use \in [Sessions -> [ledger : Nat, at : Nat, turn : Nat]],
         NEW q \in Seq(Entry), Behind(q, use), q # <<>>
  PROVE  Cardinality(Later(Head(q).session, use)) >= Len(q) - 1
<1> DEFINE N == 2..Len(q)
           L == Later(Head(q).session, use)
           f == [i \in N |-> q[i].session]
<1>1. Len(q) \in Nat /\ Len(q) >= 1 /\ DOMAIN q = 1..Len(q) /\ Head(q) = q[1]
  BY EmptySeq
<1>2. \A i \in 1..Len(q) : q[i].session \in Sessions /\ use[q[i].session].turn \in Nat
  <2>1. \A i \in 1..Len(q) : q[i] \in Entry
    BY <1>1
  <2>2. \A i \in 1..Len(q) : q[i].session \in Sessions
    BY <2>1 DEF Entry
  <2> QED
    BY <2>2
<1>3. \A i \in N : i \in 1..Len(q) /\ 1 < i /\ 1 \in 1..Len(q)
  BY <1>1
<1>0. \A i, j \in 1..Len(q) : i < j => use[q[i].session].turn < use[q[j].session].turn
  BY <1>1 DEF Behind
<1>4. \A i \in N : q[i].session \in L
  <2> SUFFICES ASSUME NEW i \in N PROVE q[i].session \in Later(q[1].session, use)
    BY <1>1
  <2>1. use[q[1].session].turn < use[q[i].session].turn
    BY <1>0, <1>3
  <2>2. q[i].session \in Sessions /\ use[q[i].session].turn \in Nat
            /\ use[q[1].session].turn \in Nat
    BY <1>2, <1>3
  <2> QED
    BY <2>1, <2>2 DEF Later
<1>5. \A i, j \in N : q[i].session = q[j].session => i = j
  <2> SUFFICES ASSUME NEW i \in N, NEW j \in N, i # j
               PROVE  q[i].session # q[j].session
    OBVIOUS
  <2>1. i < j \/ j < i
    BY <1>1
  <2>2. use[q[i].session].turn # use[q[j].session].turn
    BY <1>0, <1>2, <1>3, <2>1
  <2> QED
    BY <2>2
<1>6. f \in [N -> L] /\ \A i, j \in N : f[i] = f[j] => i = j
  BY <1>4, <1>5
<1>7. IsFiniteSet(L) /\ Cardinality(L) \in Nat
  BY FiniteAssumption, FS_Subset, FS_CardinalityType DEF Later
<1>8. Cardinality(N) = Len(q) - 1
  BY <1>1, FS_Interval
<1>9. Cardinality(N) <= Cardinality(L)
  <2> HIDE DEF N, L, f
  <2>1. f \in Injection(N, L)
    BY <1>6 DEF Injection, IsInjective
  <2> QED
    BY <1>7, <2>1, FS_Injection
<1> QED
  BY <1>1, <1>7, <1>8, <1>9

(* What a filter of the Map keeps: types, knowledge and order.             *)
LEMMA PartOfMap ==
  ASSUME NEW q \in Seq(Entry), Behind(q, lastUse), \A i \in DOMAIN q : EntryKnown(q[i], lastUse),
         NEW I \in SUBSET DOMAIN q
  PROVE  LET kept == Subsequence(q, I)
         IN  /\ kept \in Seq(Entry)
             /\ \A i \in DOMAIN kept : EntryKnown(kept[i], lastUse)
             /\ \A i \in DOMAIN kept : \E j \in I : kept[i] = q[j]
             /\ \A j \in I : \E i \in DOMAIN kept : kept[i] = q[j]
             /\ Behind(kept, lastUse)
<1> DEFINE kept == Subsequence(q, I)
<1>1. kept \in Seq(Entry)
  BY SubsequenceType
<1>2. \A i \in DOMAIN kept : \E j \in I : kept[i] = q[j]
  BY SubsequenceElements
<1>3. \A j \in I : \E i \in DOMAIN kept : kept[i] = q[j]
  BY SubsequenceElements
<1>4. \A m, l \in DOMAIN kept : m < l =>
        \E i, j \in I : i < j /\ kept[m] = q[i] /\ kept[l] = q[j]
  BY SubsequenceOrder
<1> HIDE DEF kept
<1>5. \A i \in DOMAIN kept : EntryKnown(kept[i], lastUse)
  BY <1>2
<1>6. Behind(kept, lastUse)
  BY <1>4 DEF Behind
<1> QED
  BY <1>1, <1>2, <1>3, <1>5, <1>6 DEF kept

(* The entries that are neither expired nor of session s.                  *)
Rest(s) == Select(Live, LAMBDA e : e.session # s)

LEMMA RestOfMap ==
  ASSUME LedgerInv, NEW s \in Sessions
  PROVE  /\ Live \in Seq(Entry)
         /\ \A i \in DOMAIN Live : EntryKnown(Live[i], lastUse)
         /\ Rest(s) \in Seq(Entry)
         /\ \A i \in DOMAIN Rest(s) : EntryKnown(Rest(s)[i], lastUse) /\ Rest(s)[i].session # s
         /\ \A i \in DOMAIN ledgers : ledgers[i].expiresAt > now /\ ledgers[i].session # s =>
              \E j \in DOMAIN Rest(s) : Rest(s)[j] = ledgers[i]
         /\ Behind(Rest(s), lastUse)
<1> DEFINE I == {i \in DOMAIN ledgers : ledgers[i].expiresAt > now}
           J == {i \in DOMAIN Live : Live[i].session # s}
<1>1. Live = Subsequence(ledgers, I) /\ I \in SUBSET DOMAIN ledgers
  BY DEF Live, Select
<1>2. /\ Live \in Seq(Entry)
      /\ \A i \in DOMAIN Live : EntryKnown(Live[i], lastUse)
      /\ \A j \in I : \E i \in DOMAIN Live : Live[i] = ledgers[j]
      /\ Behind(Live, lastUse)
  <2>1. ledgers \in Seq(Entry) /\ Behind(ledgers, lastUse) /\ \A i \in DOMAIN ledgers :
            EntryKnown(ledgers[i], lastUse)
    BY DEF LedgerInv, LedgerTypes, EntriesKnown
  <2> HIDE DEF I
  <2> QED
    BY <1>1, <2>1, PartOfMap
<1>3. Rest(s) = Subsequence(Live, J) /\ J \in SUBSET DOMAIN Live
  BY DEF Rest, Select
<1>4. /\ Rest(s) \in Seq(Entry)
      /\ \A i \in DOMAIN Rest(s) : EntryKnown(Rest(s)[i], lastUse)
      /\ \A i \in DOMAIN Rest(s) : \E j \in J : Rest(s)[i] = Live[j]
      /\ \A j \in J : \E i \in DOMAIN Rest(s) : Rest(s)[i] = Live[j]
      /\ Behind(Rest(s), lastUse)
  <2> HIDE DEF J
  <2> QED
    BY <1>2, <1>3, PartOfMap
<1>5. \A i \in DOMAIN Rest(s) : Rest(s)[i].session # s
  BY <1>4
<1>6. ASSUME NEW i \in DOMAIN ledgers, ledgers[i].expiresAt > now, ledgers[i].session # s
      PROVE  \E j \in DOMAIN Rest(s) : Rest(s)[j] = ledgers[i]
  <2>1. PICK k \in DOMAIN Live : Live[k] = ledgers[i]
    BY <1>2, <1>6
  <2>2. k \in J
    BY <2>1, <1>6
  <2> QED
    BY <1>4, <2>1, <2>2
<1> QED
  BY <1>2, <1>4, <1>5, <1>6

(* What getSessionToolLedger leaves: the Map without the expired entries,  *)
(* and at its end the one of the session, with the time of this use.       *)
UseOf(ledger) == [ledger |-> ledger, at |-> now, turn |-> 1 + Cardinality(Served)]
EntryOf(s, ledger) == [session |-> s, ledger |-> ledger, expiresAt |-> now + TTL]

LEMMA LedgerTaken ==
  ASSUME LedgerInv, NEW r \in Requests, TakeLedger(r)
  PROVE  \E ledger \in Nat :
           /\ size' \in Seq(Nat)
           /\ ledgers' = Trim(Append(Rest(session[r]), EntryOf(session[r], ledger)), MaxSessions)
           /\ lastUse' = [lastUse EXCEPT ![session[r]] = UseOf(ledger)]
           /\ held' \in [Requests -> Nat \cup {Waiting, Refused}]
           /\ held[r] = Waiting /\ held'[r] # Waiting
           /\ \A q \in Requests : q # r => held'[q] = held[q]
<1> DEFINE s == session[r]
           own == {e \in Range(Live) : e.session = s}
           sizes == IF own = {} THEN Append(size, 0) ELSE size
           ledger == IF own = {} THEN Len(sizes) ELSE (CHOOSE e \in own : TRUE).ledger
           got == IF sizes[ledger] >= MaxTools THEN Refused ELSE ledger
<1>1. s \in Sessions /\ size \in Seq(Nat) /\ held \in [Requests -> Nat \cup {Waiting, Refused}]
  BY DEF LedgerInv, LedgerTypes
<1>2. /\ held[r] = Waiting
      /\ size' = sizes
      /\ ledgers' = Trim(Touched(s, ledger), MaxSessions)
      /\ held' = [held EXCEPT ![r] = got]
      /\ lastUse' = [lastUse EXCEPT ![s] = UseOf(ledger)]
  BY DEF TakeLedger, UseOf, Served
<1>3. sizes \in Seq(Nat)
  <2>1. Append(size, 0) \in Seq(Nat)
    BY <1>1, AppendProperties
  <2> QED
    BY <1>1, <2>1
<1>4. ledger \in Nat
  <2>1. CASE own = {}
    BY <2>1, <1>3, LenProperties
  <2>2. CASE own # {}
    <3>1. Live \in Seq(Entry)
      BY <1>1, RestOfMap
    <3>2. \A e \in Range(Live) : e \in Entry
      BY <3>1 DEF Range
    <3>3. (CHOOSE e \in own : TRUE) \in Entry
      BY <2>2, <3>2
    <3> HIDE DEF own
    <3> QED
      BY <2>2, <3>3 DEF Entry
  <2> QED
    BY <2>1, <2>2
<1>5. Touched(s, ledger) = Append(Rest(s), EntryOf(s, ledger))
  BY DEF Touched, Rest, EntryOf
<1> HIDE DEF sizes, ledger, own, s
<1>6. got \in Nat \cup {Refused}
  BY <1>4
<1> HIDE DEF got
<1>7. /\ held' \in [Requests -> Nat \cup {Waiting, Refused}]
      /\ held'[r] # Waiting
      /\ \A q \in Requests : q # r => held'[q] = held[q]
  BY <1>1, <1>2, <1>6, MarksAssumption
<1> QED
  BY <1>2, <1>3, <1>4, <1>5, <1>7 DEF s

LEMMA TakeKeepsInv ==
  ASSUME LedgerInv, NEW r \in Requests, TakeLedger(r)
  PROVE  LedgerInv'
<1> DEFINE s == session[r]
           rest == Rest(s)
<1>1. PICK ledger \in Nat :
           /\ size' \in Seq(Nat)
           /\ ledgers' = Trim(Append(rest, EntryOf(s, ledger)), MaxSessions)
           /\ lastUse' = [lastUse EXCEPT ![s] = UseOf(ledger)]
           /\ held' \in [Requests -> Nat \cup {Waiting, Refused}]
           /\ held[r] = Waiting /\ held'[r] # Waiting
           /\ \A q \in Requests : q # r => held'[q] = held[q]
  BY LedgerTaken
<1> DEFINE taken == UseOf(ledger)
           entry == EntryOf(s, ledger)
           all == Append(rest, entry)
<1>2. /\ s \in Sessions /\ session' = session /\ session \in [Requests -> Sessions]
      /\ now' = now /\ now \in Nat /\ TTL \in Nat /\ MaxSessions \in Nat \ {0}
      /\ lastUse \in [Sessions -> [ledger : Nat, at : Nat, turn : Nat]]
  BY LimitsAssumption DEF TakeLedger, LedgerInv, LedgerTypes
<1>3. IsFiniteSet(Served) /\ Cardinality(Served) \in Nat
      /\ Cardinality(Served') = Cardinality(Served) + 1
  <2>1. IsFiniteSet(Served)
    BY FiniteAssumption, FS_Subset DEF Served
  <2>2. Served' = Served \cup {r} /\ r \notin Served
    BY <1>1 DEF Served
  <2>3. Cardinality(Served \cup {r}) = Cardinality(Served) + 1
    BY <2>1, <2>2, FS_AddElement
  <2> QED
    BY <2>1, <2>2, <2>3, FS_CardinalityType
<1>4. /\ taken \in [ledger : Nat, at : Nat, turn : Nat]
      /\ taken.turn = 1 + Cardinality(Served) /\ taken.ledger = ledger /\ taken.at = now
  BY <1>2, <1>3 DEF UseOf
<1>5. /\ entry \in Entry /\ entry.session = s
      /\ entry.ledger = ledger /\ entry.expiresAt = now + TTL
  BY <1>2 DEF EntryOf, Entry
<1>6. /\ rest \in Seq(Entry)
      /\ \A i \in DOMAIN rest : EntryKnown(rest[i], lastUse) /\ rest[i].session # s
      /\ \A i \in DOMAIN ledgers : ledgers[i].expiresAt > now /\ ledgers[i].session # s =>
           \E j \in DOMAIN rest : rest[j] = ledgers[i]
      /\ Behind(rest, lastUse)
  BY <1>2, RestOfMap
<1> HIDE DEF rest, taken, entry, s
<1>7. lastUse'[s] = taken /\ \A t \in Sessions : t # s => lastUse'[t] = lastUse[t]
  BY <1>1, <1>2 DEF taken
<1>8. \A t \in Sessions : lastUse[t].turn < taken.turn /\ lastUse[t].turn \in Nat
  BY <1>2, <1>3, <1>4 DEF LedgerInv, TurnsKnown
<1>9. /\ all \in Seq(Entry) /\ Len(rest) \in Nat
      /\ Len(all) = Len(rest) + 1 /\ DOMAIN all = 1..Len(rest) + 1 /\ DOMAIN rest = 1..Len(rest)
      /\ \A i \in DOMAIN rest : all[i] = rest[i]
      /\ all[Len(rest) + 1] = entry
  BY <1>5, <1>6
<1> HIDE DEF all
<1>10. \A i \in DOMAIN rest : rest[i].session \in Sessions
  <2>1. \A i \in DOMAIN rest : rest[i] \in Entry
    BY <1>6
  <2> QED
    BY <2>1 DEF Entry
<1>11. \A i \in DOMAIN all : EntryKnown(all[i], lastUse')
  <2> SUFFICES ASSUME NEW i \in DOMAIN all
               PROVE  /\ all[i].ledger = lastUse'[all[i].session].ledger
                      /\ all[i].expiresAt = lastUse'[all[i].session].at + TTL
    BY DEF EntryKnown
  <2>1. CASE i \in DOMAIN rest
    BY <2>1, <1>6, <1>7, <1>9, <1>10 DEF EntryKnown
  <2>2. CASE i = Len(rest) + 1
    BY <2>2, <1>4, <1>5, <1>7, <1>9
  <2> QED
    BY <2>1, <2>2, <1>9
<1>12. \A i, j \in DOMAIN all : i < j =>
           lastUse'[all[i].session].turn < lastUse'[all[j].session].turn
  <2> SUFFICES ASSUME NEW i \in DOMAIN all, NEW j \in DOMAIN all, i < j
               PROVE  lastUse'[all[i].session].turn < lastUse'[all[j].session].turn
    OBVIOUS
  <2>1. i \in DOMAIN rest
    BY <1>9
  <2>2. all[i] = rest[i] /\ rest[i].session # s /\ rest[i].session \in Sessions
    BY <2>1, <1>6, <1>9, <1>10
  <2>3. CASE j \in DOMAIN rest
    BY <2>1, <2>2, <2>3, <1>6, <1>7, <1>9, <1>10 DEF Behind
  <2>4. CASE j = Len(rest) + 1
    BY <2>2, <2>4, <1>5, <1>7, <1>8, <1>9
  <2> QED
    BY <2>3, <2>4, <1>9
<1>13. /\ ledgers' \in Seq(Entry)
       /\ \/ ledgers' = all
          \/ /\ ledgers' = Tail(all) /\ Len(all) > MaxSessions
             /\ Head(all) = all[1]
             /\ DOMAIN ledgers' = 1..Len(rest)
             /\ \A i \in DOMAIN ledgers' : ledgers'[i] = all[i + 1]
  <2>1. ledgers' = Trim(all, MaxSessions)
    BY <1>1 DEF all, entry
  <2>2. CASE Len(all) > MaxSessions
    <3>1. ledgers' = Tail(all) /\ all # <<>>
      BY <2>1, <2>2, <1>2, <1>9, EmptySeq DEF Trim
    <3>2. /\ Tail(all) \in Seq(Entry) /\ Len(Tail(all)) = Len(rest)
          /\ \A i \in 1..Len(Tail(all)) : Tail(all)[i] = all[i + 1]
      BY <3>1, <1>9, HeadTailProperties
    <3>3. Head(all) = all[1] /\ DOMAIN Tail(all) = 1..Len(rest)
      BY <3>2, <1>9
    <3> QED
      BY <3>1, <3>2, <3>3, <2>2
  <2>3. CASE ~(Len(all) > MaxSessions)
    BY <2>1, <2>3, <1>9 DEF Trim
  <2> QED
    BY <2>2, <2>3
<1>14. LedgerTypes'
  <2>1. lastUse' \in [Sessions -> [ledger : Nat, at : Nat, turn : Nat]]
    BY <1>1, <1>2, <1>4 DEF taken
  <2> QED
    BY <2>1, <1>1, <1>2, <1>13 DEF LedgerTypes
<1>15. TurnsKnown'
  <2> SUFFICES ASSUME NEW t \in Sessions
               PROVE  lastUse'[t].turn <= Cardinality(Served')
    BY DEF TurnsKnown
  <2>1. CASE t = s
    BY <2>1, <1>3, <1>4, <1>7
  <2>2. CASE t # s
    BY <2>2, <1>3, <1>4, <1>7, <1>8
  <2> QED
    BY <2>1, <2>2
<1>16. EntriesKnown' /\ Behind(ledgers, lastUse)'
  <2>1. CASE ledgers' = all
    BY <2>1, <1>11, <1>12 DEF EntriesKnown, Behind
  <2>2. CASE ledgers' # all
    <3>1. \A i \in DOMAIN ledgers' : i \in Nat /\ i + 1 \in DOMAIN all /\ ledgers'[i] = all[i + 1]
      BY <2>2, <1>9, <1>13
    <3>2. EntriesKnown'
      BY <3>1, <1>11 DEF EntriesKnown
    <3>3. Behind(ledgers, lastUse)'
      BY <3>1, <1>12 DEF Behind
    <3> QED
      BY <3>2, <3>3
  <2> QED
    BY <2>1, <2>2
<1>17. SameLedger'
  <2> SUFFICES ASSUME NEW t \in Sessions, lastUse'[t] # NeverUsed,
                      now < lastUse'[t].at + TTL, Cardinality(Later(t, lastUse')) < MaxSessions
               PROVE  \E i \in DOMAIN ledgers' :
                        ledgers'[i].session = t /\ ledgers'[i].ledger = lastUse'[t].ledger
    BY <1>2 DEF SameLedger, Later, Range
  <2>1. \E i \in DOMAIN all : all[i].session = t
    <3>1. CASE t = s
      BY <3>1, <1>5, <1>9
    <3>2. CASE t # s
      <4>1. /\ lastUse[t] # NeverUsed /\ now < lastUse[t].at + TTL
            /\ Cardinality(Later(t, lastUse)) < MaxSessions
        <5>1. Cardinality(Later(t, lastUse)) <= Cardinality(Later(t, lastUse'))
          BY <3>2, <1>2, <1>7, <1>8, <1>14, LaterGrows DEF LedgerInv
        <5>2. Cardinality(Later(t, lastUse)) \in Nat /\ Cardinality(Later(t, lastUse')) \in Nat
          BY FiniteAssumption, FS_Subset, FS_CardinalityType DEF Later
        <5> QED
          BY <5>1, <5>2, <3>2, <1>2, <1>7
      <4>2. PICK i \in DOMAIN ledgers : ledgers[i].session = t
        BY <4>1 DEF LedgerInv, SameLedger, Later, Range
      <4>3. ledgers[i].expiresAt > now
        BY <4>1, <4>2 DEF LedgerInv, EntriesKnown, EntryKnown
      <4> QED
        BY <4>2, <4>3, <3>2, <1>6, <1>9
    <3> QED
      BY <3>1, <3>2
  <2>2. PICK i \in DOMAIN all : all[i].session = t
    BY <2>1
  <2>3. CASE ledgers' = all
    BY <2>2, <2>3, <1>11 DEF EntryKnown
  <2>4. CASE ledgers' # all
    <3>1. /\ ledgers' = Tail(all) /\ Len(all) > MaxSessions /\ Head(all) = all[1]
          /\ DOMAIN ledgers' = 1..Len(rest)
          /\ \A j \in DOMAIN ledgers' : ledgers'[j] = all[j + 1]
      BY <2>4, <1>13
    <3>2. i # 1
      <4>1. SUFFICES ASSUME i = 1 PROVE FALSE
        OBVIOUS
      <4>2. Cardinality(Later(Head(all).session, lastUse')) >= Len(all) - 1
        <5>1. Behind(all, lastUse')
          BY <1>12 DEF Behind
        <5>2. all # <<>> /\ all \in Seq(Entry)
          BY <1>9, EmptySeq
        <5>3. lastUse' \in [Sessions -> [ledger : Nat, at : Nat, turn : Nat]]
          BY <1>14 DEF LedgerTypes
        <5> HIDE DEF LedgerInv
        <5> QED
          BY <5>1, <5>2, <5>3, ManyBehind
      <4>3. Head(all).session = t
        BY <4>1, <3>1, <2>2
      <4>4. Cardinality(Later(t, lastUse')) >= Len(all) - 1
        BY <4>2, <4>3
      <4>5. Cardinality(Later(t, lastUse')) \in Nat
        BY FiniteAssumption, FS_Subset, FS_CardinalityType DEF Later
      <4> QED
        BY <4>4, <4>5, <3>1, <1>2, <1>9
    <3>3. i - 1 \in DOMAIN ledgers' /\ ledgers'[i - 1] = all[i]
      BY <3>1, <3>2, <2>2, <1>9
    <3> QED
      BY <3>3, <2>2, <1>11 DEF EntryKnown
  <2> QED
    BY <2>3, <2>4
<1> QED
  BY <1>14, <1>15, <1>16, <1>17 DEF LedgerInv

(* A loop that records a call changes the size of its ledger, and nothing  *)
(* of the Map; that the ledger may have left the Map does not matter.      *)
LEMMA AddKeepsInv ==
  ASSUME LedgerInv, NEW r \in Requests, AddTool(r)
  PROVE  LedgerInv'
<1>1. /\ size' = [size EXCEPT ![held[r]] = @ + 1]
      /\ session' = session /\ now' = now /\ ledgers' = ledgers
      /\ held' = held /\ lastUse' = lastUse
  BY DEF AddTool
<1>2. size \in Seq(Nat)
  BY DEF LedgerInv, LedgerTypes
<1>3. size' \in Seq(Nat)
  <2>1. Len(size) \in Nat /\ size \in [1..Len(size) -> Nat]
    BY <1>2
  <2>2. \A i \in 1..Len(size) : size'[i] \in Nat
    BY <1>1, <2>1
  <2>3. size' = [i \in 1..Len(size) |-> size'[i]]
    BY <1>1, <2>1
  <2>4. size' \in [1..Len(size) -> Nat]
    BY <2>2, <2>3
  <2> QED
    BY <2>1, <2>4
<1>4. LedgerTypes'
  BY <1>1, <1>3 DEF LedgerInv, LedgerTypes
<1>5. TurnsKnown' /\ EntriesKnown' /\ Behind(ledgers, lastUse)' /\ SameLedger'
  BY <1>1 DEF LedgerInv, TurnsKnown, Served, EntriesKnown, EntryKnown, SameLedger
<1> QED
  BY <1>4, <1>5 DEF LedgerInv

(* As time passes, fewer sessions are owed their ledger.                   *)
LEMMA TickKeepsInv ==
  ASSUME LedgerInv, Tick
  PROVE  LedgerInv'
<1>1. /\ now' = now + 1 /\ session' = session /\ ledgers' = ledgers /\ size' = size
      /\ held' = held /\ lastUse' = lastUse
  BY DEF Tick
<1>2. LedgerTypes' /\ now \in Nat
  BY <1>1 DEF LedgerInv, LedgerTypes
<1>3. TurnsKnown' /\ EntriesKnown' /\ Behind(ledgers, lastUse)'
  BY <1>1 DEF LedgerInv, TurnsKnown, Served, EntriesKnown, EntryKnown
<1>4. \A t \in Sessions : now' < lastUse[t].at + TTL => now < lastUse[t].at + TTL
  <2>1. \A t \in Sessions : lastUse[t].at + TTL \in Nat
    BY LimitsAssumption DEF LedgerInv, LedgerTypes
  <2> QED
    BY <1>1, <1>2, <2>1
<1>5. SameLedger'
  BY <1>1, <1>4 DEF LedgerInv, SameLedger
<1> QED
  BY <1>2, <1>3, <1>5 DEF LedgerInv

LEMMA BannersKeepLedgers ==
  ASSUME LedgerInv, BannerStep \/ UNCHANGED vars
  PROVE  LedgerInv'
<1>1. /\ session' = session /\ now' = now /\ ledgers' = ledgers /\ size' = size
      /\ held' = held /\ lastUse' = lastUse
  BY DEF BannerStep, Reserve, Skip, Written, NotSent, Commit, vars, ledgerVars
<1> QED
  BY <1>1 DEF LedgerInv, LedgerTypes, TurnsKnown, Served, EntriesKnown, EntryKnown,
     SameLedger

LEMMA LedgerInvKept == LedgerInv /\ [Next]_vars => LedgerInv'
BY TakeKeepsInv, AddKeepsInv, TickKeepsInv, BannersKeepLedgers DEF Next, LedgerStep

LEMMA LedgerInvHolds == Spec => []LedgerInv
BY LedgersInit, LedgerInvKept, PTL DEF Spec

(* A session that was away for less than TTL, and meanwhile overtaken by   *)
(* fewer than MaxSessions others, is in the Map with the ledger it had:    *)
(* an id it has run is not run again.                                      *)
THEOREM LedgerIsKept == Spec => []SameLedger
<1>1. LedgerInv => SameLedger
  BY DEF LedgerInv
<1> QED
  BY LedgerInvHolds, <1>1, PTL

-----------------------------------------------------------------------------
(* The steps of the recovery store *)

Records == [at : 0..MaxClock, value : Contents \cup {None}]
Commands == {"put", "get", "evidence", "save"}
FileWrites == {"temp", "blob", "meta", "new_temp", "new_meta"}
MetaWrites == {"meta", "new_meta"}
Unlinks == {"unlink_meta", "unlink_blob"}
Names ==
    {"put", "get", "evidence", "save", "temp", "blob", "meta", "new_temp", "new_meta",
     "unlink_meta", "unlink_blob", "load", "expired", "forget", "entries", "load_blobs",
     "blobs", "ready", "commit", "set_blob"}

(* A step of an operation. *)
IsStep(s) ==
    /\ s.do \in {"put", "get", "set_blob"} => s.k \in Assets
    /\ s.do = "evidence" => s.k \in Assets /\ s.x \in Contents
    /\ s.do = "save" => s.k \in Recoveries /\ s.x \in Contents
    /\ s.do = "blob" => s.k \in Assets \cap Saved
    /\ s.do \in MetaWrites => s.k \in Saved /\ s.x \in Records
    /\ s.do \in {"temp", "new_temp"} => s.k \in Saved
    /\ s.do = "commit" => s.k \in RS!Ids /\ s.x \in Records
    /\ s.do \in Unlinks => s.k \in RS!Ids
    /\ s.do = "forget" => s.x \subseteq RS!Ids
Steps == [do : Names, k : RS!Ids \cup {None},
          x : Records \cup Contents \cup {None} \cup SUBSET RS!Ids]

(* Which steps may come before a step. *)
Before(do) ==
    IF do \in Unlinks THEN Unlinks
    ELSE IF do \in FileWrites \cup {"commit"} THEN FileWrites
    ELSE IF do = "set_blob" THEN FileWrites \cup {"commit"}
    ELSE IF do = "load" THEN {}
    ELSE Names

Ordered(s) ==
    /\ \A j \in DOMAIN s : \A i \in 1..(j - 1) : s[i].do \in Before(s[j].do)
    /\ \A j \in DOMAIN s :
        /\ s[j].do \in Commands => j = Len(s)
        /\ s[j].do = "commit" => j < Len(s) /\ s[j+1].do \in {"set_blob", "entries"}
        /\ s[j].do = "set_blob" => j < Len(s) /\ s[j+1].do = "entries"
        /\ s[j].do = "commit" /\ s[j].k \in Saved /\ j # 1 =>
             s[j-1].do \in MetaWrites /\ s[j-1].k = s[j].k /\ s[j-1].x = s[j].x
        /\ s[j].do = "set_blob" /\ j # 1 => s[j-1].do = "commit" /\ s[j-1].k = s[j].k
        /\ s[j].do \in MetaWrites => /\ j < Len(s) /\ s[j+1].do = "commit"
                                    /\ s[j+1].k = s[j].k /\ s[j+1].x = s[j].x

(* What an operation may have left to do.                                  *)
IsProgram(s) == s \in Seq(Steps) /\ (\A j \in DOMAIN s : IsStep(s[j])) /\ Ordered(s)

Small == Cardinality(RS!Present(entries)) <= MaxEntries
Clean == ~temps /\ \A k \in blobFiles : entries[k] # None
KeepsEvidence(k, x) == entries[k] # None => (entries[k].value # None => x.value # None)

(* What holds because the step j of s is still to come.                    *)
CommitKnown(s, j) ==
    s[j].do = "commit" =>
        /\ KeepsEvidence(s[j].k, s[j].x)
        /\ j = 1 /\ s[j].k \in Saved => meta[s[j].k] = s[j].x
BlobKnown(s, j) ==
    s[j].do = "set_blob" =>
        /\ j = 1 => entries[s[j].k] # None
        /\ s[j].k \in Saved =>
              s[j].k \in blobFiles \/ \E i \in 1..(j - 1) : s[i].do = "blob" /\ s[i].k = s[j].k
Forgotten(s, j) ==
    /\ s[j].do \in {"unlink_blob", "new_temp", "new_meta"} => known[s[j].k] = None
    /\ s[j].do = "unlink_meta" => entries[s[j].k] = None
ReadyClean(s, j) ==
    s[j].do = "ready" =>
        \/ \E i \in 1..(j - 1) :
              s[i].do = "load_blobs" /\ \A m \in (i + 1)..(j - 1) :
                  s[m].do \in {"blobs", "unlink_blob"}
        \/ Clean /\ \A m \in 1..(j - 1) : s[m].do \in {"blobs", "unlink_blob"}
ReadySmall(s, j) ==
    s[j].do = "ready" =>
        \/ \E i \in 1..(j - 1) :
              /\ s[i].do = "entries"
              /\ \A m \in (i + 1)..(j - 1) : s[m].do \in {"blobs", "unlink_blob", "load_blobs"}
        \/ Small /\ \A m \in 1..(j - 1) : s[m].do \in {"blobs", "unlink_blob", "load_blobs"}
LoadKnown(s, j) == s[j].do = "load" => ~ready

StepFacts(s) ==
    \A j \in DOMAIN s :
        /\ CommitKnown(s, j) /\ BlobKnown(s, j) /\ Forgotten(s, j)
        /\ ReadyClean(s, j) /\ ReadySmall(s, j) /\ LoadKnown(s, j)

Memory ==
    /\ entries \in [RS!Ids -> Records \cup {None}]
    /\ meta \in [RS!Ids -> Records \cup {None}]
    /\ known = [k \in RS!Ids |-> known[k]]
    /\ clock3 \in 0..MaxClock
    /\ RS!TypeOK

(* Memory and disk agree but for the record that is committed next.        *)
OnDisk ==
    /\ \A k \in RS!Present(entries) \cap Saved :
          \/ meta[k] = entries[k]
          \/ steps # <<>> /\ steps[1].do = "commit" /\ steps[1].k = k /\ steps[1].x = meta[k]
    /\ RS!Present(known) \cap Saved \subseteq blobFiles
    /\ RS!Present(known) \subseteq RS!Present(entries)

(* One entry too many, until the next pruning.                             *)
WithinLimit ==
    ready => \/ Small
             \/ /\ Cardinality(RS!Present(entries)) <= MaxEntries + 1
                /\ steps # <<>> /\ steps[1].do \in {"set_blob", "entries"}

(* The inductive invariant of the store.                                   *)
StoreInv ==
    /\ IsProgram(steps) /\ StepFacts(steps)
    /\ Memory /\ OnDisk /\ WithinLimit

(* What is left of a program is one.                                       *)
LEMMA TailProgram ==
  ASSUME NEW s, IsProgram(s), s # <<>>
  PROVE  /\ IsProgram(Tail(s))
         /\ Len(s) \in Nat \ {0} /\ DOMAIN s = 1..Len(s) /\ DOMAIN Tail(s) = 1..(Len(s) - 1)
         /\ Head(s) = s[1] /\ s[1] \in Steps /\ IsStep(s[1])
         /\ \A j \in DOMAIN Tail(s) : j \in Nat \ {0} /\ j + 1 \in DOMAIN s /\ Tail(s)[j] = s[j + 1]
<1>1. /\ Len(s) \in Nat \ {0} /\ DOMAIN s = 1..Len(s) /\ DOMAIN Tail(s) = 1..(Len(s) - 1)
      /\ Head(s) = s[1] /\ s[1] \in Steps /\ IsStep(s[1])
      /\ Tail(s) \in Seq(Steps) /\ Len(Tail(s)) = Len(s) - 1
      /\ \A j \in DOMAIN Tail(s) : j \in Nat \ {0} /\ j + 1 \in DOMAIN s /\ Tail(s)[j] = s[j + 1]
  BY DEF IsProgram
<1>2. \A j \in DOMAIN Tail(s) : IsStep(Tail(s)[j])
  BY <1>1 DEF IsProgram
<1>3. Ordered(s)
  BY DEF IsProgram
<1>4. ASSUME NEW j \in DOMAIN Tail(s), NEW i \in 1..(j - 1)
      PROVE  Tail(s)[i].do \in Before(Tail(s)[j].do)
  <2>1. i + 1 \in 1..(j + 1 - 1) /\ Tail(s)[i] = s[i + 1] /\ Tail(s)[j] = s[j + 1]
            /\ j + 1 \in DOMAIN s
    BY <1>1, <1>4
  <2> QED
    BY <2>1, <1>3 DEF Ordered
<1>5. ASSUME NEW j \in DOMAIN Tail(s)
      PROVE  LET t == Tail(s) IN
        /\ t[j].do \in Commands => j = Len(t)
        /\ t[j].do = "commit" => j < Len(t) /\ t[j+1].do \in {"set_blob", "entries"}
        /\ t[j].do = "set_blob" => j < Len(t) /\ t[j+1].do = "entries"
        /\ t[j].do = "commit" /\ t[j].k \in Saved /\ j # 1 =>
             t[j-1].do \in MetaWrites /\ t[j-1].k = t[j].k /\ t[j-1].x = t[j].x
        /\ t[j].do = "set_blob" /\ j # 1 => t[j-1].do = "commit" /\ t[j-1].k = t[j].k
        /\ t[j].do \in MetaWrites => /\ j < Len(t) /\ t[j+1].do = "commit"
                                    /\ t[j+1].k = t[j].k /\ t[j+1].x = t[j].x
  <2>1. j + 1 \in DOMAIN s /\ j + 1 # 1 /\ Tail(s)[j] = s[j + 1]
    BY <1>1
  <2>2. j + 1 < Len(s) => Tail(s)[j + 1] = s[j + 1 + 1] /\ j < Len(Tail(s))
    BY <1>1
  <2>3. j # 1 => Tail(s)[j - 1] = s[j + 1 - 1]
    BY <1>1
  <2> QED
    BY <1>1, <1>3, <2>1, <2>2, <2>3, SMTT(30) DEF Ordered
<1> QED
  BY <1>1, <1>2, <1>4, <1>5 DEF IsProgram, Ordered

(* So is a program with a step in front that may come before all of its steps. *)
LEMMA ConsProgram ==
  ASSUME NEW s, IsProgram(s), NEW e \in Steps, IsStep(e),
         e.do \notin Commands \cup MetaWrites \cup {"commit", "set_blob"},
         \A j \in DOMAIN s : /\ e.do \in Before(s[j].do)
                             /\ s[j].do \notin MetaWrites \cup {"set_blob", "commit", "load"}
  PROVE  LET t == <<e>> \o s IN
         /\ IsProgram(t) /\ Head(t) = e /\ t[1] = e /\ Tail(t) = s /\ t # <<>>
         /\ DOMAIN t = 1..(Len(s) + 1) /\ DOMAIN s = 1..Len(s) /\ Len(s) \in Nat
         /\ \A j \in DOMAIN s : t[j + 1] = s[j]
         /\ \A j \in DOMAIN t : j # 1 => j - 1 \in DOMAIN s /\ t[j] = s[j - 1]
<1> DEFINE t == <<e>> \o s
<1>1. /\ s \in Seq(Steps) /\ t \in Seq(Steps) /\ Len(t) = Len(s) + 1 /\ Len(s) \in Nat /\ t # <<>>
      /\ DOMAIN t = 1..(Len(s) + 1) /\ DOMAIN s = 1..Len(s) /\ Head(t) = e /\ t[1] = e
      /\ \A j \in DOMAIN s : t[j + 1] = s[j]
      /\ \A j \in DOMAIN t : j # 1 => j - 1 \in DOMAIN s /\ t[j] = s[j - 1]
  BY DEF IsProgram
<1>2. Tail(t) = s
  BY <1>1
<1>3. \A j \in DOMAIN t : IsStep(t[j])
  BY <1>1 DEF IsProgram
<1>4. Ordered(s)
  BY DEF IsProgram
<1>5. ASSUME NEW j \in DOMAIN t, NEW i \in 1..(j - 1)
      PROVE  t[i].do \in Before(t[j].do)
  <2>1. j # 1 /\ j - 1 \in DOMAIN s /\ t[j] = s[j - 1] /\ i \in DOMAIN t
    BY <1>1, <1>5
  <2>2. CASE i = 1
    BY <1>1, <2>1, <2>2
  <2>3. CASE i # 1
    <3>1. i - 1 \in 1..((j - 1) - 1) /\ t[i] = s[i - 1]
      BY <1>1, <2>1, <2>3
    <3> QED
      BY <1>4, <2>1, <3>1 DEF Ordered
  <2> QED
    BY <2>2, <2>3
<1>6. ASSUME NEW j \in DOMAIN t
      PROVE  /\ t[j].do \in Commands => j = Len(t)
             /\ t[j].do # "commit" /\ t[j].do # "set_blob" /\ t[j].do \notin MetaWrites
  <2>1. CASE j = 1
    BY <1>1, <2>1
  <2>2. CASE j # 1
    BY <1>1, <1>4, <2>2 DEF Ordered
  <2> QED
    BY <2>1, <2>2
<1> HIDE DEF t
<1>7. Ordered(t)
  BY <1>5, <1>6 DEF Ordered
<1> QED
  BY <1>1, <1>2, <1>3, <1>7 DEF IsProgram, t

(* What the order of the steps says about the first.                       *)
LEMMA HeadOrder ==
  ASSUME NEW s, IsProgram(s), NEW j \in DOMAIN s, j # 1
  PROVE  /\ s[j].do \in Unlinks => s[1].do \in Unlinks
         /\ s[j].do \in FileWrites \cup {"commit"} => s[1].do \in FileWrites
         /\ s[j].do = "set_blob" => s[1].do \in FileWrites \cup {"commit"}
         /\ s[j].do # "load"
<1>1. 1 \in 1..(j - 1)
  BY DEF IsProgram
<1>2. s[1].do \in Before(s[j].do)
  BY <1>1 DEF IsProgram, Ordered
<1> QED
  BY <1>2 DEF Before, Unlinks, FileWrites

(* A step is taken off: what it must have done for the rest.               *)
LEMMA TailFacts ==
  ASSUME StoreInv, steps # <<>>, steps' = Tail(steps),
         steps[1].do \in FileWrites =>
           entries' = entries /\ known' = known /\ blobFiles \subseteq blobFiles',
         steps[1].do \in MetaWrites => meta'[steps[1].k] = steps[1].x,
         steps[1].do = "blob" => steps[1].k \in blobFiles',
         steps[1].do = "commit" => entries'[steps[1].k] # None /\ blobFiles' = blobFiles,
         steps[1].do \in Unlinks => known' = known /\ entries' = entries,
         steps[1].do = "load_blobs" => Clean',
         steps[1].do = "entries" => Small',
         steps[1].do \in {"blobs", "unlink_blob"} =>
           entries' = entries /\ temps' = temps /\ blobFiles' \subseteq blobFiles,
         steps[1].do = "load_blobs" => entries' = entries
  PROVE  IsProgram(steps') /\ StepFacts(steps)'
<1>1. IsProgram(steps)
  BY DEF StoreInv
<1>2. IsProgram(steps')
  BY <1>1, TailProgram
<1>3. SUFFICES ASSUME NEW j \in DOMAIN steps'
               PROVE  /\ CommitKnown(steps, j)' /\ BlobKnown(steps, j)' /\ Forgotten(steps, j)'
                      /\ ReadyClean(steps, j)' /\ ReadySmall(steps, j)' /\ LoadKnown(steps, j)'
  BY <1>2 DEF StepFacts
<1>4. /\ j \in Nat \ {0} /\ j + 1 \in DOMAIN steps /\ j + 1 # 1 /\ steps'[j] = steps[j + 1]
      /\ DOMAIN steps' = 1..(Len(steps) - 1) /\ DOMAIN steps = 1..Len(steps) /\ Len(steps) \in Nat
      /\ \A i \in DOMAIN steps' : i + 1 \in DOMAIN steps /\ steps'[i] = steps[i + 1]
  BY <1>1, TailProgram
<1>5. /\ CommitKnown(steps, j + 1) /\ BlobKnown(steps, j + 1) /\ Forgotten(steps, j + 1)
      /\ ReadyClean(steps, j + 1) /\ ReadySmall(steps, j + 1) /\ LoadKnown(steps, j + 1)
  BY <1>4 DEF StoreInv, StepFacts
<1>6. /\ steps'[j].do \in Unlinks => steps[1].do \in Unlinks
      /\ steps'[j].do \in FileWrites \cup {"commit"} => steps[1].do \in FileWrites
      /\ steps'[j].do = "set_blob" => steps[1].do \in FileWrites \cup {"commit"}
      /\ steps'[j].do # "load"
  BY <1>1, <1>4, HeadOrder
<1>7. CommitKnown(steps, j)'
  <2>1. SUFFICES ASSUME steps'[j].do = "commit"
                 PROVE  /\ entries'[steps'[j].k] # None =>
                             (entries'[steps'[j].k].value # None => steps'[j].x.value # None)
                        /\ j = 1 /\ steps'[j].k \in Saved => meta'[steps'[j].k] = steps'[j].x
    BY DEF CommitKnown, KeepsEvidence
  <2>2. entries' = entries /\ KeepsEvidence(steps[j + 1].k, steps[j + 1].x)
    BY <1>4, <1>5, <1>6, <2>1 DEF CommitKnown
  <2>3. entries'[steps'[j].k] # None =>
          (entries'[steps'[j].k].value # None => steps'[j].x.value # None)
    BY <1>4, <2>2 DEF KeepsEvidence
  <2>4. ASSUME j = 1, steps'[j].k \in Saved
        PROVE  meta'[steps'[j].k] = steps'[j].x
    <3>1. /\ steps[(j + 1) - 1].do \in MetaWrites
          /\ steps[(j + 1) - 1].k = steps[j + 1].k /\ steps[(j + 1) - 1].x = steps[j + 1].x
      BY <1>1, <1>4, <2>1, <2>4, ZenonT(30) DEF IsProgram, Ordered
    <3>2. (j + 1) - 1 = 1
      BY <2>4
    <3> QED
      BY <1>4, <3>1, <3>2
  <2> QED
    BY <2>3, <2>4
<1>8. BlobKnown(steps, j)'
  <2>1. SUFFICES ASSUME steps'[j].do = "set_blob"
                 PROVE  /\ j = 1 => entries'[steps'[j].k] # None
                        /\ steps'[j].k \in Saved =>
                             \/ steps'[j].k \in blobFiles'
                             \/ \E i \in 1..(j - 1) : steps'[i].do = "blob"
                                    /\ steps'[i].k = steps'[j].k
    BY DEF BlobKnown
  <2>2. ASSUME j = 1
        PROVE  entries'[steps'[j].k] # None
    <3>1. steps[(j + 1) - 1].do = "commit" /\ steps[(j + 1) - 1].k = steps[j + 1].k
      BY <1>1, <1>4, <2>1 DEF IsProgram, Ordered
    <3>2. (j + 1) - 1 = 1
      BY <2>2
    <3> QED
      BY <1>4, <3>1, <3>2
  <2>3. ASSUME steps'[j].k \in Saved
        PROVE  \/ steps'[j].k \in blobFiles'
               \/ \E i \in 1..(j - 1) : steps'[i].do = "blob" /\ steps'[i].k = steps'[j].k
    <3>1. blobFiles \subseteq blobFiles'
      BY <1>6, <2>1
    <3>2. CASE steps[j + 1].k \in blobFiles
      BY <1>4, <3>1, <3>2
    <3>3. ASSUME NEW i \in 1..((j + 1) - 1), steps[i].do = "blob", steps[i].k = steps[j + 1].k
          PROVE  \/ steps'[j].k \in blobFiles'
                 \/ \E m \in 1..(j - 1) : steps'[m].do = "blob" /\ steps'[m].k = steps'[j].k
      <4>1. CASE i = 1
        BY <1>4, <3>3, <4>1
      <4>2. CASE i # 1
        <5>1. i - 1 \in 1..(j - 1) /\ steps'[i - 1] = steps[i]
          BY <1>4, <4>2
        <5> QED
          BY <1>4, <3>3, <5>1
      <4> QED
        BY <4>1, <4>2
    <3> QED
      BY <1>4, <1>5, <2>1, <2>3, <3>2, <3>3 DEF BlobKnown
  <2> QED
    BY <2>2, <2>3
<1>9. Forgotten(steps, j)'
  BY <1>4, <1>5, <1>6 DEF Forgotten, Unlinks, FileWrites
<1>10. ReadyClean(steps, j)'
  <2>1. SUFFICES ASSUME steps'[j].do = "ready"
                 PROVE  \/ \E i \in 1..(j - 1) :
                             /\ steps'[i].do = "load_blobs"
                             /\ \A m \in (i + 1)..(j - 1) :
                                    steps'[m].do \in {"blobs", "unlink_blob"}
                        \/ Clean' /\ \A m \in 1..(j - 1) : steps'[m].do \in {"blobs", "unlink_blob"}
    BY DEF ReadyClean
  <2>2. ASSUME NEW i \in 1..((j + 1) - 1), steps[i].do = "load_blobs",
               \A m \in (i + 1)..((j + 1) - 1) : steps[m].do \in {"blobs", "unlink_blob"}
        PROVE  \/ \E n \in 1..(j - 1) :
                    /\ steps'[n].do = "load_blobs"
                    /\ \A m \in (n + 1)..(j - 1) : steps'[m].do \in {"blobs", "unlink_blob"}
               \/ Clean' /\ \A m \in 1..(j - 1) : steps'[m].do \in {"blobs", "unlink_blob"}
    <3>1. \A m \in i..(j - 1) : m \in DOMAIN steps' /\ m + 1 \in (i + 1)..((j + 1) - 1)
      BY <1>4
    <3>2. \A m \in i..(j - 1) : steps'[m].do \in {"blobs", "unlink_blob"}
      BY <1>4, <2>2, <3>1
    <3>3. CASE i = 1
      BY <2>2, <3>2, <3>3
    <3>4. CASE i # 1
      <4>1. i - 1 \in 1..(j - 1) /\ steps'[i - 1] = steps[i] /\ (i - 1) + 1 = i
        BY <1>4, <3>4
      <4> QED
        BY <2>2, <3>2, <4>1
    <3> QED
      BY <3>3, <3>4
  <2>3. ASSUME Clean, \A m \in 1..((j + 1) - 1) : steps[m].do \in {"blobs", "unlink_blob"}
        PROVE  Clean' /\ \A m \in 1..(j - 1) : steps'[m].do \in {"blobs", "unlink_blob"}
    <3>1. steps[1].do \in {"blobs", "unlink_blob"}
      BY <1>4, <2>3
    <3>2. Clean'
      BY <2>3, <3>1 DEF Clean
    <3>3. \A m \in 1..(j - 1) : m \in DOMAIN steps' /\ m + 1 \in 1..((j + 1) - 1)
      BY <1>4
    <3> QED
      BY <1>4, <2>3, <3>2, <3>3
  <2> QED
    BY <1>4, <1>5, <2>1, <2>2, <2>3 DEF ReadyClean
<1>11. ReadySmall(steps, j)'
  <2>1. SUFFICES ASSUME steps'[j].do = "ready"
                 PROVE  \/ \E i \in 1..(j - 1) :
                             /\ steps'[i].do = "entries"
                             /\ \A m \in (i + 1)..(j - 1) :
                                  steps'[m].do \in {"blobs", "unlink_blob", "load_blobs"}
                        \/ Small' /\ \A m \in 1..(j - 1) :
                             steps'[m].do \in {"blobs", "unlink_blob", "load_blobs"}
    BY DEF ReadySmall
  <2>2. ASSUME NEW i \in 1..((j + 1) - 1), steps[i].do = "entries",
               \A m \in (i + 1)..((j + 1) - 1) :
                   steps[m].do \in {"blobs", "unlink_blob", "load_blobs"}
        PROVE  \/ \E n \in 1..(j - 1) :
                    /\ steps'[n].do = "entries"
                    /\ \A m \in (n + 1)..(j - 1) :
                           steps'[m].do \in {"blobs", "unlink_blob", "load_blobs"}
               \/ Small' /\ \A m \in 1..(j - 1) :
                      steps'[m].do \in {"blobs", "unlink_blob", "load_blobs"}
    <3>1. \A m \in i..(j - 1) : m \in DOMAIN steps' /\ m + 1 \in (i + 1)..((j + 1) - 1)
      BY <1>4
    <3>2. \A m \in i..(j - 1) : steps'[m].do \in {"blobs", "unlink_blob", "load_blobs"}
      BY <1>4, <2>2, <3>1
    <3>3. CASE i = 1
      BY <2>2, <3>2, <3>3
    <3>4. CASE i # 1
      <4>1. i - 1 \in 1..(j - 1) /\ steps'[i - 1] = steps[i] /\ (i - 1) + 1 = i
        BY <1>4, <3>4
      <4> QED
        BY <2>2, <3>2, <4>1
    <3> QED
      BY <3>3, <3>4
  <2>3. ASSUME Small, \A m \in 1..((j + 1) - 1) :
                   steps[m].do \in {"blobs", "unlink_blob", "load_blobs"}
        PROVE  Small' /\ \A m \in 1..(j - 1) :
                   steps'[m].do \in {"blobs", "unlink_blob", "load_blobs"}
    <3>1. steps[1].do \in {"blobs", "unlink_blob", "load_blobs"}
      BY <1>4, <2>3
    <3>2. Small'
      BY <2>3, <3>1 DEF Small, RS!Present
    <3>3. \A m \in 1..(j - 1) : m \in DOMAIN steps' /\ m + 1 \in 1..((j + 1) - 1)
      BY <1>4
    <3> QED
      BY <1>4, <2>3, <3>2, <3>3
  <2> QED
    BY <1>4, <1>5, <2>1, <2>2, <2>3 DEF ReadySmall
<1>12. LoadKnown(steps, j)'
  BY <1>6 DEF LoadKnown
<1> QED
  BY <1>7, <1>8, <1>9, <1>10, <1>11, <1>12

(* Steps are put before the rest: files to remove, or the rest of a sweep. *)
LEMMA PrependFacts ==
  ASSUME StoreInv, steps # <<>>, IsProgram(steps'),
         steps[1].do \in {"forget", "expired", "entries", "blobs"},
         NEW n \in Nat, NEW d \in {0, 1},
         \A j \in DOMAIN steps' :
           /\ j <= n => /\ steps'[j].do \in Unlinks \cup {"forget"}
                        /\ steps'[j].do = "unlink_blob" => known'[steps'[j].k] = None
                        /\ steps'[j].do = "unlink_meta" => entries'[steps'[j].k] = None
           /\ j > n => (j - n) + d \in DOMAIN steps /\ steps'[j] = steps[(j - n) + d],
         steps[1].do = "entries" => d = 0,
         steps[1].do = "blobs" =>
           /\ d = 0 /\ entries' = entries /\ temps' = temps /\ blobFiles' = blobFiles
           /\ \A j \in DOMAIN steps' : j <= n => steps'[j].do = "unlink_blob"
  PROVE  StepFacts(steps)'
<1>1. IsProgram(steps)
  BY DEF StoreInv
<1>2. SUFFICES ASSUME NEW j \in DOMAIN steps'
               PROVE  /\ CommitKnown(steps, j)' /\ BlobKnown(steps, j)' /\ Forgotten(steps, j)'
                      /\ ReadyClean(steps, j)' /\ ReadySmall(steps, j)' /\ LoadKnown(steps, j)'
  BY DEF StepFacts
<1>3. /\ DOMAIN steps' = 1..Len(steps') /\ Len(steps') \in Nat /\ j \in Nat \ {0}
      /\ DOMAIN steps = 1..Len(steps) /\ Len(steps) \in Nat
  BY <1>1 DEF IsProgram
<1>4. CASE j <= n
  <2>1. /\ steps'[j].do \in Unlinks \cup {"forget"}
        /\ steps'[j].do = "unlink_blob" => known'[steps'[j].k] = None
        /\ steps'[j].do = "unlink_meta" => entries'[steps'[j].k] = None
    BY <1>4
  <2> QED
    BY <2>1 DEF CommitKnown, BlobKnown, Forgotten, ReadyClean, ReadySmall, LoadKnown, Unlinks
<1>5. CASE j > n
  <2> DEFINE p == (j - n) + d
  <2>1. p \in DOMAIN steps /\ steps'[j] = steps[p]
    BY <1>5
  <2>2. steps[p].do \notin Unlinks \cup FileWrites \cup {"commit", "set_blob", "load"}
    <3>1. CASE p = 1
      BY <3>1 DEF Unlinks, FileWrites
    <3>2. CASE p # 1
      BY <1>1, <2>1, <3>2, HeadOrder DEF Unlinks, FileWrites
    <3> QED
      BY <3>1, <3>2
  <2>3. /\ CommitKnown(steps, j)' /\ BlobKnown(steps, j)' /\ Forgotten(steps, j)'
        /\ LoadKnown(steps, j)'
    BY <2>1, <2>2 DEF CommitKnown, BlobKnown, Forgotten, LoadKnown, Unlinks, FileWrites
  <2>4. ASSUME NEW i \in 1..(p - 1), i > d
        PROVE  /\ i + n - d \in 1..(j - 1) /\ i + n - d > n /\ steps'[i + n - d] = steps[i]
               /\ \A m \in (i + n - d + 1)..(j - 1) :
                    (m - n) + d \in (i + 1)..(p - 1) /\ steps'[m] = steps[(m - n) + d]
    <3>1. /\ i + n - d \in 1..(j - 1) /\ i + n - d > n /\ (i + n - d - n) + d = i
          /\ i + n - d \in DOMAIN steps'
      BY <1>3, <1>5, <2>4
    <3>2. \A m \in (i + n - d + 1)..(j - 1) :
            m \in DOMAIN steps' /\ m > n /\ (m - n) + d \in (i + 1)..(p - 1)
      BY <1>3, <1>5, <2>4
    <3> QED
      BY <3>1, <3>2
  <2>5. ASSUME steps[1].do = "blobs", NEW S, "unlink_blob" \in S,
               \A m \in 1..(p - 1) : steps[m].do \in S
        PROVE  \A m \in 1..(j - 1) : steps'[m].do \in S
    <3>1. SUFFICES ASSUME NEW m \in 1..(j - 1) PROVE steps'[m].do \in S
      OBVIOUS
    <3>2. m \in DOMAIN steps' /\ d = 0
      BY <1>3, <2>5
    <3>3. CASE m <= n
      BY <2>5, <3>2, <3>3
    <3>4. CASE m > n
      <4>1. (m - n) + d \in 1..(p - 1) /\ steps'[m] = steps[(m - n) + d]
        BY <1>3, <1>5, <3>2, <3>4
      <4> QED
        BY <2>5, <4>1
    <3> QED
      BY <1>3, <3>3, <3>4
  <2>6. ReadyClean(steps, p) /\ ReadySmall(steps, p)
    BY <2>1 DEF StoreInv, StepFacts
  <2> HIDE DEF p
  <2>7. ReadyClean(steps, j)'
    <3>1. SUFFICES ASSUME steps'[j].do = "ready"
                   PROVE  \/ \E i \in 1..(j - 1) :
                               /\ steps'[i].do = "load_blobs"
                               /\ \A m \in (i + 1)..(j - 1) :
                                      steps'[m].do \in {"blobs", "unlink_blob"}
                          \/ Clean' /\ \A m \in 1..(j - 1) :
                                 steps'[m].do \in {"blobs", "unlink_blob"}
      BY DEF ReadyClean
    <3>2. ASSUME NEW i \in 1..(p - 1), steps[i].do = "load_blobs",
                 \A m \in (i + 1)..(p - 1) : steps[m].do \in {"blobs", "unlink_blob"}
          PROVE  \E q \in 1..(j - 1) :
                   /\ steps'[q].do = "load_blobs"
                   /\ \A m \in (q + 1)..(j - 1) : steps'[m].do \in {"blobs", "unlink_blob"}
      <4>1. i > d
        BY <1>3, <3>2, <2>1
      <4>2. /\ i + n - d \in 1..(j - 1) /\ steps'[i + n - d] = steps[i]
            /\ \A m \in (i + n - d + 1)..(j - 1) :
                 (m - n) + d \in (i + 1)..(p - 1) /\ steps'[m] = steps[(m - n) + d]
        BY <2>4, <4>1
      <4> QED
        BY <3>2, <4>2
    <3>3. ASSUME Clean, \A m \in 1..(p - 1) : steps[m].do \in {"blobs", "unlink_blob"}
          PROVE  Clean' /\ \A m \in 1..(j - 1) : steps'[m].do \in {"blobs", "unlink_blob"}
      <4>1. 1 \in 1..(p - 1)
        BY <1>3, <2>1, <3>1
      <4>2. steps[1].do = "blobs"
        BY <3>3, <4>1
      <4>3. Clean'
        BY <3>3, <4>2 DEF Clean
      <4> DEFINE S == {"blobs", "unlink_blob"}
      <4>4. "unlink_blob" \in S /\ \A m \in 1..(p - 1) : steps[m].do \in S
        BY <3>3
      <4> HIDE DEF S
      <4>5. \A m \in 1..(j - 1) : steps'[m].do \in S
        BY <2>5, <4>2, <4>4
      <4> QED
        BY <4>3, <4>5 DEF S
    <3> QED
      BY <2>1, <2>6, <3>1, <3>2, <3>3 DEF ReadyClean
  <2>8. ReadySmall(steps, j)'
    <3>1. SUFFICES ASSUME steps'[j].do = "ready"
                   PROVE  \/ \E i \in 1..(j - 1) :
                               /\ steps'[i].do = "entries"
                               /\ \A m \in (i + 1)..(j - 1) :
                                    steps'[m].do \in {"blobs", "unlink_blob", "load_blobs"}
                          \/ Small' /\ \A m \in 1..(j - 1) :
                               steps'[m].do \in {"blobs", "unlink_blob", "load_blobs"}
      BY DEF ReadySmall
    <3>2. ASSUME NEW i \in 1..(p - 1), steps[i].do = "entries",
                 \A m \in (i + 1)..(p - 1) : steps[m].do \in {"blobs", "unlink_blob", "load_blobs"}
          PROVE  \E q \in 1..(j - 1) :
                   /\ steps'[q].do = "entries"
                   /\ \A m \in (q + 1)..(j - 1) :
                        steps'[m].do \in {"blobs", "unlink_blob", "load_blobs"}
      <4>1. i > d
        BY <1>3, <3>2, <2>1
      <4>2. /\ i + n - d \in 1..(j - 1) /\ steps'[i + n - d] = steps[i]
            /\ \A m \in (i + n - d + 1)..(j - 1) :
                 (m - n) + d \in (i + 1)..(p - 1) /\ steps'[m] = steps[(m - n) + d]
        BY <2>4, <4>1
      <4> QED
        BY <3>2, <4>2
    <3>3. ASSUME Small, \A m \in 1..(p - 1) : steps[m].do \in {"blobs", "unlink_blob", "load_blobs"}
          PROVE  /\ Small'
                 /\ \A m \in 1..(j - 1) : steps'[m].do \in {"blobs", "unlink_blob", "load_blobs"}
      <4>1. 1 \in 1..(p - 1)
        BY <1>3, <2>1, <3>1
      <4>2. steps[1].do = "blobs"
        BY <3>3, <4>1
      <4>3. Small'
        BY <3>3, <4>2 DEF Small, RS!Present
      <4> DEFINE S == {"blobs", "unlink_blob", "load_blobs"}
      <4>4. "unlink_blob" \in S /\ \A m \in 1..(p - 1) : steps[m].do \in S
        BY <3>3
      <4> HIDE DEF S
      <4>5. \A m \in 1..(j - 1) : steps'[m].do \in S
        BY <2>5, <4>2, <4>4
      <4> QED
        BY <4>3, <4>5 DEF S
    <3> QED
      BY <2>1, <2>6, <3>1, <3>2, <3>3 DEF ReadySmall
  <2> QED
    BY <2>3, <2>7, <2>8
<1> QED
  BY <1>3, <1>4, <1>5

(* The programs of the operations, given index by index.                   *)
LEMMA StepNames ==
  ASSUME NEW s \in Seq(Steps)
  PROVE  DOMAIN s = 1..Len(s) /\ \A i \in DOMAIN s : s[i].do \in Names
<1>1. DOMAIN s = 1..Len(s) /\ \A i \in DOMAIN s : s[i] \in Steps
  OBVIOUS
<1> QED
  BY <1>1 DEF Steps

LEMMA BeforeIs ==
  ASSUME NEW do
  PROVE  /\ do \in FileWrites \cup {"commit"} => Before(do) = FileWrites
         /\ do = "set_blob" => Before(do) = FileWrites \cup {"commit"}
         /\ do = "load" => Before(do) = {}
         /\ do \notin Unlinks \cup FileWrites \cup {"commit", "set_blob", "load"} =>
                Before(do) = Names
BY DEF Before, Unlinks, FileWrites

LEMMA PutSaved ==
  ASSUME NEW k \in Assets \cap Saved, NEW rec \in Records, NEW new \in BOOLEAN,
         NEW s \in Seq(Steps), Len(s) = 8,
         s[1].do = "temp", s[1].k = k, s[2].do = "blob", s[2].k = k,
         s[3].do = (IF new THEN "new_temp" ELSE "temp"), s[3].k = k,
         s[4].do = (IF new THEN "new_meta" ELSE "meta"), s[4].k = k, s[4].x = rec,
         s[5].do = "commit", s[5].k = k, s[5].x = rec,
         s[6].do = "set_blob", s[6].k = k, s[7].do = "entries", s[8].do = "blobs"
  PROVE  IsProgram(s)
<1>1. DOMAIN s = 1..8 /\ \A i \in 1..8 : s[i].do \in Names
  BY StepNames
<1>2. ASSUME NEW j \in DOMAIN s PROVE IsStep(s[j])
  BY <1>1, <1>2 DEF IsStep, FileWrites, MetaWrites, Unlinks, RS!Ids
<1>3. ASSUME NEW j \in DOMAIN s, NEW i \in 1..(j - 1)
      PROVE  s[i].do \in Before(s[j].do)
  BY <1>1, <1>3, BeforeIs DEF FileWrites, Unlinks, Commands
<1> QED
  BY <1>1, <1>2, <1>3 DEF IsProgram, Ordered, Commands, MetaWrites

LEMMA PutUnsaved ==
  ASSUME NEW k \in Assets \ Saved, NEW rec \in Records,
         NEW s \in Seq(Steps), Len(s) = 4,
         s[1].do = "commit", s[1].k = k, s[1].x = rec,
         s[2].do = "set_blob", s[2].k = k, s[3].do = "entries", s[4].do = "blobs"
  PROVE  IsProgram(s)
<1>1. DOMAIN s = 1..4 /\ \A i \in 1..4 : s[i].do \in Names
  BY StepNames
<1>2. ASSUME NEW j \in DOMAIN s PROVE IsStep(s[j])
  BY <1>1, <1>2 DEF IsStep, FileWrites, MetaWrites, Unlinks, RS!Ids
<1>3. ASSUME NEW j \in DOMAIN s, NEW i \in 1..(j - 1)
      PROVE  s[i].do \in Before(s[j].do)
  BY <1>1, <1>3, BeforeIs DEF FileWrites, Unlinks, Commands
<1> QED
  BY <1>1, <1>2, <1>3 DEF IsProgram, Ordered, Commands, MetaWrites

LEMMA WriteSaved ==
  ASSUME NEW k \in RS!Ids \cap Saved, NEW rec \in Records,
         NEW s \in Seq(Steps), Len(s) = 4,
         s[1].do = "temp", s[1].k = k, s[2].do = "meta", s[2].k = k, s[2].x = rec,
         s[3].do = "commit", s[3].k = k, s[3].x = rec, s[4].do = "entries"
  PROVE  IsProgram(s)
<1>1. DOMAIN s = 1..4 /\ \A i \in 1..4 : s[i].do \in Names
  BY StepNames
<1>2. ASSUME NEW j \in DOMAIN s PROVE IsStep(s[j])
  BY <1>1, <1>2 DEF IsStep, FileWrites, MetaWrites, Unlinks, RS!Ids
<1>3. ASSUME NEW j \in DOMAIN s, NEW i \in 1..(j - 1)
      PROVE  s[i].do \in Before(s[j].do)
  BY <1>1, <1>3, BeforeIs DEF FileWrites, Unlinks, Commands
<1> QED
  BY <1>1, <1>2, <1>3 DEF IsProgram, Ordered, Commands, MetaWrites

LEMMA WriteUnsaved ==
  ASSUME NEW k \in RS!Ids \ Saved, NEW rec \in Records,
         NEW s \in Seq(Steps), Len(s) = 2,
         s[1].do = "commit", s[1].k = k, s[1].x = rec, s[2].do = "entries"
  PROVE  IsProgram(s)
<1>1. DOMAIN s = 1..2 /\ \A i \in 1..2 : s[i].do \in Names
  BY StepNames
<1>2. ASSUME NEW j \in DOMAIN s PROVE IsStep(s[j])
  BY <1>1, <1>2 DEF IsStep, FileWrites, MetaWrites, Unlinks, RS!Ids
<1>3. ASSUME NEW j \in DOMAIN s, NEW i \in 1..(j - 1)
      PROVE  s[i].do \in Before(s[j].do)
  BY <1>1, <1>3, BeforeIs DEF FileWrites, Unlinks, Commands
<1> QED
  BY <1>1, <1>2, <1>3 DEF IsProgram, Ordered, Commands, MetaWrites

LEMMA SweepOnly ==
  ASSUME NEW s \in Seq(Steps), Len(s) = 1,
         s[1].do = "expired"
  PROVE  IsProgram(s)
<1>1. DOMAIN s = 1..1 /\ \A i \in 1..1 : s[i].do \in Names
  BY StepNames
<1>2. ASSUME NEW j \in DOMAIN s PROVE IsStep(s[j])
  BY <1>1, <1>2 DEF IsStep, FileWrites, MetaWrites, Unlinks, RS!Ids
<1>3. ASSUME NEW j \in DOMAIN s, NEW i \in 1..(j - 1)
      PROVE  s[i].do \in Before(s[j].do)
  BY <1>1, <1>3, BeforeIs DEF FileWrites, Unlinks, Commands
<1> QED
  BY <1>1, <1>2, <1>3 DEF IsProgram, Ordered, Commands, MetaWrites

LEMMA SweepCommand ==
  ASSUME NEW s \in Seq(Steps), Len(s) = 2,
         s[1].do = "expired", s[2].do \in Commands, IsStep(s[2])
  PROVE  IsProgram(s)
<1>1. DOMAIN s = 1..2 /\ \A i \in 1..2 : s[i].do \in Names
  BY StepNames
<1>2. ASSUME NEW j \in DOMAIN s PROVE IsStep(s[j])
  BY <1>1, <1>2 DEF IsStep, FileWrites, MetaWrites, Unlinks, RS!Ids
<1>3. ASSUME NEW j \in DOMAIN s, NEW i \in 1..(j - 1)
      PROVE  s[i].do \in Before(s[j].do)
  BY <1>1, <1>3, BeforeIs DEF FileWrites, Unlinks, Commands
<1> QED
  BY <1>1, <1>2, <1>3 DEF IsProgram, Ordered, Commands, MetaWrites

LEMMA LoadOnly ==
  ASSUME NEW s \in Seq(Steps), Len(s) = 7,
         s[1].do = "load", s[2].do = "expired", s[3].do = "entries", s[4].do = "load_blobs",
         s[5].do = "blobs", s[6].do = "ready", s[7].do = "expired"
  PROVE  IsProgram(s)
<1>1. DOMAIN s = 1..7 /\ \A i \in 1..7 : s[i].do \in Names
  BY StepNames
<1>2. ASSUME NEW j \in DOMAIN s PROVE IsStep(s[j])
  BY <1>1, <1>2 DEF IsStep, FileWrites, MetaWrites, Unlinks, RS!Ids
<1>3. ASSUME NEW j \in DOMAIN s, NEW i \in 1..(j - 1)
      PROVE  s[i].do \in Before(s[j].do)
  BY <1>1, <1>3, BeforeIs DEF FileWrites, Unlinks, Commands
<1> QED
  BY <1>1, <1>2, <1>3 DEF IsProgram, Ordered, Commands, MetaWrites

LEMMA LoadCommand ==
  ASSUME NEW s \in Seq(Steps), Len(s) = 8,
         s[1].do = "load", s[2].do = "expired", s[3].do = "entries", s[4].do = "load_blobs",
         s[5].do = "blobs", s[6].do = "ready", s[7].do = "expired", s[8].do \in Commands,
         IsStep(s[8])
  PROVE  IsProgram(s)
<1>1. DOMAIN s = 1..8 /\ \A i \in 1..8 : s[i].do \in Names
  BY StepNames
<1>2. ASSUME NEW j \in DOMAIN s PROVE IsStep(s[j])
  BY <1>1, <1>2 DEF IsStep, FileWrites, MetaWrites, Unlinks, RS!Ids
<1>3. ASSUME NEW j \in DOMAIN s, NEW i \in 1..(j - 1)
      PROVE  s[i].do \in Before(s[j].do)
  BY <1>1, <1>3, BeforeIs DEF FileWrites, Unlinks, Commands
<1> QED
  BY <1>1, <1>2, <1>3 DEF IsProgram, Ordered, Commands, MetaWrites

(* The instance has the sets' operators of its own module.                 *)
LEMMA SameCardinality ==
  ASSUME NEW S
  PROVE  RS!IsFiniteSet(S) = IsFiniteSet(S) /\ RS!Cardinality(S) = Cardinality(S)
<1>1. RS!IsFiniteSet(S) = IsFiniteSet(S)
  BY DEF RS!IsFiniteSet, IsFiniteSet
<1>2. RS!Cardinality(S) = Cardinality(S)
  BY DEF RS!Cardinality, Cardinality
<1> QED
  BY <1>1, <1>2

LEMMA SecondStep ==
  ASSUME NEW s, IsProgram(s), 1 < Len(s)
  PROVE  Tail(s) # <<>> /\ Tail(s)[1] = s[1 + 1]
<1>1. s \in Seq(Steps) /\ Len(s) \in Nat /\ s # <<>>
  BY DEF IsProgram
<1>2. DOMAIN Tail(s) = 1..(Len(s) - 1) /\ 1 \in DOMAIN Tail(s)
  BY <1>1, TailProgram
<1>3. Tail(s)[1] = s[1 + 1]
  BY <1>1, <1>2, TailProgram
<1>4. Tail(s) # <<>>
  BY <1>2
<1> QED
  BY <1>3, <1>4

(* What is known of the head of the list.                                  *)
LEMMA HeadKnown ==
  ASSUME StoreInv, steps # <<>>
  PROVE  /\ IsProgram(steps) /\ IsProgram(Tail(steps)) /\ 1 \in DOMAIN steps
                /\ Head(steps) = steps[1]
         /\ steps[1] \in Steps /\ IsStep(steps[1])
         /\ CommitKnown(steps, 1) /\ BlobKnown(steps, 1) /\ Forgotten(steps, 1)
         /\ ReadyClean(steps, 1) /\ ReadySmall(steps, 1) /\ LoadKnown(steps, 1)
<1>1. IsProgram(steps)
  BY DEF StoreInv
<1> QED
  BY <1>1, TailProgram DEF StoreInv, StepFacts

(* Between the writing of a file and its commit memory and disk agree, and *)
(* an entry too many is there only until the next pruning.                 *)
LEMMA Settled ==
  ASSUME StoreInv
  PROVE  /\ steps # <<>> => (steps[1].do # "commit" =>
              \A k \in RS!Present(entries) \cap Saved : meta[k] = entries[k])
         /\ steps = <<>> => \A k \in RS!Present(entries) \cap Saved : meta[k] = entries[k]
         /\ steps # <<>> => (steps[1].do \notin {"set_blob", "entries"} => (ready => Small))
         /\ steps = <<>> => (ready => Small)
BY DEF StoreInv, OnDisk, WithinLimit

LEMMA PresentFinite ==
  ASSUME NEW f \in [RS!Ids -> Records \cup {None}]
  PROVE  /\ IsFiniteSet(RS!Present(f)) /\ Cardinality(RS!Present(f)) \in Nat
         /\ RS!Present(f) = {k \in RS!Ids : f[k] # None}
<1>1. RS!Present(f) \subseteq RS!Ids /\ IsFiniteSet(RS!Ids)
  BY RecoveryAssumption, SameCardinality DEF RS!Present, RS!StoreAssumption, RS!Ids
<1>2. IsFiniteSet(RS!Present(f))
  BY <1>1, FS_Subset
<1> QED
  BY <1>2, FS_CardinalityType DEF RS!Present

(* One lemma per step of an operation: the files, the memory, the loading. *)
LEMMA TempKeeps == StoreInv /\ RS!Temp => StoreInv'
<1> SUFFICES ASSUME StoreInv, RS!Temp PROVE StoreInv'
  OBVIOUS
<1>1. /\ steps # <<>> /\ steps' = Tail(steps) /\ temps' = TRUE
      /\ UNCHANGED <<entries, known, meta, blobFiles, ready, clock3, crashes3>>
      /\ steps[1].do \in {"temp", "new_temp"}
  BY HeadKnown DEF RS!Temp, RS!Doing, RS!Next_, RS!memory, RS!world
<1>2. IsProgram(steps') /\ StepFacts(steps)'
  BY <1>1, TailFacts DEF FileWrites, MetaWrites, Unlinks
<1>3. Memory'
  BY <1>1 DEF StoreInv, Memory, RS!TypeOK, RS!Present
<1>4. OnDisk' /\ WithinLimit'
  BY <1>1, Settled DEF StoreInv, OnDisk, WithinLimit, RS!Present, Small
<1> QED
  BY <1>2, <1>3, <1>4 DEF StoreInv

LEMMA RenameBlobKeeps == StoreInv /\ RS!RenameBlob => StoreInv'
<1> SUFFICES ASSUME StoreInv, RS!RenameBlob PROVE StoreInv'
  OBVIOUS
<1>1. /\ steps # <<>> /\ steps' = Tail(steps) /\ temps' = FALSE
      /\ blobFiles' = blobFiles \cup {steps[1].k}
      /\ UNCHANGED <<entries, known, meta, ready, clock3, crashes3>>
      /\ steps[1].do = "blob" /\ steps[1].k \in Assets \cap Saved
  BY HeadKnown DEF RS!RenameBlob, RS!Doing, RS!Next_, RS!memory, RS!world, RS!K, IsStep
<1>2. IsProgram(steps') /\ StepFacts(steps)'
  BY <1>1, TailFacts DEF FileWrites, MetaWrites, Unlinks
<1>3. Memory'
  BY <1>1 DEF StoreInv, Memory, RS!TypeOK, RS!Present
<1>4. OnDisk' /\ WithinLimit'
  BY <1>1, Settled DEF StoreInv, OnDisk, WithinLimit, RS!Present, Small
<1> QED
  BY <1>2, <1>3, <1>4 DEF StoreInv

LEMMA RenameMetaKeeps == StoreInv /\ RS!RenameMeta => StoreInv'
<1> SUFFICES ASSUME StoreInv, RS!RenameMeta PROVE StoreInv'
  OBVIOUS
<1> DEFINE c == steps[1]
<1>1. /\ steps # <<>> /\ steps' = Tail(steps) /\ temps' = FALSE
      /\ meta' = [meta EXCEPT ![c.k] = c.x]
      /\ UNCHANGED <<entries, known, blobFiles, ready, clock3, crashes3>>
      /\ c.do \in MetaWrites /\ c.k \in Saved /\ c.x \in Records
  BY HeadKnown DEF RS!RenameMeta, RS!Doing, RS!Next_, RS!memory, RS!world, RS!K, IsStep, MetaWrites
<1>2. c.k \in RS!Ids /\ meta \in [RS!Ids -> Records \cup {None}] /\ c.do \in FileWrites
  BY <1>1, RecoveryAssumption DEF RS!StoreAssumption, RS!Ids, StoreInv, Memory, MetaWrites,
     FileWrites
<1>3. IsProgram(steps') /\ StepFacts(steps)'
  BY <1>1, <1>2, TailFacts DEF FileWrites, MetaWrites, Unlinks
<1>4. Memory'
  BY <1>1, <1>2 DEF StoreInv, Memory, RS!TypeOK, RS!Present
<1>5. steps' # <<>> /\ steps'[1].do = "commit" /\ steps'[1].k = c.k /\ steps'[1].x = c.x
  <2>1. 1 < Len(steps) /\ steps[1 + 1].do = "commit" /\ steps[1 + 1].k = c.k /\ steps[1 + 1].x = c.x
    BY <1>1, HeadKnown DEF IsProgram, Ordered
  <2>2. steps' # <<>> /\ steps'[1] = steps[1 + 1]
    BY <1>1, <2>1, HeadKnown, SecondStep
  <2> QED
    BY <2>1, <2>2
<1>6. OnDisk'
  <2>1. ASSUME NEW k \in RS!Present(entries') \cap Saved
        PROVE  meta'[k] = entries'[k] \/ (k = c.k /\ c.x = meta'[k])
    <3>1. c.do # "commit" /\ k \in RS!Ids
      BY <1>1, RecoveryAssumption DEF MetaWrites, RS!StoreAssumption, RS!Ids
    <3>2. meta[k] = entries[k]
      BY <1>1, <3>1, <2>1, Settled
    <3> QED
      BY <1>1, <1>2, <3>1, <3>2
  <2>2. RS!Present(known') \cap Saved \subseteq blobFiles'
            /\ RS!Present(known') \subseteq RS!Present(entries')
    BY <1>1 DEF StoreInv, OnDisk
  <2> QED
    BY <1>5, <2>1, <2>2 DEF OnDisk
<1>7. WithinLimit'
  BY <1>1, Settled DEF StoreInv, WithinLimit, Small, MetaWrites
<1> QED
  BY <1>3, <1>4, <1>6, <1>7 DEF StoreInv

LEMMA CommitKeeps == StoreInv /\ RS!Commit => StoreInv'
<1> SUFFICES ASSUME StoreInv, RS!Commit PROVE StoreInv'
  OBVIOUS
<1> DEFINE c == steps[1]
<1>1. /\ steps # <<>> /\ steps' = Tail(steps)
      /\ entries' = [entries EXCEPT ![c.k] = c.x]
      /\ UNCHANGED <<known, meta, blobFiles, temps, ready, clock3, crashes3>>
      /\ c.do = "commit" /\ c.k \in RS!Ids /\ c.x \in Records
  BY HeadKnown DEF RS!Commit, RS!Doing, RS!Next_, RS!files, RS!world, RS!K, IsStep
<1>2. entries \in [RS!Ids -> Records \cup {None}] /\ c.x # None
  BY <1>1, RecoveryAssumption DEF RS!StoreAssumption, StoreInv, Memory, Records
<1>3. IsProgram(steps') /\ StepFacts(steps)'
  BY <1>1, <1>2, TailFacts DEF FileWrites, MetaWrites, Unlinks
<1>4. Memory'
  BY <1>1, <1>2 DEF StoreInv, Memory, RS!TypeOK, RS!Present, Records
<1>5. RS!Present(entries') = RS!Present(entries) \cup {c.k}
  BY <1>1, <1>2 DEF RS!Present
<1>6. OnDisk'
  <2>1. ASSUME NEW k \in RS!Present(entries') \cap Saved
        PROVE  meta'[k] = entries'[k]
    <3>1. CASE k = c.k
      BY <1>1, <1>2, <2>1, <3>1, HeadKnown DEF CommitKnown
    <3>2. CASE k # c.k
      <4>1. k \in RS!Present(entries) /\ k \in RS!Ids
        BY <1>2, <1>5, <2>1, <3>2, PresentFinite
      <4>2. entries'[k] = entries[k]
        BY <1>1, <1>2, <3>2, <4>1
      <4> QED
        BY <1>1, <2>1, <3>2, <4>1, <4>2 DEF StoreInv, OnDisk
    <3> QED
      BY <3>1, <3>2
  <2> QED
    BY <1>1, <1>5, <2>1 DEF StoreInv, OnDisk
<1>7. WithinLimit'
  <2>1. SUFFICES ASSUME ready'
                 PROVE  /\ Cardinality(RS!Present(entries')) <= MaxEntries + 1
                        /\ steps' # <<>> /\ steps'[1].do \in {"set_blob", "entries"}
    BY DEF WithinLimit
  <2>2. Cardinality(RS!Present(entries)) <= MaxEntries /\ MaxEntries \in Nat
    BY <1>1, <2>1, Settled, RecoveryAssumption DEF Small, RS!StoreAssumption
  <2>4. /\ Cardinality(RS!Present(entries)) \in Nat /\ Cardinality(RS!Present(entries')) \in Nat
        /\ IsFiniteSet(RS!Present(entries))
    BY <1>2, <1>4, PresentFinite DEF Memory
  <2>3. Cardinality(RS!Present(entries')) <= Cardinality(RS!Present(entries)) + 1
    BY <1>5, <2>4, FS_AddElement
  <2>5. 1 < Len(steps) /\ steps[1 + 1].do \in {"set_blob", "entries"}
    BY <1>1, HeadKnown DEF IsProgram, Ordered
  <2>6. steps' # <<>> /\ steps'[1] = steps[1 + 1]
    BY <1>1, <2>5, HeadKnown, SecondStep
  <2> QED
    BY <2>2, <2>3, <2>4, <2>5, <2>6
<1> QED
  BY <1>3, <1>4, <1>6, <1>7 DEF StoreInv

LEMMA SetBlobKeeps == StoreInv /\ RS!SetBlob => StoreInv'
<1> SUFFICES ASSUME StoreInv, RS!SetBlob PROVE StoreInv'
  OBVIOUS
<1> DEFINE c == steps[1]
<1>1. /\ steps # <<>> /\ steps' = Tail(steps)
      /\ known' = [known EXCEPT ![c.k] = clock3]
      /\ UNCHANGED <<entries, meta, blobFiles, temps, ready, clock3, crashes3>>
      /\ c.do = "set_blob" /\ c.k \in Assets
  BY HeadKnown DEF RS!SetBlob, RS!Doing, RS!Next_, RS!files, RS!world, RS!K, IsStep
<1>2. known = [k \in RS!Ids |-> known[k]] /\ c.k \in RS!Ids
          /\ entries \in [RS!Ids -> Records \cup {None}]
  BY <1>1 DEF StoreInv, Memory, RS!Ids
<1>3. IsProgram(steps') /\ StepFacts(steps)'
  BY <1>1, TailFacts DEF FileWrites, MetaWrites, Unlinks
<1>4. known' = [k \in RS!Ids |-> known'[k]]
          /\ RS!Present(known') \subseteq RS!Present(known) \cup {c.k}
  BY <1>1, <1>2 DEF RS!Present
<1>5. Memory'
  BY <1>1, <1>4 DEF StoreInv, Memory, RS!TypeOK
<1>6. entries[c.k] # None /\ (c.k \in Saved => c.k \in blobFiles)
  BY <1>1, HeadKnown DEF BlobKnown
<1>7. OnDisk'
  <2>1. c.k \in RS!Present(entries)
    BY <1>2, <1>6 DEF RS!Present
  <2>2. \A k \in RS!Present(entries') \cap Saved : meta'[k] = entries'[k]
    BY <1>1, Settled
  <2> QED
    BY <1>1, <1>4, <1>6, <2>1, <2>2 DEF StoreInv, OnDisk
<1>8. WithinLimit'
  <2>1. 1 < Len(steps) /\ steps[1 + 1].do = "entries"
    BY <1>1, HeadKnown DEF IsProgram, Ordered
  <2>2. steps' # <<>> /\ steps'[1] = steps[1 + 1]
    BY <1>1, <2>1, HeadKnown, SecondStep
  <2> QED
    BY <1>1, <2>1, <2>2 DEF StoreInv, WithinLimit, Small
<1> QED
  BY <1>3, <1>5, <1>7, <1>8 DEF StoreInv

LEMMA UnlinkMetaKeeps == StoreInv /\ RS!UnlinkMeta => StoreInv'
<1> SUFFICES ASSUME StoreInv, RS!UnlinkMeta PROVE StoreInv'
  OBVIOUS
<1> DEFINE c == steps[1]
<1>1. /\ steps # <<>> /\ steps' = Tail(steps) /\ meta' = [meta EXCEPT ![c.k] = None]
      /\ UNCHANGED <<entries, known, blobFiles, temps, ready, clock3, crashes3>>
      /\ c.do = "unlink_meta"
  BY HeadKnown DEF RS!UnlinkMeta, RS!Doing, RS!Next_, RS!memory, RS!world, RS!K
<1>2. entries[c.k] = None /\ meta \in [RS!Ids -> Records \cup {None}]
  BY <1>1, HeadKnown DEF StoreInv, Memory, Forgotten
<1>3. IsProgram(steps') /\ StepFacts(steps)'
  BY <1>1, TailFacts DEF FileWrites, MetaWrites, Unlinks
<1>4. Memory'
  BY <1>1, <1>2 DEF StoreInv, Memory, RS!TypeOK, RS!Present
<1>5. OnDisk'
  <2>1. ASSUME NEW k \in RS!Present(entries') \cap Saved
        PROVE  meta'[k] = entries'[k]
    <3>1. meta[k] = entries[k] /\ k # c.k
      BY <1>1, <1>2, <2>1, Settled DEF RS!Present
    <3> QED
      BY <1>1, <1>2, <3>1
  <2> QED
    BY <1>1, <2>1 DEF StoreInv, OnDisk
<1>6. WithinLimit'
  BY <1>1, Settled DEF StoreInv, WithinLimit, Small
<1> QED
  BY <1>3, <1>4, <1>5, <1>6 DEF StoreInv

LEMMA UnlinkBlobKeeps == StoreInv /\ RS!UnlinkBlob => StoreInv'
<1> SUFFICES ASSUME StoreInv, RS!UnlinkBlob PROVE StoreInv'
  OBVIOUS
<1> DEFINE c == steps[1]
<1>1. /\ steps # <<>> /\ steps' = Tail(steps) /\ blobFiles' = blobFiles \ {c.k}
      /\ UNCHANGED <<entries, known, meta, temps, ready, clock3, crashes3>>
      /\ c.do = "unlink_blob"
  BY HeadKnown DEF RS!UnlinkBlob, RS!Doing, RS!Next_, RS!memory, RS!world, RS!K
<1>2. known[c.k] = None
  BY <1>1, HeadKnown DEF Forgotten
<1>3. IsProgram(steps') /\ StepFacts(steps)'
  BY <1>1, TailFacts DEF FileWrites, MetaWrites, Unlinks
<1>4. Memory'
  BY <1>1 DEF StoreInv, Memory, RS!TypeOK, RS!Present
<1>5. OnDisk' /\ WithinLimit'
  BY <1>1, <1>2, Settled DEF StoreInv, OnDisk, WithinLimit, RS!Present, Small
<1> QED
  BY <1>3, <1>4, <1>5 DEF StoreInv

LEMMA ReadyKeeps == StoreInv /\ RS!Ready => StoreInv'
<1> SUFFICES ASSUME StoreInv, RS!Ready PROVE StoreInv'
  OBVIOUS
<1>1. /\ steps # <<>> /\ steps' = Tail(steps) /\ ready' = TRUE
      /\ UNCHANGED <<entries, known, meta, blobFiles, temps, clock3, crashes3>>
      /\ steps[1].do = "ready"
  BY HeadKnown DEF RS!Ready, RS!Doing, RS!Next_, RS!memory, RS!files
<1>2. IsProgram(steps') /\ StepFacts(steps)'
  BY <1>1, TailFacts DEF FileWrites, MetaWrites, Unlinks
<1>3. Memory'
  BY <1>1 DEF StoreInv, Memory, RS!TypeOK, RS!Present
<1>4. Small
  BY <1>1, HeadKnown DEF ReadySmall
<1>5. OnDisk' /\ WithinLimit'
  BY <1>1, <1>4, Settled DEF StoreInv, OnDisk, WithinLimit, RS!Present, Small
<1> QED
  BY <1>2, <1>3, <1>5 DEF StoreInv

LEMMA LoadKeeps == StoreInv /\ RS!Load => StoreInv'
<1> SUFFICES ASSUME StoreInv, RS!Load PROVE StoreInv'
  OBVIOUS
<1>1. /\ steps # <<>> /\ steps' = Tail(steps)
      /\ entries' = [k \in RS!Ids |-> IF meta[k] # None THEN meta[k] ELSE entries[k]]
      /\ temps' \in BOOLEAN
      /\ UNCHANGED <<known, meta, blobFiles, ready, clock3, crashes3>>
      /\ steps[1].do = "load"
  <2>1. temps \in BOOLEAN
    BY DEF StoreInv, Memory, RS!TypeOK
  <2> QED
    BY <2>1, HeadKnown DEF RS!Load, RS!Doing, RS!Next_, RS!world
<1>2. /\ entries \in [RS!Ids -> Records \cup {None}] /\ meta \in [RS!Ids -> Records \cup {None}]
      /\ RS!TypeOK
  BY DEF StoreInv, Memory
<1>3. entries' \in [RS!Ids -> Records \cup {None}]
  BY <1>1, <1>2
<1>4. IsProgram(steps') /\ StepFacts(steps)'
  BY <1>1, TailFacts DEF FileWrites, MetaWrites, Unlinks
<1>5. RS!Present(entries) \subseteq RS!Present(entries')
  BY <1>1, <1>2, <1>3 DEF RS!Present
<1>6. Memory'
  <2>1. \A k \in RS!Present(entries') : entries'[k].at \in 0..MaxClock
    BY <1>3 DEF RS!Present, Records
  <2>2. {temps', ready'} \subseteq BOOLEAN
    BY <1>1, <1>2 DEF RS!TypeOK
  <2> QED
    BY <1>1, <1>2, <1>3, <2>1, <2>2 DEF StoreInv, Memory, RS!TypeOK
<1>7. OnDisk'
  <2>1. ASSUME NEW k \in RS!Present(entries') \cap Saved
        PROVE  meta'[k] = entries'[k]
    <3>1. k \in RS!Ids /\ entries'[k] = IF meta[k] # None THEN meta[k] ELSE entries[k]
      BY <1>1, <1>3, <2>1, PresentFinite
    <3>2. entries'[k] # None
      BY <2>1 DEF RS!Present
    <3>3. entries[k] # None => meta[k] = entries[k]
      BY <1>1, <1>2, <2>1, <3>1, Settled DEF RS!Present
    <3> QED
      BY <1>1, <3>1, <3>2, <3>3
  <2> QED
    BY <1>1, <1>5, <2>1 DEF StoreInv, OnDisk
<1>8. WithinLimit'
  BY <1>1, HeadKnown DEF LoadKnown, WithinLimit
<1> QED
  BY <1>4, <1>6, <1>7, <1>8 DEF StoreInv

LEMMA LoadBlobsKeeps == StoreInv /\ RS!LoadBlobs => StoreInv'
<1> SUFFICES ASSUME StoreInv, RS!LoadBlobs PROVE StoreInv'
  OBVIOUS
<1>1. /\ steps # <<>> /\ steps' = Tail(steps) /\ temps' = FALSE
      /\ blobFiles' = {k \in blobFiles : entries[k] # None}
      /\ UNCHANGED <<entries, meta, ready, clock3, crashes3>>
      /\ steps[1].do = "load_blobs"
  BY HeadKnown DEF RS!LoadBlobs, RS!Doing, RS!Next_, RS!world
<1>2. PICK touched \in [blobFiles -> 0..clock3] :
        known' = [k \in RS!Ids |-> IF k \in blobFiles
            /\ entries[k] # None THEN touched[k] ELSE known[k]]
  BY DEF RS!LoadBlobs
<1>3. IsProgram(steps') /\ StepFacts(steps)'
  <2>1. Clean'
    BY <1>1 DEF Clean
  <2> QED
    BY <1>1, <2>1, TailFacts DEF FileWrites, MetaWrites, Unlinks
<1>4. /\ known = [k \in RS!Ids |-> known[k]] /\ blobFiles \subseteq Assets \cap Saved
      /\ RS!Present(known) \subseteq Assets /\ RS!Present(known) \cap Saved \subseteq blobFiles
      /\ RS!Present(known) \subseteq RS!Present(entries)
      /\ entries \in [RS!Ids -> Records \cup {None}]
  BY DEF StoreInv, Memory, OnDisk, RS!TypeOK
<1>5. /\ known' = [k \in RS!Ids |-> known'[k]]
      /\ \A k \in RS!Present(known') :
           k \in RS!Ids /\ (k \in RS!Present(known) \/ (k \in blobFiles /\ entries[k] # None))
  BY <1>2, <1>4 DEF RS!Present
<1>6. Memory'
  BY <1>1, <1>4, <1>5 DEF StoreInv, Memory, RS!TypeOK
<1>7. OnDisk'
  <2>1. \A k \in RS!Present(entries') \cap Saved : meta'[k] = entries'[k]
    BY <1>1, Settled
  <2>2. ASSUME NEW k \in RS!Present(known')
        PROVE  k \in RS!Present(entries') /\ (k \in Saved => k \in blobFiles')
    <3>1. k \in RS!Ids /\ entries[k] # None /\ (k \in Saved => k \in blobFiles)
      BY <1>4, <1>5, <2>2 DEF RS!Present
    <3> QED
      BY <1>1, <1>4, <3>1 DEF RS!Present
  <2> QED
    BY <2>1, <2>2 DEF OnDisk
<1>8. WithinLimit'
  BY <1>1, Settled DEF StoreInv, WithinLimit, Small
<1> QED
  BY <1>3, <1>6, <1>7, <1>8 DEF StoreInv

(* A file to remove, or the rest of a sweep, before steps that are none of *)
(* these.                                                                  *)
LEMMA InFront ==
  ASSUME NEW s, IsProgram(s), NEW e \in Steps, IsStep(e), e.do \in Unlinks \cup {"forget"},
         \A j \in DOMAIN s : s[j].do \notin FileWrites \cup {"commit", "set_blob", "load"},
         e.do = "forget" => \A j \in DOMAIN s : s[j].do \notin Unlinks
  PROVE  LET t == <<e>> \o s IN
         /\ IsProgram(t) /\ t[1] = e /\ Len(s) \in Nat
         /\ \A j \in DOMAIN t : /\ j \in Nat \ {0}
                                /\ j > 1 => j - 1 \in DOMAIN s /\ t[j] = s[j - 1]
<1>1. ASSUME NEW j \in DOMAIN s
      PROVE  /\ e.do \in Before(s[j].do)
             /\ s[j].do \notin MetaWrites \cup {"set_blob", "commit", "load"}
  <2>1. s[j].do \notin FileWrites \cup {"commit", "set_blob", "load"} /\ e.do \in Names
    BY <1>1 DEF Steps
  <2>2. s[j].do \notin MetaWrites \cup {"set_blob", "commit", "load"}
    BY <2>1 DEF MetaWrites, FileWrites
  <2>3. ASSUME s[j].do \in Unlinks PROVE e.do \in Before(s[j].do)
    <3>1. e.do \in Unlinks /\ Before(s[j].do) = Unlinks
      BY <1>1, <2>3 DEF Before
    <3> QED
      BY <3>1
  <2>4. ASSUME s[j].do \notin Unlinks PROVE e.do \in Before(s[j].do)
    <3>1. Before(s[j].do) = Names
      BY <2>1, <2>4, BeforeIs
    <3> QED
      BY <2>1, <3>1
  <2> QED
    BY <2>2, <2>3, <2>4
<1>2. e.do \notin Commands \cup MetaWrites \cup {"commit", "set_blob"}
  BY DEF Commands, MetaWrites, Unlinks
<1> QED
  BY <1>1, <1>2, ConsProgram

(* A sweep or a pruning has no writes before it or after it.               *)
LEMMA Sweeping ==
  ASSUME StoreInv, steps # <<>>,
         steps[1].do \in {"forget", "expired", "entries", "blobs"} \cup Commands
  PROVE  /\ \A j \in DOMAIN steps :
              steps[j].do \notin FileWrites \cup Unlinks \cup {"commit", "set_blob", "load"}
         /\ \A j \in DOMAIN Tail(steps) :
              Tail(steps)[j].do \notin FileWrites \cup Unlinks \cup {"commit", "set_blob", "load"}
<1>1. steps[1].do \notin FileWrites \cup Unlinks \cup {"commit", "set_blob", "load"}
  BY DEF FileWrites, Unlinks, Commands
<1>2. ASSUME NEW j \in DOMAIN steps
      PROVE  steps[j].do \notin FileWrites \cup Unlinks \cup {"commit", "set_blob", "load"}
  BY <1>1, HeadKnown, HeadOrder
<1> QED
  BY <1>2, HeadKnown, TailProgram

(* Steps that remove a file.                                               *)
LEMMA UnlinkSteps ==
  ASSUME NEW k \in RS!Ids, NEW do \in Unlinks
  PROVE  LET e == RS!Step(do, k, None) IN
         e \in Steps /\ IsStep(e) /\ e.do = do /\ e.k = k
<1> DEFINE e == RS!Step(do, k, None)
<1>1. e = [do |-> do, k |-> k, x |-> None] /\ do \in {"unlink_meta", "unlink_blob"}
  BY DEF RS!Step, Unlinks
<1>2. e \in Steps /\ e.do = do /\ e.k = k
  <2>1. None \in Records \cup Contents \cup {None} \cup SUBSET RS!Ids
    OBVIOUS
  <2>3. do \in Names
    BY <1>1 DEF Names
  <2>2. k \in RS!Ids \cup {None}
    OBVIOUS
  <2> QED
    BY <1>1, <2>1, <2>2, <2>3 DEF Steps
<1> HIDE DEF e
<1>3. IsStep(e)
  BY <1>1, <1>2 DEF IsStep, MetaWrites
<1> QED
  BY <1>2, <1>3 DEF e

(* The files of k are to be removed, if it has any.                        *)
Removal(k) ==
    RS!On(k, <<RS!Step("unlink_meta", k, None)>>
             \o IF k \in Assets THEN <<RS!Step("unlink_blob", k, None)>> ELSE <<>>)

(* It has none, metadata alone, or a blob too.                             *)
LEMMA RemovalCases ==
  ASSUME NEW k \in RS!Ids, NEW s \in Seq(Steps)
  PROVE  \/ k \notin Saved /\ Removal(k) \o s = s
         \/ /\ k \in Saved
            /\ Removal(k) \o s = <<RS!Step("unlink_meta", k, None)>> \o s
         \/ /\ k \in Saved \cap Assets
            /\ Removal(k) \o s = <<RS!Step("unlink_meta", k, None)>>
                                 \o (<<RS!Step("unlink_blob", k, None)>> \o s)
<1> DEFINE m == RS!Step("unlink_meta", k, None)
           b == RS!Step("unlink_blob", k, None)
<1>1. m \in Steps /\ b \in Steps
  BY UnlinkSteps DEF Unlinks
<1>2. <<>> \o s = s /\ (<<m>> \o <<>>) \o s = <<m>> \o s
          /\ (<<m>> \o <<b>>) \o s = <<m>> \o (<<b>> \o s)
  <2> HIDE DEF m, b
  <2> QED
    BY <1>1
<1> QED
  BY <1>2 DEF Removal, RS!On

(* t is s after n steps that remove files of k.                            *)
Shifted(t, s, k, n) ==
    \A j \in DOMAIN t :
        /\ j \in Nat \ {0}
        /\ j <= n => t[j].do \in Unlinks /\ t[j].k = k
        /\ j > n => j - n \in DOMAIN s /\ t[j] = s[j - n]

(* The program after an entry was forgotten, in front of s.                *)
LEMMA RemovalProgram ==
  ASSUME NEW k \in RS!Ids, NEW s, IsProgram(s),
         \A j \in DOMAIN s : s[j].do \notin FileWrites \cup Unlinks \cup {"commit", "set_blob",
         "load"}
  PROVE  /\ IsProgram(Removal(k) \o s)
         /\ \E n \in 0..2 : Shifted(Removal(k) \o s, s, k, n)
<1> DEFINE m == RS!Step("unlink_meta", k, None)
           b == RS!Step("unlink_blob", k, None)
           t == Removal(k) \o s
<1>1. /\ m \in Steps /\ b \in Steps /\ IsStep(m) /\ IsStep(b)
      /\ m.do = "unlink_meta" /\ b.do = "unlink_blob" /\ m.k = k /\ b.k = k
  <2>1. "unlink_meta" \in Unlinks /\ "unlink_blob" \in Unlinks
    BY DEF Unlinks
  <2> QED
    BY <2>1, UnlinkSteps
<1>2. s \in Seq(Steps) /\ \A j \in DOMAIN s : j \in Nat \ {0}
  BY DEF IsProgram
<1>3. CASE k \notin Saved /\ t = s
  <2>1. Shifted(t, s, k, 0)
    BY <1>2, <1>3 DEF Shifted
  <2> QED
    BY <1>3, <2>1
<1>4. CASE t = <<m>> \o s
  <2>1. /\ IsProgram(<<m>> \o s) /\ (<<m>> \o s)[1] = m
        /\ \A j \in DOMAIN (<<m>> \o s) :
             j \in Nat \ {0} /\ (j > 1 => j - 1 \in DOMAIN s /\ (<<m>> \o s)[j] = s[j - 1])
    <3> HIDE DEF m
    <3> QED
      BY <1>1, InFront DEF Unlinks
  <2> HIDE DEF m, t
  <2>2. Shifted(t, s, k, 1)
    BY <1>1, <1>4, <2>1 DEF Unlinks, Shifted
  <2> QED
    BY <1>4, <2>1, <2>2 DEF t
<1>5. CASE t = <<m>> \o (<<b>> \o s)
  <2> DEFINE r == <<b>> \o s
  <2>1. /\ IsProgram(r) /\ r[1] = b
        /\ \A j \in DOMAIN r : j \in Nat \ {0} /\ (j > 1 => j - 1 \in DOMAIN s /\ r[j] = s[j - 1])
    <3> HIDE DEF b
    <3> QED
      BY <1>1, InFront DEF Unlinks
  <2>2. \A j \in DOMAIN r : r[j].do \notin FileWrites \cup {"commit", "set_blob", "load"}
    <3> HIDE DEF r, b
    <3> QED
      BY <1>1, <2>1 DEF FileWrites
  <2>3. /\ IsProgram(<<m>> \o r) /\ (<<m>> \o r)[1] = m
        /\ \A j \in DOMAIN (<<m>> \o r) :
             j \in Nat \ {0} /\ (j > 1 => j - 1 \in DOMAIN r /\ (<<m>> \o r)[j] = r[j - 1])
    <3> HIDE DEF m, r
    <3> QED
      BY <1>1, <2>1, <2>2, InFront DEF Unlinks
  <2> HIDE DEF m, b, t, r
  <2>4. t = <<m>> \o r
    BY <1>5 DEF r
  <2>5. Shifted(t, s, k, 2)
    <3>1. SUFFICES ASSUME NEW j \in DOMAIN t
                   PROVE  /\ j \in Nat \ {0}
                          /\ j <= 2 => t[j].do \in Unlinks /\ t[j].k = k
                          /\ j > 2 => j - 2 \in DOMAIN s /\ t[j] = s[j - 2]
      BY DEF Shifted
    <3>2. j \in Nat \ {0} /\ (j > 1 => j - 1 \in DOMAIN r /\ t[j] = r[j - 1])
      BY <2>3, <2>4
    <3>3. CASE j = 1
      BY <1>1, <2>3, <2>4, <3>3 DEF Unlinks
    <3>4. CASE j = 2
      BY <1>1, <2>1, <3>2, <3>4 DEF Unlinks
    <3>5. CASE j > 2
      <4>1. j - 1 \in DOMAIN r /\ t[j] = r[j - 1] /\ j - 1 > 1 /\ (j - 1) - 1 = j - 2
        BY <3>2, <3>5
      <4> QED
        BY <2>1, <3>2, <3>5, <4>1
    <3> QED
      BY <3>2, <3>3, <3>4, <3>5
  <2> QED
    BY <2>3, <2>4, <2>5 DEF t
<1> QED
  BY <1>2, <1>3, <1>4, <1>5, RemovalCases

(* Forgetting an entry in memory.                                          *)
LEMMA ForgetMemory ==
  ASSUME StoreInv, steps # <<>>, steps[1].do # "commit", NEW k \in RS!Ids,
         entries' = [entries EXCEPT ![k] = None], known' = [known EXCEPT ![k] = None],
         UNCHANGED <<meta, blobFiles, temps, ready, clock3, crashes3>>
  PROVE  /\ Memory' /\ OnDisk' /\ entries'[k] = None /\ known'[k] = None
         /\ RS!Present(entries') = RS!Present(entries) \ {k}
<1>1. /\ entries \in [RS!Ids -> Records \cup {None}] /\ known = [j \in RS!Ids |-> known[j]]
      /\ RS!TypeOK
  BY DEF StoreInv, Memory
<1>2. /\ RS!Present(entries') = RS!Present(entries) \ {k}
      /\ entries' \in [RS!Ids -> Records \cup {None}] /\ entries'[k] = None
      /\ \A j \in RS!Ids : j # k => entries'[j] = entries[j]
  BY <1>1 DEF RS!Present
<1>3. /\ RS!Present(known') = RS!Present(known) \ {k} /\ known'[k] = None
      /\ known' = [j \in RS!Ids |-> known'[j]]
  BY <1>1 DEF RS!Present
<1>4. Memory'
  <2>1. \A j \in RS!Present(entries') : entries'[j].at \in 0..MaxClock
    BY <1>1, <1>2, PresentFinite DEF RS!TypeOK
  <2> QED
    BY <1>1, <1>2, <1>3, <2>1 DEF StoreInv, Memory, RS!TypeOK
<1>5. OnDisk'
  <2>1. ASSUME NEW j \in RS!Present(entries') \cap Saved
        PROVE  meta'[j] = entries'[j]
    <3>1. j \in RS!Present(entries) /\ j # k /\ j \in RS!Ids
      BY <1>1, <1>2, <2>1, PresentFinite
    <3> QED
      BY <1>2, <2>1, <3>1, Settled
  <2>2. RS!Present(known) \cap Saved \subseteq blobFiles
            /\ RS!Present(known) \subseteq RS!Present(entries)
    BY DEF StoreInv, OnDisk
  <2> QED
    BY <1>2, <1>3, <2>1, <2>2 DEF OnDisk
<1> QED
  BY <1>2, <1>3, <1>4, <1>5

(* One entry less.                                                         *)
LEMMA ForgetSmall ==
  ASSUME StoreInv, NEW k \in RS!Ids, entries' \in [RS!Ids -> Records \cup {None}],
         RS!Present(entries') = RS!Present(entries) \ {k}
  PROVE  /\ Small => Small'
         /\ Cardinality(RS!Present(entries)) <= MaxEntries + 1 /\ k \in RS!Present(entries) =>
                Small'
<1>1. entries \in [RS!Ids -> Records \cup {None}] /\ MaxEntries \in Nat
  BY RecoveryAssumption DEF StoreInv, Memory, RS!StoreAssumption
<1>2. /\ IsFiniteSet(RS!Present(entries)) /\ Cardinality(RS!Present(entries)) \in Nat
      /\ Cardinality(RS!Present(entries')) \in Nat
  BY <1>1, PresentFinite
<1>3. Cardinality(RS!Present(entries')) <= Cardinality(RS!Present(entries))
  BY <1>2, FS_Subset
<1>4. k \in RS!Present(entries) =>
        Cardinality(RS!Present(entries')) = Cardinality(RS!Present(entries)) - 1
  BY <1>2, FS_RemoveElement
<1> QED
  BY <1>1, <1>2, <1>3, <1>4 DEF Small

(* The rest of a sweep.                                                    *)
LEMMA SweepStep ==
  ASSUME NEW S \in SUBSET RS!Ids
  PROVE  LET e == RS!Step("forget", None, S) IN
         e \in Steps /\ IsStep(e) /\ e.do = "forget" /\ e.x = S
<1> DEFINE e == RS!Step("forget", None, S)
<1>1. e = [do |-> "forget", k |-> None, x |-> S]
  BY DEF RS!Step
<1>2. e \in Steps /\ e.do = "forget" /\ e.x = S
  <2>1. S \in Records \cup Contents \cup {None} \cup SUBSET RS!Ids /\ "forget" \in Names
    BY DEF Names
  <2>2. None \in RS!Ids \cup {None}
    OBVIOUS
  <2> QED
    BY <1>1, <2>1, <2>2 DEF Steps
<1> HIDE DEF e
<1>3. IsStep(e)
  BY <1>2 DEF IsStep, MetaWrites, Unlinks
<1> QED
  BY <1>2, <1>3 DEF e

(* A sweep starts; its entries go one at a time.                           *)
LEMMA PruneExpiredKeeps == StoreInv /\ RS!PruneExpired => StoreInv'
<1> SUFFICES ASSUME StoreInv, RS!PruneExpired PROVE StoreInv'
  OBVIOUS
<1> DEFINE S == {k \in RS!Present(entries) : RS!Expired(k)}
           e == RS!Step("forget", None, S)
           r == Tail(steps)
<1>1. /\ steps # <<>> /\ steps[1].do = "expired" /\ steps' = <<e>> \o r
      /\ UNCHANGED <<entries, known, meta, blobFiles, temps, ready, clock3, crashes3>>
  BY HeadKnown DEF RS!PruneExpired, RS!Doing, RS!Then, RS!memory, RS!files, RS!world
<1>2. S \subseteq RS!Ids
  BY PresentFinite DEF StoreInv, Memory
<1>3. e \in Steps /\ IsStep(e) /\ e.do = "forget"
  <2> HIDE DEF S
  <2> QED
    BY <1>2, SweepStep
<1>4. \A j \in DOMAIN r : r[j].do \notin FileWrites \cup Unlinks \cup {"commit", "set_blob", "load"}
  BY <1>1, Sweeping
<1>5. IsProgram(r) /\ \A j \in DOMAIN r : j \in Nat \ {0} /\ j + 1 \in DOMAIN steps
          /\ r[j] = steps[j + 1]
  BY <1>1, HeadKnown, TailProgram
<1> HIDE DEF e, r
<1>6. /\ IsProgram(steps') /\ steps'[1] = e
      /\ \A j \in DOMAIN steps' : j \in Nat \ {0}
             /\ (j > 1 => j - 1 \in DOMAIN r /\ steps'[j] = r[j - 1])
  BY <1>1, <1>3, <1>4, <1>5, InFront
<1>7. \A j \in DOMAIN steps' :
        /\ j <= 1 => /\ steps'[j].do \in Unlinks \cup {"forget"}
                     /\ steps'[j].do = "unlink_blob" => known'[steps'[j].k] = None
                     /\ steps'[j].do = "unlink_meta" => entries'[steps'[j].k] = None
        /\ j > 1 => (j - 1) + 1 \in DOMAIN steps /\ steps'[j] = steps[(j - 1) + 1]
  BY <1>3, <1>5, <1>6
<1>8. StepFacts(steps)'
  BY <1>1, <1>6, <1>7, PrependFacts
<1>9. Memory' /\ OnDisk' /\ WithinLimit'
  BY <1>1, Settled DEF StoreInv, Memory, OnDisk, WithinLimit, RS!TypeOK, RS!Present, Small
<1> QED
  BY <1>6, <1>8, <1>9 DEF StoreInv

LEMMA ForgetOldKeeps == StoreInv /\ RS!ForgetOld => StoreInv'
<1> SUFFICES ASSUME StoreInv, RS!ForgetOld PROVE StoreInv'
  OBVIOUS
<1>1. /\ steps # <<>> /\ steps[1].do = "forget" /\ steps[1].x \subseteq RS!Ids
             /\ Head(steps) = steps[1]
      /\ UNCHANGED <<meta, blobFiles, temps, ready, clock3, crashes3>>
  BY HeadKnown DEF RS!ForgetOld, RS!Doing, RS!files, RS!world, IsStep
<1>2. CASE steps' = Tail(steps) /\ UNCHANGED <<entries, known>>
  <2>1. IsProgram(steps') /\ StepFacts(steps)'
    BY <1>1, <1>2, TailFacts DEF FileWrites, MetaWrites, Unlinks
  <2>2. Memory' /\ OnDisk' /\ WithinLimit'
    BY <1>1, <1>2, Settled DEF StoreInv, Memory, OnDisk, WithinLimit, RS!TypeOK, RS!Present, Small
  <2> QED
    BY <2>1, <2>2 DEF StoreInv
<1>3. ASSUME NEW k \in steps[1].x,
             RS!Forget(k, <<RS!Step("forget", None, steps[1].x \ {k})>> \o Tail(steps))
      PROVE  StoreInv'
  <2> DEFINE S == steps[1].x \ {k}
             e == RS!Step("forget", None, S)
             r == Tail(steps)
             q == <<e>> \o r
  <2>1. /\ k \in RS!Ids /\ S \subseteq RS!Ids
        /\ entries' = [entries EXCEPT ![k] = None] /\ known' = [known EXCEPT ![k] = None]
        /\ steps' = Removal(k) \o q
    BY <1>1, <1>3 DEF RS!Forget, Removal
  <2>2. e \in Steps /\ IsStep(e) /\ e.do = "forget"
    <3> HIDE DEF S
    <3> QED
      BY <2>1, SweepStep
  <2>3. \A j \in DOMAIN r : r[j].do \notin FileWrites \cup Unlinks \cup {"commit", "set_blob",
        "load"}
    BY <1>1, Sweeping
  <2>4. IsProgram(r) /\ \A j \in DOMAIN r : j \in Nat \ {0} /\ j + 1 \in DOMAIN steps
            /\ r[j] = steps[j + 1]
    BY <1>1, HeadKnown, TailProgram
  <2> HIDE DEF e, r
  <2>5. /\ IsProgram(q) /\ q[1] = e
        /\ \A j \in DOMAIN q : j \in Nat \ {0} /\ (j > 1 => j - 1 \in DOMAIN r /\ q[j] = r[j - 1])
    BY <2>2, <2>3, <2>4, InFront
  <2> HIDE DEF q
  <2>6. \A j \in DOMAIN q : q[j].do \notin FileWrites \cup Unlinks \cup {"commit", "set_blob",
        "load"}
    <3>1. SUFFICES ASSUME NEW j \in DOMAIN q
                   PROVE  q[j].do \notin FileWrites \cup Unlinks \cup {"commit", "set_blob", "load"}
      OBVIOUS
    <3>2. CASE j = 1
      BY <2>2, <2>5, <3>2 DEF FileWrites, Unlinks
    <3>3. CASE j # 1
      BY <2>3, <2>5, <3>3
    <3> QED
      BY <3>2, <3>3
  <2>7. /\ IsProgram(steps')
        /\ \E n \in 0..2 : Shifted(steps', q, k, n)
    <3>1. k \in RS!Ids /\ IsProgram(q) /\ steps' = Removal(k) \o q
      BY <2>1, <2>5
    <3>2. IsProgram(Removal(k) \o q) /\ \E n \in 0..2 : Shifted(Removal(k) \o q, q, k, n)
      BY <2>6, <3>1, RemovalProgram
    <3> QED
      BY <3>1, <3>2
  <2>8. PICK n \in 0..2 : \A j \in DOMAIN steps' :
             /\ j \in Nat \ {0}
             /\ j <= n => steps'[j].do \in Unlinks /\ steps'[j].k = k
             /\ j > n => j - n \in DOMAIN q /\ steps'[j] = q[j - n]
    BY <2>7 DEF Shifted
  <2>9. /\ Memory' /\ OnDisk' /\ entries'[k] = None /\ known'[k] = None
        /\ RS!Present(entries') = RS!Present(entries) \ {k}
    BY <1>1, <2>1, ForgetMemory
  <2>10. StepFacts(steps)'
    <3>1. ASSUME NEW j \in DOMAIN steps'
          PROVE  /\ j <= n + 1 => /\ steps'[j].do \in Unlinks \cup {"forget"}
                                  /\ steps'[j].do = "unlink_blob" => known'[steps'[j].k] = None
                                  /\ steps'[j].do = "unlink_meta" => entries'[steps'[j].k] = None
                 /\ j > n + 1 => (j - (n + 1)) + 1 \in DOMAIN steps
                        /\ steps'[j] = steps[(j - (n + 1)) + 1]
      <4>1. CASE j <= n
        BY <2>8, <2>9, <4>1
      <4>2. CASE j = n + 1
        <5>1. j > n /\ j - n = 1
          BY <4>2
        <5> QED
          BY <2>2, <2>5, <2>8, <4>2, <5>1
      <4>3. CASE j > n + 1
        <5>1. j \in Nat /\ j > n /\ j - n \in DOMAIN q /\ steps'[j] = q[j - n]
          BY <2>8, <4>3
        <5>2. j - n > 1 /\ (j - n) - 1 \in DOMAIN r /\ q[j - n] = r[(j - n) - 1]
          BY <2>5, <4>3, <5>1
        <5>3. r[(j - n) - 1] = steps[((j - n) - 1) + 1] /\ ((j - n) - 1) + 1 \in DOMAIN steps
          BY <2>4, <5>2
        <5>4. ((j - n) - 1) + 1 = (j - (n + 1)) + 1
          BY <5>1
        <5> QED
          BY <4>3, <5>1, <5>2, <5>3, <5>4
      <4>4. j \in Nat
        BY <2>8
      <4> QED
        BY <4>1, <4>2, <4>3, <4>4
    <3>2. n + 1 \in Nat
      OBVIOUS
    <3> QED
      BY <1>1, <2>7, <3>1, <3>2, PrependFacts
  <2>11. WithinLimit'
    BY <1>1, <2>1, <2>9, Settled, ForgetSmall DEF WithinLimit, Memory
  <2> QED
    BY <2>7, <2>9, <2>10, <2>11 DEF StoreInv
<1> QED
  BY <1>1, <1>2, <1>3 DEF RS!ForgetOld, RS!Next_, RS!memory

(* The prunings by number and by bytes.                                    *)
LEMMA PruneEntriesKeeps == StoreInv /\ RS!PruneEntries => StoreInv'
<1> SUFFICES ASSUME StoreInv, RS!PruneEntries PROVE StoreInv'
  OBVIOUS
<1>1. /\ steps # <<>> /\ steps[1].do = "entries"
      /\ UNCHANGED <<meta, blobFiles, temps, ready, clock3, crashes3>>
  BY HeadKnown DEF RS!PruneEntries, RS!Doing, RS!files, RS!world
<1>2. CASE Small /\ steps' = Tail(steps) /\ UNCHANGED <<entries, known>>
  <2>1. Small'
    BY <1>2 DEF Small, RS!Present
  <2>2. IsProgram(steps') /\ StepFacts(steps)'
    BY <1>1, <1>2, <2>1, TailFacts DEF FileWrites, MetaWrites, Unlinks
  <2>3. Memory' /\ OnDisk' /\ WithinLimit'
    BY <1>1, <1>2, <2>1, Settled DEF StoreInv, Memory, OnDisk, WithinLimit, RS!TypeOK, RS!Present
  <2> QED
    BY <2>2, <2>3 DEF StoreInv
<1>3. ASSUME NEW k \in RS!Present(entries), RS!Forget(k, steps)
      PROVE  StoreInv'
  <2>1. /\ k \in RS!Ids
        /\ entries' = [entries EXCEPT ![k] = None] /\ known' = [known EXCEPT ![k] = None]
        /\ steps' = Removal(k) \o steps
    BY <1>3, PresentFinite DEF RS!Forget, Removal, StoreInv, Memory
  <2>2. IsProgram(steps') /\ \E n \in 0..2 : Shifted(steps', steps, k, n)
    <3>1. \A j \in DOMAIN steps :
            steps[j].do \notin FileWrites \cup Unlinks \cup {"commit", "set_blob", "load"}
      BY <1>1, Sweeping
    <3>2. IsProgram(Removal(k) \o steps) /\ \E n \in 0..2 :
              Shifted(Removal(k) \o steps, steps, k, n)
      BY <2>1, <3>1, HeadKnown, <1>1, RemovalProgram
    <3> QED
      BY <2>1, <3>2
  <2>3. PICK n \in 0..2 : \A j \in DOMAIN steps' :
             /\ j \in Nat \ {0}
             /\ j <= n => steps'[j].do \in Unlinks /\ steps'[j].k = k
             /\ j > n => j - n \in DOMAIN steps /\ steps'[j] = steps[j - n]
    BY <2>2 DEF Shifted
  <2>4. /\ Memory' /\ OnDisk' /\ entries'[k] = None /\ known'[k] = None
        /\ RS!Present(entries') = RS!Present(entries) \ {k}
    BY <1>1, <2>1, ForgetMemory
  <2>5. StepFacts(steps)'
    <3>1. ASSUME NEW j \in DOMAIN steps'
          PROVE  /\ j <= n => /\ steps'[j].do \in Unlinks \cup {"forget"}
                              /\ steps'[j].do = "unlink_blob" => known'[steps'[j].k] = None
                              /\ steps'[j].do = "unlink_meta" => entries'[steps'[j].k] = None
                 /\ j > n => (j - n) + 0 \in DOMAIN steps /\ steps'[j] = steps[(j - n) + 0]
      BY <2>3, <2>4
    <3>2. n \in Nat
      OBVIOUS
    <3> QED
      BY <1>1, <2>2, <3>1, <3>2, PrependFacts
  <2>6. WithinLimit'
    <3>1. ready => Cardinality(RS!Present(entries)) <= MaxEntries + 1
      <4>1. MaxEntries \in Nat /\ Cardinality(RS!Present(entries)) \in Nat
        BY RecoveryAssumption, PresentFinite DEF StoreInv, Memory, RS!StoreAssumption
      <4> QED
        BY <4>1 DEF StoreInv, WithinLimit, Small
    <3> QED
      BY <1>1, <1>3, <2>1, <2>4, <3>1, ForgetSmall DEF WithinLimit, Memory
  <2> QED
    BY <2>2, <2>4, <2>5, <2>6 DEF StoreInv
<1>4. CASE RS!Cardinality(RS!Present(entries)) <= MaxEntries
  BY <1>2, <1>4, SameCardinality DEF RS!PruneEntries, RS!Next_, RS!memory, Small
<1>5. CASE ~(RS!Cardinality(RS!Present(entries)) <= MaxEntries)
  BY <1>3, <1>5 DEF RS!PruneEntries
<1> QED
  BY <1>4, <1>5

LEMMA PruneBlobsKeeps == StoreInv /\ RS!PruneBlobs => StoreInv'
<1> SUFFICES ASSUME StoreInv, RS!PruneBlobs PROVE StoreInv'
  OBVIOUS
<1>1. /\ steps # <<>> /\ steps[1].do = "blobs"
      /\ UNCHANGED <<entries, meta, blobFiles, temps, ready, clock3, crashes3>>
  BY HeadKnown DEF RS!PruneBlobs, RS!Doing, RS!files, RS!world
<1>2. CASE steps' = Tail(steps) /\ known' = known
  <2>1. IsProgram(steps') /\ StepFacts(steps)'
    BY <1>1, <1>2, TailFacts DEF FileWrites, MetaWrites, Unlinks
  <2>2. Memory' /\ OnDisk' /\ WithinLimit'
    BY <1>1, <1>2, Settled DEF StoreInv, Memory, OnDisk, WithinLimit, RS!TypeOK, RS!Present, Small
  <2> QED
    BY <2>1, <2>2 DEF StoreInv
<1>3. ASSUME NEW k \in RS!Present(known), known' = [known EXCEPT ![k] = None],
             steps' = RS!On(k, <<RS!Step("unlink_blob", k, None)>>) \o steps
      PROVE  StoreInv'
  <2> DEFINE b == RS!Step("unlink_blob", k, None)
  <2>1. /\ known = [j \in RS!Ids |-> known[j]] /\ RS!Present(known) \subseteq Assets
        /\ RS!Present(known) \cap Saved \subseteq blobFiles
        /\ RS!Present(known) \subseteq RS!Present(entries) /\ RS!TypeOK
        /\ k \in RS!Ids
    BY DEF StoreInv, Memory, OnDisk, RS!TypeOK, RS!Ids
  <2>2. /\ known'[k] = None /\ known' = [j \in RS!Ids |-> known'[j]]
        /\ RS!Present(known') = RS!Present(known) \ {k}
    BY <1>3, <2>1 DEF RS!Present
  <2>3. Memory' /\ OnDisk' /\ WithinLimit'
    BY <1>1, <2>1, <2>2, Settled DEF StoreInv, Memory, OnDisk, WithinLimit, RS!TypeOK,
       RS!Present, Small
  <2>4. \A j \in DOMAIN steps :
            steps[j].do \notin FileWrites \cup Unlinks \cup {"commit", "set_blob", "load"}
    BY <1>1, Sweeping
  <2>5. b \in Steps /\ IsStep(b) /\ b.do = "unlink_blob" /\ b.k = k
    BY <2>1, UnlinkSteps DEF Unlinks
  <2> HIDE DEF b
  <2>6. IsProgram(steps) /\ steps \in Seq(Steps) /\ \A j \in DOMAIN steps : j \in Nat \ {0}
    BY <1>1, HeadKnown DEF IsProgram
  <2>7. CASE k \notin Saved
    <3>1. steps' = steps
      BY <1>3, <2>6, <2>7 DEF RS!On
    <3>2. ASSUME NEW j \in DOMAIN steps'
          PROVE  /\ j <= 0 => /\ steps'[j].do \in Unlinks \cup {"forget"}
                              /\ steps'[j].do = "unlink_blob"
                              /\ known'[steps'[j].k] = None
                 /\ j > 0 => (j - 0) + 0 \in DOMAIN steps /\ steps'[j] = steps[(j - 0) + 0]
      BY <2>6, <3>1
    <3>3. IsProgram(steps')
      BY <2>6, <3>1
    <3>4. StepFacts(steps)'
      BY <1>1, <3>2, <3>3, PrependFacts
    <3> QED
      BY <2>3, <3>3, <3>4 DEF StoreInv
  <2>8. CASE k \in Saved
    <3>1. steps' = <<b>> \o steps
      BY <1>3, <2>8 DEF RS!On, b
    <3>2. /\ IsProgram(steps') /\ steps'[1] = b
          /\ \A j \in DOMAIN steps' :
               j \in Nat \ {0} /\ (j > 1 => j - 1 \in DOMAIN steps /\ steps'[j] = steps[j - 1])
      BY <2>4, <2>5, <2>6, <3>1, InFront DEF Unlinks
    <3>3. ASSUME NEW j \in DOMAIN steps'
          PROVE  /\ j <= 1 => /\ steps'[j].do \in Unlinks \cup {"forget"}
                              /\ steps'[j].do = "unlink_blob"
                              /\ known'[steps'[j].k] = None
                 /\ j > 1 => (j - 1) + 0 \in DOMAIN steps /\ steps'[j] = steps[(j - 1) + 0]
      BY <2>2, <2>5, <2>6, <3>2 DEF Unlinks
    <3>4. StepFacts(steps)'
      BY <1>1, <3>2, <3>3, PrependFacts
    <3> QED
      BY <2>3, <3>2, <3>4 DEF StoreInv
  <2> QED
    BY <2>7, <2>8
<1> QED
  BY <1>2, <1>3 DEF RS!PruneBlobs, RS!Next_

(* A command is the last step of its operation.                            *)
LEMMA CommandLast ==
  ASSUME StoreInv, steps # <<>>, steps[1].do \in Commands
  PROVE  Tail(steps) = <<>> /\ IsStep(steps[1]) /\ Head(steps) = steps[1]
<1>1. IsProgram(steps) /\ 1 \in DOMAIN steps
  BY HeadKnown
<1>2. Len(steps) = 1 /\ steps \in Seq(Steps)
  BY <1>1 DEF IsProgram, Ordered
<1>3. Tail(steps) \in Seq(Steps) /\ Len(Tail(steps)) = 0
  BY <1>2
<1>4. Tail(steps) = <<>>
  <2> DEFINE t == Tail(steps)
  <2> HIDE DEF t
  <2>1. t \in Seq(Steps) /\ Len(t) = 0
    BY <1>3 DEF t
  <2>2. t = <<>>
    BY <2>1
  <2> QED
    BY <2>2 DEF t
<1> QED
  BY <1>4, HeadKnown

(* Nothing is left to do.                                                  *)
LEMMA NoSteps == ASSUME steps' = <<>> PROVE IsProgram(steps') /\ StepFacts(steps)'
<1>1. steps' \in Seq(Steps) /\ DOMAIN steps' = {}
  OBVIOUS
<1> QED
  BY <1>1 DEF IsProgram, StepFacts, Ordered

(* One blob to remove is all there is left to do.                          *)
LEMMA OneUnlink ==
  ASSUME NEW k \in RS!Ids, steps' = <<RS!Step("unlink_blob", k, None)>>, known'[k] = None
  PROVE  IsProgram(steps') /\ StepFacts(steps)'
<1> DEFINE b == RS!Step("unlink_blob", k, None)
<1>1. b \in Steps /\ IsStep(b) /\ b.do = "unlink_blob" /\ b.k = k
  BY UnlinkSteps DEF Unlinks
<1>2. steps' = <<b>>
  OBVIOUS
<1> HIDE DEF b
<1>3. steps' \in Seq(Steps) /\ DOMAIN steps' = {1} /\ steps'[1] = b
  BY <1>1, <1>2
<1>4. Ordered(steps')
  <2>1. \A j \in DOMAIN steps' : 1..(j - 1) = {}
    BY <1>3
  <2> QED
    BY <1>1, <1>3, <2>1 DEF Ordered, Commands, MetaWrites
<1>5. IsProgram(steps')
  BY <1>1, <1>3, <1>4 DEF IsProgram
<1>6. StepFacts(steps)'
  BY <1>1, <1>3 DEF StepFacts, CommitKnown, BlobKnown, Forgotten, ReadyClean, ReadySmall, LoadKnown
<1> QED
  BY <1>5, <1>6

(* A read that drops damaged bytes; a file operation that throws.          *)
LEMMA GetKeeps == StoreInv /\ RS!Get => StoreInv'
<1> SUFFICES ASSUME StoreInv, RS!Get PROVE StoreInv'
  OBVIOUS
<1> DEFINE k == steps[1].k
<1>1. /\ steps # <<>> /\ steps[1].do = "get" /\ k \in Assets /\ Tail(steps) = <<>>
      /\ UNCHANGED <<entries, meta, blobFiles, temps, ready, clock3, crashes3>>
  BY HeadKnown, CommandLast DEF RS!Get, RS!Doing, RS!files, RS!world, IsStep, Commands
<1>2. /\ known = [j \in RS!Ids |-> known[j]] /\ RS!Present(known) \subseteq Assets
      /\ RS!Present(known) \cap Saved \subseteq blobFiles
      /\ RS!Present(known) \subseteq RS!Present(entries) /\ RS!TypeOK /\ k \in RS!Ids
  BY <1>1 DEF StoreInv, Memory, OnDisk, RS!TypeOK, RS!Ids
<1>3. ASSUME known' = [j \in RS!Ids |-> known'[j]], RS!Present(known') \subseteq RS!Present(known)
      PROVE  Memory' /\ OnDisk' /\ WithinLimit'
  BY <1>1, <1>2, <1>3, Settled DEF StoreInv, Memory, OnDisk, WithinLimit, RS!TypeOK, RS!Present,
     Small
<1>4. CASE known' = known /\ steps' = <<>>
  BY <1>2, <1>3, <1>4, NoSteps DEF StoreInv
<1>5. CASE known' = [known EXCEPT ![k] = clock3] /\ k \in RS!Present(known) /\ steps' = <<>>
  <2>1. known' = [j \in RS!Ids |-> known'[j]] /\ RS!Present(known') \subseteq RS!Present(known)
    BY <1>2, <1>5 DEF RS!Present
  <2> QED
    BY <1>3, <1>5, <2>1, NoSteps DEF StoreInv
<1>6. CASE known' = [known EXCEPT ![k] = None]
               /\ steps' = RS!On(k, <<RS!Step("unlink_blob", k, None)>>) \o <<>>
  <2>1. /\ known' = [j \in RS!Ids |-> known'[j]] /\ RS!Present(known') \subseteq RS!Present(known)
        /\ known'[k] = None
    BY <1>2, <1>6 DEF RS!Present
  <2> DEFINE b == RS!Step("unlink_blob", k, None)
  <2>2. steps' = <<>> \/ steps' = <<b>>
    <3> HIDE DEF b
    <3>1. steps' = RS!On(k, <<b>>) \o <<>>
      BY <1>6 DEF b
    <3>2. <<b>> \o <<>> = <<b>> /\ <<>> \o <<>> = <<>>
      OBVIOUS
    <3> QED
      BY <3>1, <3>2 DEF RS!On
  <2>3. IsProgram(steps') /\ StepFacts(steps)'
    <3> HIDE DEF k
    <3> QED
      BY <1>2, <2>1, <2>2, NoSteps, OneUnlink
  <2> QED
    BY <1>3, <2>1, <2>3 DEF StoreInv
<1>7. Head(steps) = steps[1]
  BY <1>1, HeadKnown
<1> QED
  BY <1>1, <1>4, <1>5, <1>6, <1>7 DEF RS!Get, RS!Next_, RS!Then, RS!K

LEMMA FileFailsKeeps == StoreInv /\ RS!FileFails => StoreInv'
<1> SUFFICES ASSUME StoreInv, RS!FileFails PROVE StoreInv'
  OBVIOUS
<1> DEFINE k == steps[1].k
<1>1. /\ steps # <<>> /\ Head(steps) = steps[1] /\ IsStep(steps[1]) /\ Forgotten(steps, 1)
      /\ steps[1].do \notin {"commit", "set_blob", "entries"}
      /\ steps' = IF steps[1].do \in {"new_temp", "new_meta"}
                    THEN <<RS!Step("unlink_blob", k, None)>> ELSE <<>>
      /\ UNCHANGED <<entries, known, meta, blobFiles, ready, clock3, crashes3>>
  BY HeadKnown DEF RS!FileFails, RS!memory, RS!world, RS!K
<1>2. temps' \in BOOLEAN
  BY DEF RS!FileFails
<1>3. Memory' /\ OnDisk' /\ WithinLimit'
  BY <1>1, <1>2, Settled DEF StoreInv, Memory, OnDisk, WithinLimit, RS!TypeOK, RS!Present, Small
<1>4. CASE steps[1].do \in {"new_temp", "new_meta"}
  <2>1. k \in RS!Ids /\ known'[k] = None
    BY <1>1, <1>4, RecoveryAssumption DEF IsStep, MetaWrites, Forgotten, RS!StoreAssumption, RS!Ids
  <2>2. steps' = <<RS!Step("unlink_blob", k, None)>>
    BY <1>1, <1>4
  <2> HIDE DEF k
  <2>3. IsProgram(steps') /\ StepFacts(steps)'
    BY <2>1, <2>2, OneUnlink
  <2> QED
    BY <1>3, <2>3 DEF StoreInv
<1>5. CASE steps[1].do \notin {"new_temp", "new_meta"}
  BY <1>1, <1>3, <1>5, NoSteps DEF StoreInv
<1> QED
  BY <1>4, <1>5

(* Between two steps of others nothing but the list of steps changes.      *)
LEMMA Resting ==
  ASSUME StoreInv, steps = <<>> \/ (steps # <<>> /\ steps[1].do \in Commands),
         UNCHANGED <<entries, known, meta, blobFiles, temps, ready, clock3, crashes3>>
  PROVE  Memory' /\ OnDisk' /\ WithinLimit'
<1>1. /\ \A k \in RS!Present(entries) \cap Saved : meta[k] = entries[k]
      /\ ready => Small
  BY Settled DEF Commands
<1> QED
  BY <1>1 DEF StoreInv, Memory, OnDisk, WithinLimit, RS!TypeOK, RS!Present, Small

(* Steps and records have the types of the invariant.                      *)
LEMMA StepIs ==
  ASSUME NEW do \in Names, NEW k \in RS!Ids \cup {None}, NEW x \in Records \cup Contents \cup {None}
  PROVE  LET e == RS!Step(do, k, x) IN e \in Steps /\ e.do = do /\ e.k = k /\ e.x = x
<1> DEFINE e == RS!Step(do, k, x)
<1>1. e = [do |-> do, k |-> k, x |-> x]
  BY DEF RS!Step
<1>2. x \in Records \cup Contents \cup {None} \cup SUBSET RS!Ids
  OBVIOUS
<1> QED
  BY <1>1, <1>2 DEF Steps

LEMMA RecordIs ==
  ASSUME StoreInv, NEW v \in Contents \cup {None}
  PROVE  RS!Record(v) \in Records /\ RS!Record(v).value = v
BY DEF RS!Record, Records, StoreInv, Memory

(* The lists of steps that the operations make, read index by index.       *)
LEMMA PutProgram ==
  ASSUME NEW e1 \in Steps, NEW e2 \in Steps, NEW e3 \in Steps, NEW e4 \in Steps,
         NEW e5 \in Steps, NEW e6 \in Steps, NEW e7 \in Steps, NEW e8 \in Steps
  PROVE  /\ LET s == (<<e1, e2, e3, e4>> \o <<e5, e6>> \o <<e7, e8>>) \o <<>> IN
            /\ s \in Seq(Steps) /\ Len(s) = 8
            /\ s[1] = e1 /\ s[2] = e2 /\ s[3] = e3 /\ s[4] = e4
            /\ s[5] = e5 /\ s[6] = e6 /\ s[7] = e7 /\ s[8] = e8
         /\ LET s == (<<>> \o <<e5, e6>> \o <<e7, e8>>) \o <<>> IN
            /\ s \in Seq(Steps) /\ Len(s) = 4
            /\ s[1] = e5 /\ s[2] = e6 /\ s[3] = e7 /\ s[4] = e8
OBVIOUS

LEMMA WriteProgram ==
  ASSUME NEW e1 \in Steps, NEW e2 \in Steps, NEW e3 \in Steps, NEW e4 \in Steps
  PROVE  /\ LET s == (<<e1, e2>> \o <<e3, e4>>) \o <<>> IN
            /\ s \in Seq(Steps) /\ Len(s) = 4
            /\ s[1] = e1 /\ s[2] = e2 /\ s[3] = e3 /\ s[4] = e4
         /\ LET s == (<<>> \o <<e3, e4>>) \o <<>> IN
            /\ s \in Seq(Steps) /\ Len(s) = 2 /\ s[1] = e3 /\ s[2] = e4
OBVIOUS

LEMMA StartProgram ==
  ASSUME NEW e1 \in Steps, NEW e2 \in Steps, NEW e3 \in Steps, NEW e4 \in Steps,
         NEW e5 \in Steps, NEW e6 \in Steps, NEW c \in Steps
  PROVE  /\ LET s == (<<e1>> \o <<e2>> \o <<e3, e4, e5, e6>>) \o <<e2>> \o <<c>> IN
            /\ s \in Seq(Steps) /\ Len(s) = 8
            /\ s[1] = e1 /\ s[2] = e2 /\ s[3] = e3 /\ s[4] = e4
            /\ s[5] = e5 /\ s[6] = e6 /\ s[7] = e2 /\ s[8] = c
         /\ LET s == (<<e1>> \o <<e2>> \o <<e3, e4, e5, e6>>) \o <<e2>> \o <<>> IN
            /\ s \in Seq(Steps) /\ Len(s) = 7
            /\ s[1] = e1 /\ s[2] = e2 /\ s[3] = e3 /\ s[4] = e4
            /\ s[5] = e5 /\ s[6] = e6 /\ s[7] = e2
         /\ LET s == <<>> \o <<e2>> \o <<c>> IN
            s \in Seq(Steps) /\ Len(s) = 2 /\ s[1] = e2 /\ s[2] = c
         /\ LET s == <<>> \o <<e2>> \o <<>> IN
            s \in Seq(Steps) /\ Len(s) = 1 /\ s[1] = e2
OBVIOUS

(* Putting a source, for a new blob and a known one, persistent or not.    *)
LEMMA PutKeeps == StoreInv /\ RS!Put => StoreInv'
<1> SUFFICES ASSUME StoreInv, RS!Put PROVE StoreInv'
  OBVIOUS
<1> DEFINE k == steps[1].k
           rec == RS!Record(IF entries[k] = None THEN None ELSE entries[k].value)
           new == known[k] = None
           n3 == IF new THEN "new_temp" ELSE "temp"
           n4 == IF new THEN "new_meta" ELSE "meta"
           e1 == RS!Step("temp", k, None)
           e2 == RS!Step("blob", k, None)
           e3 == RS!Step(n3, k, None)
           e4 == RS!Step(n4, k, rec)
           e5 == RS!Step("commit", k, rec)
           e6 == RS!Step("set_blob", k, None)
           e7 == RS!Step("entries", None, None)
           e8 == RS!Step("blobs", None, None)
<1>1. /\ steps # <<>> /\ steps[1].do = "put" /\ k \in Assets /\ Tail(steps) = <<>>
      /\ UNCHANGED <<entries, known, meta, blobFiles, temps, ready, clock3, crashes3>>
      /\ steps[1].do \in Commands
      /\ steps' = (RS!On(k, <<e1, e2, e3, e4>>) \o <<e5, e6>> \o <<e7, e8>>) \o <<>>
  BY HeadKnown, CommandLast
     DEF RS!Put, RS!Doing, RS!memory, RS!files, RS!world, IsStep, Commands, RS!Then, RS!K, RS!Prune
<1>2. k \in RS!Ids /\ entries \in [RS!Ids -> Records \cup {None}]
  BY <1>1 DEF RS!Ids, StoreInv, Memory
<1>3. /\ rec \in Records
      /\ entries[k] # None => (entries[k].value # None => rec.value # None)
  <2>1. entries[k] # None => entries[k].value \in Contents \cup {None}
    BY <1>2 DEF Records
  <2>2. CASE entries[k] = None
    BY <2>2, RecordIs
  <2>3. CASE entries[k] # None
    BY <2>1, <2>3, RecordIs
  <2> QED
    BY <2>2, <2>3
<1>4. {n3, n4, "temp", "blob", "commit", "set_blob", "entries", "blobs"} \subseteq Names
  BY DEF Names
<1>5. rec \in Records \cup Contents \cup {None} /\ None \in Records \cup Contents \cup {None}
      /\ k \in RS!Ids \cup {None} /\ None \in RS!Ids \cup {None}
  BY <1>2, <1>3
<1> HIDE DEF k, rec, n3, n4
<1>6. /\ e1 \in Steps /\ e1.do = "temp" /\ e1.k = k
      /\ e2 \in Steps /\ e2.do = "blob" /\ e2.k = k
      /\ e3 \in Steps /\ e3.do = n3 /\ e3.k = k
      /\ e4 \in Steps /\ e4.do = n4 /\ e4.k = k /\ e4.x = rec
  BY <1>4, <1>5, StepIs
<1>7. /\ e5 \in Steps /\ e5.do = "commit" /\ e5.k = k /\ e5.x = rec
      /\ e6 \in Steps /\ e6.do = "set_blob" /\ e6.k = k
      /\ e7 \in Steps /\ e7.do = "entries"
      /\ e8 \in Steps /\ e8.do = "blobs"
  BY <1>4, <1>5, StepIs
<1> HIDE DEF e1, e2, e3, e4, e5, e6, e7, e8
<1>8. CASE k \in Saved
  <2>1. steps' = (<<e1, e2, e3, e4>> \o <<e5, e6>> \o <<e7, e8>>) \o <<>>
    BY <1>1, <1>8 DEF RS!On
  <2>2. /\ steps' \in Seq(Steps) /\ Len(steps') = 8 /\ DOMAIN steps' = 1..8
        /\ steps'[1] = e1 /\ steps'[2] = e2 /\ steps'[3] = e3 /\ steps'[4] = e4
        /\ steps'[5] = e5 /\ steps'[6] = e6 /\ steps'[7] = e7 /\ steps'[8] = e8
    BY <1>6, <1>7, <2>1, PutProgram
  <2>3. new \in BOOLEAN /\ n3 = (IF new THEN "new_temp" ELSE "temp")
        /\ n4 = (IF new THEN "new_meta" ELSE "meta")
    BY DEF n3, n4
  <2>4. IsProgram(steps')
    <3> HIDE DEF new
    <3> QED
      BY <1>1, <1>3, <1>6, <1>7, <1>8, <2>2, <2>3, PutSaved, ZenonT(60)
  <2>5. StepFacts(steps)'
    <3>1. ASSUME NEW j \in DOMAIN steps'
          PROVE  /\ CommitKnown(steps, j)' /\ BlobKnown(steps, j)' /\ Forgotten(steps, j)'
                 /\ ReadyClean(steps, j)' /\ ReadySmall(steps, j)' /\ LoadKnown(steps, j)'
      <4>1. CASE j \in {1, 2, 7, 8}
        BY <1>6, <1>7, <2>2, <4>1
           DEF CommitKnown, BlobKnown, Forgotten, ReadyClean, ReadySmall, LoadKnown
      <4>2. CASE j \in {3, 4}
        BY <1>1, <1>6, <2>2, <2>3, <4>2, ZenonT(60)
           DEF CommitKnown, BlobKnown, Forgotten, ReadyClean, ReadySmall, LoadKnown
      <4>3. CASE j = 5
        BY <1>1, <1>3, <1>7, <2>2, <4>3
           DEF CommitKnown, KeepsEvidence, BlobKnown, Forgotten, ReadyClean, ReadySmall, LoadKnown
      <4>4. CASE j = 6
        <5>1. 2 \in 1..(j - 1) /\ steps'[2].do = "blob" /\ steps'[2].k = k
          BY <1>6, <2>2, <4>4
        <5> QED
          BY <1>7, <2>2, <4>4, <5>1
             DEF CommitKnown, BlobKnown, Forgotten, ReadyClean, ReadySmall, LoadKnown
      <4> QED
        BY <2>2, <4>1, <4>2, <4>3, <4>4
    <3> QED
      BY <3>1 DEF StepFacts
  <2> QED
    BY <1>1, <2>4, <2>5, Resting DEF StoreInv
<1>9. CASE k \notin Saved
  <2>1. steps' = (<<>> \o <<e5, e6>> \o <<e7, e8>>) \o <<>>
    BY <1>1, <1>9 DEF RS!On
  <2>2. /\ steps' \in Seq(Steps) /\ Len(steps') = 4 /\ DOMAIN steps' = 1..4
        /\ steps'[1] = e5 /\ steps'[2] = e6 /\ steps'[3] = e7 /\ steps'[4] = e8
    BY <1>6, <1>7, <2>1, PutProgram
  <2>3. IsProgram(steps')
    BY <1>1, <1>3, <1>7, <1>9, <2>2, PutUnsaved
  <2>4. StepFacts(steps)'
    <3>1. ASSUME NEW j \in DOMAIN steps'
          PROVE  /\ CommitKnown(steps, j)' /\ BlobKnown(steps, j)' /\ Forgotten(steps, j)'
                 /\ ReadyClean(steps, j)' /\ ReadySmall(steps, j)' /\ LoadKnown(steps, j)'
      BY <1>1, <1>3, <1>7, <1>9, <2>2, <3>1
         DEF CommitKnown, KeepsEvidence, BlobKnown, Forgotten, ReadyClean, ReadySmall, LoadKnown
    <3> QED
      BY <3>1 DEF StepFacts
  <2> QED
    BY <1>1, <2>3, <2>4, Resting DEF StoreInv
<1> QED
  BY <1>8, <1>9

(* What is left to do for a record: its file first, then the memory.       *)
FileThenMemory(k, rec) ==
    (RS!WriteMeta(k, rec) \o <<RS!Step("commit", k, rec), RS!Step("entries", None, None)>>) \o <<>>

(* Writing a record keeps the invariant, and so do the two operations that do. *)
LEMMA WriteKeeps ==
  ASSUME StoreInv, steps # <<>>, steps[1].do \in Commands, NEW k \in RS!Ids, NEW v \in Contents,
         UNCHANGED <<entries, known, meta, blobFiles, temps, ready, clock3, crashes3>>,
         steps' = FileThenMemory(k, RS!Record(v))
  PROVE  StoreInv'
<1> DEFINE rec == RS!Record(v)
           e1 == RS!Step("temp", k, None)
           e2 == RS!Step("meta", k, rec)
           e3 == RS!Step("commit", k, rec)
           e4 == RS!Step("entries", None, None)
<1>1. steps' = (RS!On(k, <<e1, e2>>) \o <<e3, e4>>) \o <<>>
  BY DEF FileThenMemory, RS!WriteMeta
<1>2. rec \in Records /\ rec.value # None
  BY RecordIs, RecoveryAssumption DEF RS!StoreAssumption
<1>3. {"temp", "meta", "commit", "entries"} \subseteq Names
  BY DEF Names
<1>4. /\ rec \in Records \cup Contents \cup {None} /\ None \in Records \cup Contents \cup {None}
      /\ k \in RS!Ids \cup {None} /\ None \in RS!Ids \cup {None}
  BY <1>2
<1> HIDE DEF rec
<1>5. /\ e1 \in Steps /\ e1.do = "temp" /\ e1.k = k
      /\ e2 \in Steps /\ e2.do = "meta" /\ e2.k = k /\ e2.x = rec
      /\ e3 \in Steps /\ e3.do = "commit" /\ e3.k = k /\ e3.x = rec
      /\ e4 \in Steps /\ e4.do = "entries"
  BY <1>3, <1>4, StepIs
<1> HIDE DEF e1, e2, e3, e4
<1>6. CASE k \in Saved
  <2>1. steps' = (<<e1, e2>> \o <<e3, e4>>) \o <<>>
    BY <1>1, <1>6 DEF RS!On
  <2>2. /\ steps' \in Seq(Steps) /\ Len(steps') = 4 /\ DOMAIN steps' = 1..4
        /\ steps'[1] = e1 /\ steps'[2] = e2 /\ steps'[3] = e3 /\ steps'[4] = e4
    BY <1>5, <2>1, WriteProgram
  <2>3. IsProgram(steps')
    BY <1>2, <1>5, <1>6, <2>2, WriteSaved
  <2>4. StepFacts(steps)'
    <3>1. ASSUME NEW j \in DOMAIN steps'
          PROVE  /\ CommitKnown(steps, j)' /\ BlobKnown(steps, j)' /\ Forgotten(steps, j)'
                 /\ ReadyClean(steps, j)' /\ ReadySmall(steps, j)' /\ LoadKnown(steps, j)'
      BY <1>2, <1>5, <2>2, <3>1
         DEF CommitKnown, KeepsEvidence, BlobKnown, Forgotten, ReadyClean, ReadySmall, LoadKnown
    <3> QED
      BY <3>1 DEF StepFacts
  <2> QED
    BY <2>3, <2>4, Resting DEF StoreInv
<1>7. CASE k \notin Saved
  <2>1. steps' = (<<>> \o <<e3, e4>>) \o <<>>
    BY <1>1, <1>7 DEF RS!On
  <2>2. /\ steps' \in Seq(Steps) /\ Len(steps') = 2 /\ DOMAIN steps' = 1..2
        /\ steps'[1] = e3 /\ steps'[2] = e4
    BY <1>5, <2>1, WriteProgram
  <2>3. IsProgram(steps')
    BY <1>2, <1>5, <1>7, <2>2, WriteUnsaved
  <2>4. StepFacts(steps)'
    <3>1. ASSUME NEW j \in DOMAIN steps'
          PROVE  /\ CommitKnown(steps, j)' /\ BlobKnown(steps, j)' /\ Forgotten(steps, j)'
                 /\ ReadyClean(steps, j)' /\ ReadySmall(steps, j)' /\ LoadKnown(steps, j)'
      BY <1>2, <1>5, <1>7, <2>2, <3>1
         DEF CommitKnown, KeepsEvidence, BlobKnown, Forgotten, ReadyClean, ReadySmall, LoadKnown
    <3> QED
      BY <3>1 DEF StepFacts
  <2> QED
    BY <2>3, <2>4, Resting DEF StoreInv
<1> QED
  BY <1>6, <1>7

LEMMA EvidenceKeeps == StoreInv /\ RS!Evidence => StoreInv'
<1> SUFFICES ASSUME StoreInv, RS!Evidence PROVE StoreInv'
  OBVIOUS
<1>1. /\ steps # <<>> /\ steps[1].do \in Commands /\ Head(steps) = steps[1] /\ Tail(steps) = <<>>
      /\ steps[1].k \in RS!Ids /\ steps[1].x \in Contents
      /\ UNCHANGED <<entries, known, meta, blobFiles, temps, ready, clock3, crashes3>>
  BY HeadKnown, CommandLast
     DEF RS!Evidence, RS!Doing, RS!memory, RS!files, RS!world, IsStep, Commands, RS!Ids
<1>2. CASE steps' = <<>>
  BY <1>1, <1>2, NoSteps, Resting DEF StoreInv
<1>3. CASE steps' = FileThenMemory(steps[1].k, RS!Record(steps[1].x))
  BY <1>1, <1>3, WriteKeeps
<1> QED
  BY <1>1, <1>2, <1>3 DEF RS!Evidence, RS!Next_, RS!Then, RS!K, FileThenMemory

LEMMA SaveKeeps == StoreInv /\ RS!Save => StoreInv'
<1> SUFFICES ASSUME StoreInv, RS!Save PROVE StoreInv'
  OBVIOUS
<1>1. /\ steps # <<>> /\ steps[1].do \in Commands /\ Head(steps) = steps[1] /\ Tail(steps) = <<>>
      /\ steps[1].k \in RS!Ids /\ steps[1].x \in Contents
      /\ UNCHANGED <<entries, known, meta, blobFiles, temps, ready, clock3, crashes3>>
  BY HeadKnown, CommandLast
     DEF RS!Save, RS!Doing, RS!memory, RS!files, RS!world, IsStep, Commands, RS!Ids
<1>2. steps' = FileThenMemory(steps[1].k, RS!Record(steps[1].x))
  BY <1>1 DEF RS!Save, RS!Then, RS!K, FileThenMemory
<1> QED
  BY <1>1, <1>2, WriteKeeps

(* An operation starts: the sweep, and the loading before it if the store  *)
(* is not ready.                                                           *)
LEMMA BeginKeeps ==
  ASSUME StoreInv, NEW todo, RS!Begin(todo),
         todo = <<>> \/ \E c \in Steps : c.do \in Commands /\ IsStep(c) /\ todo = <<c>>
  PROVE  StoreInv'
<1> DEFINE e1 == RS!Step("load", None, None)
           e2 == RS!Step("expired", None, None)
           e3 == RS!Step("entries", None, None)
           e4 == RS!Step("load_blobs", None, None)
           e5 == RS!Step("blobs", None, None)
           e6 == RS!Step("ready", None, None)
           all == <<e1>> \o <<e2>> \o <<e3, e4, e5, e6>>
<1>1. /\ steps = <<>>
      /\ UNCHANGED <<entries, known, meta, blobFiles, temps, ready, clock3, crashes3>>
      /\ steps' = (IF ready THEN <<>> ELSE all) \o <<e2>> \o todo
  BY DEF RS!Begin, RS!memory, RS!files, RS!world, RS!Expire
<1>2. /\ {"load", "expired", "entries", "load_blobs", "blobs", "ready"} \subseteq Names
      /\ None \in Records \cup Contents \cup {None} /\ None \in RS!Ids \cup {None}
  BY DEF Names
<1>3. /\ e1 \in Steps /\ e1.do = "load"
      /\ e2 \in Steps /\ e2.do = "expired"
      /\ e3 \in Steps /\ e3.do = "entries"
      /\ e4 \in Steps /\ e4.do = "load_blobs"
      /\ e5 \in Steps /\ e5.do = "blobs"
      /\ e6 \in Steps /\ e6.do = "ready"
  BY <1>2, StepIs
<1> HIDE DEF e1, e2, e3, e4, e5, e6
<1>4. Memory' /\ OnDisk' /\ WithinLimit'
  BY <1>1, Resting
<1>5. ASSUME NEW s, NEW j \in DOMAIN s,
             s[j].do \in {"expired", "entries", "load_blobs", "blobs"} \cup Commands,
             s = steps'
      PROVE  /\ CommitKnown(steps, j)' /\ BlobKnown(steps, j)' /\ Forgotten(steps, j)'
             /\ ReadyClean(steps, j)' /\ ReadySmall(steps, j)' /\ LoadKnown(steps, j)'
  BY <1>5 DEF CommitKnown, BlobKnown, Forgotten, ReadyClean, ReadySmall, LoadKnown, Commands
<1>6. ASSUME ~ready,
             7 \in DOMAIN steps', \A j \in DOMAIN steps' : j \in 1..8,
             steps'[1] = e1, steps'[2] = e2, steps'[3] = e3, steps'[4] = e4, steps'[5] = e5,
             steps'[6] = e6, steps'[7] = e2, 8 \in DOMAIN steps' => steps'[8].do \in Commands
      PROVE  StepFacts(steps)'
  <2>1. SUFFICES ASSUME NEW j \in DOMAIN steps'
                 PROVE  /\ CommitKnown(steps, j)' /\ BlobKnown(steps, j)' /\ Forgotten(steps, j)'
                        /\ ReadyClean(steps, j)' /\ ReadySmall(steps, j)' /\ LoadKnown(steps, j)'
    BY DEF StepFacts
  <2>2. CASE j \notin {1, 6}
    <3>1. steps'[j].do \in {"expired", "entries", "load_blobs", "blobs"} \cup Commands
      BY <1>3, <1>6, <2>2
    <3> QED
      BY <1>5, <3>1
  <2>3. CASE j = 1
    BY <1>1, <1>3, <1>6, <2>3
       DEF CommitKnown, BlobKnown, Forgotten, ReadyClean, ReadySmall, LoadKnown
  <2>4. CASE j = 6
    <3>1. 4 \in 1..(j - 1) /\ steps'[4].do = "load_blobs"
          /\ \A m \in (4 + 1)..(j - 1) : steps'[m].do \in {"blobs", "unlink_blob"}
      BY <1>3, <1>6, <2>4
    <3>2. 3 \in 1..(j - 1) /\ steps'[3].do = "entries"
          /\ \A m \in (3 + 1)..(j - 1) : steps'[m].do \in {"blobs", "unlink_blob", "load_blobs"}
      BY <1>3, <1>6, <2>4
    <3>3. ReadyClean(steps, j)' /\ ReadySmall(steps, j)'
      BY <3>1, <3>2 DEF ReadyClean, ReadySmall
    <3> QED
      BY <1>3, <1>6, <2>4, <3>3 DEF CommitKnown, BlobKnown, Forgotten, LoadKnown
  <2> QED
    BY <2>2, <2>3, <2>4
<1>7. CASE todo = <<>> /\ ready
  <2>1. steps' = <<>> \o <<e2>> \o <<>>
    BY <1>1, <1>7
  <2>2. steps' \in Seq(Steps) /\ Len(steps') = 1 /\ DOMAIN steps' = 1..1 /\ steps'[1] = e2
    BY <1>3, <2>1, StartProgram
  <2>3. IsProgram(steps')
    BY <1>3, <2>2, SweepOnly
  <2>4. StepFacts(steps)'
    BY <1>3, <1>5, <2>2 DEF StepFacts
  <2> QED
    BY <1>4, <2>3, <2>4 DEF StoreInv
<1>8. CASE todo = <<>> /\ ~ready
  <2>1. steps' = all \o <<e2>> \o <<>>
    BY <1>1, <1>8
  <2>2. /\ steps' \in Seq(Steps) /\ Len(steps') = 7 /\ DOMAIN steps' = 1..7
        /\ steps'[1] = e1 /\ steps'[2] = e2 /\ steps'[3] = e3 /\ steps'[4] = e4
        /\ steps'[5] = e5 /\ steps'[6] = e6 /\ steps'[7] = e2
    BY <1>3, <2>1, StartProgram
  <2>3. IsProgram(steps')
    BY <1>3, <2>2, LoadOnly
  <2>4. StepFacts(steps)'
    BY <1>6, <1>8, <2>2
  <2> QED
    BY <1>4, <2>3, <2>4 DEF StoreInv
<1>9. ASSUME NEW c \in Steps, c.do \in Commands, IsStep(c), todo = <<c>>
      PROVE  StoreInv'
  <2>1. CASE ready
    <3>1. steps' = <<>> \o <<e2>> \o <<c>>
      BY <1>1, <1>9, <2>1
    <3>2. steps' \in Seq(Steps) /\ Len(steps') = 2 /\ DOMAIN steps' = 1..2 /\ steps'[1] = e2
              /\ steps'[2] = c
      BY <1>3, <3>1, StartProgram
    <3>3. IsProgram(steps')
      BY <1>3, <1>9, <3>2, SweepCommand
    <3>4. StepFacts(steps)'
      BY <1>3, <1>5, <1>9, <3>2 DEF StepFacts
    <3> QED
      BY <1>4, <3>3, <3>4 DEF StoreInv
  <2>2. CASE ~ready
    <3>1. steps' = all \o <<e2>> \o <<c>>
      BY <1>1, <1>9, <2>2
    <3>2. /\ steps' \in Seq(Steps) /\ Len(steps') = 8 /\ DOMAIN steps' = 1..8
          /\ steps'[1] = e1 /\ steps'[2] = e2 /\ steps'[3] = e3 /\ steps'[4] = e4
          /\ steps'[5] = e5 /\ steps'[6] = e6 /\ steps'[7] = e2 /\ steps'[8] = c
      BY <1>3, <3>1, StartProgram
    <3>3. IsProgram(steps')
      BY <1>3, <1>9, <3>2, LoadCommand
    <3>4. StepFacts(steps)'
      BY <1>6, <1>9, <2>2, <3>2
    <3> QED
      BY <1>4, <3>3, <3>4 DEF StoreInv
  <2> QED
    BY <2>1, <2>2
<1> QED
  BY <1>7, <1>8, <1>9

(* The operations start.                                                   *)
LEMMA CommandIs ==
  ASSUME NEW do \in Commands, NEW k \in RS!Ids, NEW x \in Contents \cup {None},
         do \in {"put", "get", "evidence"} => k \in Assets,
         do = "save" => k \in Recoveries,
         do \in {"evidence", "save"} => x \in Contents
  PROVE  \E c \in Steps : c.do \in Commands /\ IsStep(c) /\ <<RS!Step(do, k, x)>> = <<c>>
<1> DEFINE c == RS!Step(do, k, x)
<1>1. do \in Names /\ k \in RS!Ids \cup {None} /\ x \in Records \cup Contents \cup {None}
  BY DEF Commands, Names
<1>2. c \in Steps /\ c.do = do /\ c.k = k /\ c.x = x
  BY <1>1, StepIs
<1> HIDE DEF c
<1>3. IsStep(c)
  BY <1>2 DEF IsStep, Commands, MetaWrites, Unlinks
<1>4. c \in Steps /\ c.do \in Commands /\ IsStep(c) /\ <<RS!Step(do, k, x)>> = <<c>>
  BY <1>2, <1>3 DEF c
<1> QED
  BY <1>4

LEMMA OperationKeeps == StoreInv /\ RS!Operation => StoreInv'
<1> SUFFICES ASSUME StoreInv, RS!Operation PROVE StoreInv'
  OBVIOUS
<1>1. Assets \subseteq RS!Ids /\ Recoveries \subseteq RS!Ids /\ None \in Contents \cup {None}
      /\ {"put", "get", "evidence", "save"} \subseteq Commands
  BY DEF RS!Ids, Commands
<1>2. ASSUME NEW k \in Assets, RS!PutSource(k) PROVE StoreInv'
  <2>1. \E c \in Steps : c.do \in Commands /\ IsStep(c) /\ <<RS!Step("put", k, None)>> = <<c>>
    BY <1>1, CommandIs
  <2> QED
    BY <1>2, <2>1, BeginKeeps DEF RS!PutSource
<1>3. ASSUME NEW k \in Assets, RS!GetBytes(k) PROVE StoreInv'
  <2>1. \E c \in Steps : c.do \in Commands /\ IsStep(c) /\ <<RS!Step("get", k, None)>> = <<c>>
    BY <1>1, CommandIs
  <2> QED
    BY <1>3, <2>1, BeginKeeps DEF RS!GetBytes
<1>4. ASSUME NEW k \in Assets, NEW v \in Contents, RS!SetEvidence(k, v) PROVE StoreInv'
  <2>1. \E c \in Steps : c.do \in Commands /\ IsStep(c) /\ <<RS!Step("evidence", k, v)>> = <<c>>
    BY <1>1, CommandIs
  <2> QED
    BY <1>4, <2>1, BeginKeeps DEF RS!SetEvidence
<1>5. ASSUME NEW k \in Recoveries, NEW v \in Contents, RS!SaveRecovery(k, v) PROVE StoreInv'
  <2>1. \E c \in Steps : c.do \in Commands /\ IsStep(c) /\ <<RS!Step("save", k, v)>> = <<c>>
    BY <1>1, CommandIs
  <2> QED
    BY <1>5, <2>1, BeginKeeps DEF RS!SaveRecovery
<1>6. CASE RS!List
  BY <1>6, BeginKeeps DEF RS!List
<1> QED
  BY <1>2, <1>3, <1>4, <1>5, <1>6 DEF RS!Operation

(* The store starts empty, and again after a crash but for its files.      *)
LEMMA StoreStarts == RS!Init => StoreInv
<1> SUFFICES ASSUME RS!Init PROVE StoreInv
  OBVIOUS
<1>1. /\ entries = [k \in RS!Ids |-> None] /\ known = [k \in RS!Ids |-> None]
      /\ meta = [k \in RS!Ids |-> None] /\ blobFiles = {} /\ temps = FALSE
      /\ steps = <<>> /\ ready = FALSE /\ clock3 = 0
  BY DEF RS!Init, RS!Nothing
<1>2. MaxClock \in Nat
  BY RecoveryAssumption DEF RS!StoreAssumption
<1>3. Memory
  <2>1. /\ entries \in [RS!Ids -> Records \cup {None}] /\ meta \in [RS!Ids -> Records \cup {None}]
        /\ known = [k \in RS!Ids |-> known[k]] /\ clock3 \in 0..MaxClock
    BY <1>1, <1>2
  <2>2. RS!Present(entries) = {} /\ RS!Present(known) = {} /\ RS!Present(meta) = {}
    BY <1>1 DEF RS!Present
  <2>3. {temps, ready} \subseteq BOOLEAN
    BY <1>1
  <2>4. RS!TypeOK
    BY <1>1, <2>2, <2>3 DEF RS!TypeOK
  <2> QED
    BY <2>1, <2>4 DEF Memory
<1>4. IsProgram(steps) /\ StepFacts(steps)
  <2>1. steps \in Seq(Steps) /\ DOMAIN steps = {}
    BY <1>1
  <2> QED
    BY <2>1 DEF IsProgram, StepFacts, Ordered
<1>5. OnDisk /\ WithinLimit
  BY <1>1 DEF OnDisk, WithinLimit, RS!Present
<1> QED
  BY <1>3, <1>4, <1>5 DEF StoreInv

LEMMA CrashKeeps == StoreInv /\ RS!Crash => StoreInv'
<1> SUFFICES ASSUME StoreInv, RS!Crash PROVE StoreInv'
  OBVIOUS
<1>1. /\ entries' = [k \in RS!Ids |-> None] /\ known' = [k \in RS!Ids |-> None]
      /\ UNCHANGED <<meta, blobFiles, temps, clock3>> /\ steps' = <<>> /\ ready' = FALSE
  BY DEF RS!Crash, RS!Nothing, RS!files
<1>2. Memory'
  BY <1>1 DEF StoreInv, Memory, RS!TypeOK, RS!Present
<1>3. OnDisk' /\ WithinLimit'
  BY <1>1 DEF OnDisk, WithinLimit, RS!Present
<1> QED
  BY <1>1, <1>2, <1>3, NoSteps DEF StoreInv

LEMMA RestKeeps ==
  ASSUME StoreInv, UNCHANGED <<entries, known, meta, blobFiles, temps, steps, ready>>,
         clock3' \in 0..MaxClock
  PROVE  StoreInv'
<1>1. Memory'
  BY DEF StoreInv, Memory, RS!TypeOK, RS!Present
<1>2. OnDisk' /\ WithinLimit'
  BY DEF StoreInv, OnDisk, WithinLimit, RS!Present, Small
<1>3. StepFacts(steps)'
  <2>1. SUFFICES ASSUME NEW j \in DOMAIN steps'
                 PROVE  /\ CommitKnown(steps, j)' /\ BlobKnown(steps, j)' /\ Forgotten(steps, j)'
                        /\ ReadyClean(steps, j)' /\ ReadySmall(steps, j)' /\ LoadKnown(steps, j)'
    BY DEF StepFacts
  <2>2. /\ CommitKnown(steps, j) /\ BlobKnown(steps, j) /\ Forgotten(steps, j)
        /\ ReadyClean(steps, j) /\ ReadySmall(steps, j) /\ LoadKnown(steps, j)
    BY DEF StoreInv, StepFacts
  <2> QED
    BY <2>2 DEF CommitKnown, KeepsEvidence, BlobKnown, Forgotten, ReadyClean, ReadySmall,
                LoadKnown, Clean, Small, RS!Present
<1> QED
  BY <1>1, <1>2, <1>3 DEF StoreInv

(* Every step keeps the invariant.                                         *)
LEMMA StoreStep == StoreInv /\ [RS!Next]_(RS!vars) => StoreInv'
<1> SUFFICES ASSUME StoreInv, [RS!Next]_(RS!vars) PROVE StoreInv'
  OBVIOUS
<1>1. CASE RS!Tick
  <2>1. clock3' \in 0..MaxClock
    BY <1>1, RecoveryAssumption DEF RS!Tick, StoreInv, Memory, RS!StoreAssumption
  <2> QED
    BY <1>1, <2>1, RestKeeps DEF RS!Tick, RS!memory, RS!files
<1>2. CASE UNCHANGED RS!vars
  <2>1. UNCHANGED <<entries, known, meta, blobFiles, temps, steps, ready>> /\ clock3' = clock3
    BY <1>2 DEF RS!vars
  <2> QED
    BY <2>1, RestKeeps DEF StoreInv, Memory
<1>3. CASE RS!Running
  BY <1>3, PutKeeps, EvidenceKeeps, SaveKeeps, GetKeeps, CommitKeeps, SetBlobKeeps,
     PruneExpiredKeeps, ForgetOldKeeps, PruneEntriesKeeps, PruneBlobsKeeps, TempKeeps,
     RenameBlobKeeps, RenameMetaKeeps, UnlinkMetaKeeps, UnlinkBlobKeeps, FileFailsKeeps,
     LoadKeeps, LoadBlobsKeeps, ReadyKeeps DEF RS!Running
<1> QED
  BY <1>1, <1>2, <1>3, OperationKeeps, CrashKeeps DEF RS!Next

LEMMA StoreIsSound == RS!Spec => []StoreInv
BY StoreStarts, StoreStep, PTL DEF RS!Spec

(* At every step, also one at which the process crashes or a file operation *)
(* fails, what memory holds of a persistent session is on disk or committed *)
(* next, bytes are known only with their source, an idle store is within its *)
(* limit, and a store that becomes ready has no temporary file and no blob *)
(* without a source (visual-recovery-store.js, initialize).                *)
THEOREM RecoveryIsSound == RS!Spec => []RecoverySound
<1>1. ASSUME StoreInv PROVE RecoverySound
  <2>1. RS!TypeOK
    BY <1>1 DEF StoreInv, Memory
  <2>2. RS!MemoryOnDisk
    <3>1. ASSUME NEW k \in RS!Present(entries) \cap Saved
          PROVE  \/ meta[k] = entries[k]
                 \/ \E j \in DOMAIN steps : steps[j].do = "commit" /\ steps[j].x = meta[k]
      BY <1>1, HeadKnown DEF StoreInv, OnDisk
    <3> QED
      BY <1>1, <3>1 DEF RS!MemoryOnDisk, StoreInv, OnDisk
  <2>3. RS!NothingOrphaned
    <3>1. ready /\ steps = <<>> => RS!Cardinality(RS!Present(entries)) <= MaxEntries
      BY <1>1, Settled, SameCardinality DEF Small
    <3>2. RS!Doing("ready") => ~temps /\ \A k \in blobFiles : entries[k] # None
      BY <1>1, HeadKnown DEF RS!Doing, ReadyClean, Clean
    <3> QED
      BY <1>1, <3>1, <3>2 DEF RS!NothingOrphaned, StoreInv, OnDisk
  <2> QED
    BY <2>1, <2>2, <2>3 DEF RecoverySound
<1> QED
  BY <1>1, StoreIsSound, PTL

(* What a step may do to the entry k.                                      *)
LEMMA EntryStep ==
  ASSUME StoreInv, RS!Next, NEW k \in Assets
  PROVE  entries[k] # None /\ entries'[k] # None =>
           (entries[k].value # None => entries'[k].value # None)
<1>1. entries \in [RS!Ids -> Records \cup {None}] /\ k \in RS!Ids
  BY DEF StoreInv, Memory, RS!Ids
<1>2. ASSUME entries'[k] = entries[k] \/ entries'[k] = None
      PROVE  entries[k] # None /\ entries'[k] # None =>
               (entries[k].value # None => entries'[k].value # None)
  BY <1>2
<1>3. ASSUME NEW j, NEW rest, RS!Forget(j, rest)
      PROVE  entries'[k] = entries[k] \/ entries'[k] = None
  BY <1>1, <1>3 DEF RS!Forget
<1>4. CASE UNCHANGED entries
  BY <1>2, <1>4
<1>5. CASE RS!Commit
  <2>1. /\ entries' = [entries EXCEPT ![steps[1].k] = steps[1].x] /\ steps # <<>>
        /\ steps[1].do = "commit" /\ CommitKnown(steps, 1)
    BY <1>5, HeadKnown DEF RS!Commit, RS!Doing, RS!K
  <2>2. CASE k = steps[1].k
    BY <1>1, <2>1, <2>2 DEF CommitKnown, KeepsEvidence
  <2>3. CASE k # steps[1].k
    BY <1>1, <1>2, <2>1, <2>3
  <2> QED
    BY <2>2, <2>3
<1>6. CASE RS!Load
  <2>1. /\ entries' = [j \in RS!Ids |-> IF meta[j] # None THEN meta[j] ELSE entries[j]]
        /\ steps # <<>> /\ steps[1].do # "commit"
    BY <1>6, HeadKnown DEF RS!Load, RS!Doing
  <2>2. RS!Present(meta) \subseteq Saved /\ meta \in [RS!Ids -> Records \cup {None}]
    BY DEF StoreInv, Memory, RS!TypeOK
  <2>3. CASE meta[k] = None
    BY <1>1, <1>2, <2>1, <2>3
  <2>4. CASE meta[k] # None
    <3>1. k \in Saved
      BY <1>1, <2>2, <2>4 DEF RS!Present
    <3>2. entries[k] # None => meta[k] = entries[k]
      BY <1>1, <2>1, <3>1, Settled DEF RS!Present
    <3>3. entries'[k] = meta[k]
      BY <1>1, <2>1, <2>4
    <3> QED
      BY <3>2, <3>3
  <2> QED
    BY <2>3, <2>4
<1>7. CASE RS!Crash
  BY <1>1, <1>2, <1>7 DEF RS!Crash, RS!Nothing
<1>8. CASE RS!ForgetOld
  BY <1>2, <1>3, <1>4, <1>8 DEF RS!ForgetOld, RS!memory
<1>9. CASE RS!PruneEntries
  BY <1>2, <1>3, <1>4, <1>9 DEF RS!PruneEntries, RS!memory
<1>10. CASE RS!Operation
  <2>1. UNCHANGED entries
    BY <1>10 DEF RS!Operation, RS!PutSource, RS!GetBytes, RS!SetEvidence, RS!SaveRecovery,
                 RS!List, RS!Begin, RS!memory
  <2> QED
    BY <1>4, <2>1
<1>11. CASE \/ RS!Put \/ RS!Evidence \/ RS!Save \/ RS!Get \/ RS!SetBlob \/ RS!PruneExpired
            \/ RS!PruneBlobs \/ RS!Temp \/ RS!RenameBlob \/ RS!RenameMeta \/ RS!UnlinkMeta
            \/ RS!UnlinkBlob \/ RS!FileFails \/ RS!LoadBlobs \/ RS!Ready \/ RS!Tick
  <2>1. UNCHANGED entries
    BY <1>11 DEF RS!Put, RS!Evidence, RS!Save, RS!Get, RS!SetBlob, RS!PruneExpired, RS!PruneBlobs,
                 RS!Temp, RS!RenameBlob, RS!RenameMeta, RS!UnlinkMeta, RS!UnlinkBlob, RS!FileFails,
                 RS!LoadBlobs, RS!Ready, RS!Tick, RS!memory
  <2> QED
    BY <1>4, <2>1
<1> QED
  BY <1>5, <1>6, <1>7, <1>8, <1>9, <1>10, <1>11 DEF RS!Next, RS!Running

(* No step resets the evidence of a source that stays.                     *)
THEOREM EvidenceIsKept == RS!Spec => EvidenceKept
<1>1. StoreInv /\ [RS!Next]_(RS!vars) =>
        [\A k \in Assets :
            entries[k] # None /\ entries'[k] # None =>
                (entries[k].value # None => entries'[k].value # None)]_entries
  <2>1. UNCHANGED RS!vars => UNCHANGED entries
    BY DEF RS!vars
  <2> QED
    BY <2>1, EntryStep
<1> QED
  BY <1>1, StoreIsSound, PTL DEF RS!Spec, EvidenceKept, RS!EvidenceKept
-----------------------------------------------------------------------------
(* The media cache.  Only the operation at the head of the promise chain   *)
(* is past its first await, so what it has read or written under its key   *)
(* is still there when it answers; everything else that touches a file     *)
(* removes it.                                                             *)
File == [val : Values, used : Nat]
Ats == {"none", "queued", "sweep", "temp", "rename", "record", "evict"}
Operation == [kind : {"none", "get", "set", "delete"}, key : Keys \cup {None},
              val : Values \cup {None}, at : Ats, time : Nat]

CacheTypes ==
    /\ persistent \in BOOLEAN
    /\ files \in [Keys -> File \cup {None}]
    /\ DOMAIN index = Keys
    /\ op \in [Callers -> Operation]
    /\ DOMAIN answer = Callers /\ answer = [c \in Callers |-> answer[c]]
    /\ chain \in Seq(Callers)
    /\ clock \in Nat

(* What a call asks for. *)
CallsKnown ==
    \A c \in Callers :
      /\ op[c].kind = "none" <=> op[c] = MC!Idle
      /\ op[c].kind # "none" => op[c].key \in Keys /\ op[c].at # "none"
      /\ op[c].kind = "set" => op[c].val \in Values

(* The operation that is past its first await, and the file it works on.   *)
Working(c) == op[c].at \notin {"none", "queued"}
Kept(k, v) == files[k] # None /\ files[k].val = v

WorkOf(c) ==
    /\ MC!Running /\ chain # <<>> /\ Head(chain) = c
    /\ op[c].kind \in {"get", "set"}
    /\ op[c].at \notin {"sweep", "evict"} => persistent
    /\ op[c].kind = "get" => op[c].at \notin {"sweep", "evict"} /\ Kept(op[c].key, op[c].val)
    /\ (op[c].at = "record" \/ (op[c].at = "evict" /\ index[op[c].key] # None))
         => Kept(op[c].key, op[c].val)

WorkKnown == \A c \in Callers : Working(c) => WorkOf(c)

(* Without a directory nothing is left behind, by a failure or a crash.    *)
MemoryKnown ==
    ~persistent =>
      /\ tmp = {} /\ (MC!Running \/ found = {})
      /\ \A k \in Keys : index[k] # None => files[k] # None

CacheInv == CacheTypes /\ CallsKnown /\ WorkKnown /\ MemoryKnown
-----------------------------------------------------------------------------
(* The map that may forget, as it is read off the cache *)

CMap == [k \in Keys |-> IF files[k] = None THEN None ELSE files[k].val]
Pending(o) == IF o.kind = "set" THEN <<o.key, o.val>> ELSE None
CPending == [c \in Callers |-> IF op[c].kind = "set" THEN <<op[c].key, op[c].val>> ELSE None]
mapVars == <<CMap, CPending, answer>>

LEMMA CacheStarts == ASSUME MC!NoneDistinct PROVE MC!Init => CacheInv /\ MC!Forgetful!Init
<1> SUFFICES ASSUME MC!Init PROVE CacheInv /\ MC!Forgetful!Init
  OBVIOUS
<1>1. /\ files = [k \in Keys |-> None] /\ index = [k \in Keys |-> None]
      /\ op = [c \in Callers |-> MC!Idle] /\ answer = [c \in Callers |-> None]
      /\ persistent \in BOOLEAN /\ tmp = {} /\ chain = <<>> /\ clock = 0 /\ found = None
  BY DEF MC!Init
<1>2. MC!Idle \in Operation /\ MC!Idle.kind = "none" /\ MC!Idle.at = "none"
  BY DEF MC!Idle, Operation, Ats
<1>3. chain \in Seq(Callers)
  BY <1>1, EmptySeq
<1>4. CacheTypes
  BY <1>1, <1>2, <1>3 DEF CacheTypes
<1>5. CallsKnown /\ WorkKnown /\ MemoryKnown
  BY <1>1, <1>2 DEF CallsKnown, WorkKnown, MemoryKnown, Working, MC!Running
<1>6. MC!Forgetful!Init
  BY <1>1, <1>2 DEF MC!Forgetful!Init
<1> QED
  BY <1>4, <1>5, <1>6 DEF CacheInv

(* The ways a step of the cache shows in the map. *)
LEMMA ShowsForget ==
  ASSUME NEW k \in Keys, CMap' = CMap \/ CMap' = [CMap EXCEPT ![k] = None],
         CPending' = CPending, answer' = answer
  PROVE  [MC!Forgetful!Next]_mapVars
BY DEF mapVars, CMap, CPending, MC!Forgetful!Next, MC!Forgetful!Forget

LEMMA ShowsMiss ==
  ASSUME NEW c \in Callers, NEW k \in Keys,
         CMap' = CMap \/ CMap' = [CMap EXCEPT ![k] = None],
         CPending' = [CPending EXCEPT ![c] = None],
         answer' = [answer EXCEPT ![c] = <<k, None>>]
  PROVE  [MC!Forgetful!Next]_mapVars
<1>1. MC!Forgetful!Miss(c, k)
  BY DEF CMap, CPending, MC!Forgetful!Miss
<1> QED
  BY <1>1 DEF MC!Forgetful!Next

LEMMA ShowsHit ==
  ASSUME NEW c \in Callers, NEW k \in Keys, NEW v, CMap' = CMap, Kept(k, v),
         CPending' = [CPending EXCEPT ![c] = None],
         answer' = [answer EXCEPT ![c] = <<k, v>>]
  PROVE  [MC!Forgetful!Next]_mapVars
<1>1. CMap[k] = v
  BY DEF CMap, Kept
<1>2. MC!Forgetful!Hit(c, k)
  BY <1>1 DEF CMap, CPending, MC!Forgetful!Hit
<1> QED
  BY <1>2 DEF MC!Forgetful!Next

LEMMA ShowsPut ==
  ASSUME NEW c \in Callers, NEW k \in Keys, NEW v \in Values,
         CPending[c] = <<k, v>>, CMap' = [CMap EXCEPT ![k] = v],
         CPending' = CPending, answer' = answer
  PROVE  [MC!Forgetful!Next]_mapVars
<1>1. MC!Forgetful!Put(c, k, v)
  BY DEF CMap, CPending, MC!Forgetful!Put
<1> QED
  BY <1>1 DEF MC!Forgetful!Next

(* One call changes. *)
LEMMA PendingOf ==
  ASSUME CacheTypes, NEW c \in Callers, NEW o, op' = [op EXCEPT ![c] = o]
  PROVE  CPending' = [CPending EXCEPT ![c] = Pending(o)]
<1>1. \A d \in Callers : op'[d] = IF d = c THEN o ELSE op[d]
  BY DEF CacheTypes
<1>2. \A d \in Callers : CPending'[d] = IF d = c THEN Pending(o) ELSE CPending[d]
  BY <1>1 DEF CPending, Pending
<1>3. CPending' = [d \in Callers |-> CPending'[d]] /\ CPending = [d \in Callers |-> CPending[d]]
  BY DEF CPending
<1> QED
  BY <1>2, <1>3

(* A file is written. *)
LEMMA MapOf ==
  ASSUME CacheTypes, MC!NoneDistinct, NEW k \in Keys, NEW f \in File,
         files' = [files EXCEPT ![k] = f]
  PROVE  CMap' = [CMap EXCEPT ![k] = f.val] /\ f # None
<1>1. f # None
  BY DEF MC!NoneDistinct, File
<1>2. \A j \in Keys : files'[j] = IF j = k THEN f ELSE files[j]
  BY DEF CacheTypes
<1>3. \A j \in Keys : CMap'[j] = IF j = k THEN f.val ELSE CMap[j]
  BY <1>1, <1>2 DEF CMap
<1>4. CMap' = [j \in Keys |-> CMap'[j]] /\ CMap = [j \in Keys |-> CMap[j]]
  BY DEF CMap
<1> QED
  BY <1>1, <1>3, <1>4

LEMMA Removed ==
  ASSUME CacheTypes, MemoryKnown, NEW k \in Keys, MC!RemoveEntry(k)
  PROVE  /\ \A j \in Keys : index'[j] = IF j = k THEN None ELSE index[j]
         /\ DOMAIN index' = Keys
         /\ files' = files \/ files' = [files EXCEPT ![k] = None]
         /\ \A j \in Keys : j # k => files'[j] = files[j]
         /\ files' \in [Keys -> File \cup {None}]
         /\ CMap' = CMap \/ CMap' = [CMap EXCEPT ![k] = None]
         /\ ~persistent => \A j \in Keys : index'[j] # None => files'[j] # None
<1>1. index' = [index EXCEPT ![k] = None]
      /\ (files' = files \/ files' = [files EXCEPT ![k] = None])
  BY DEF MC!RemoveEntry
<1>2. /\ \A j \in Keys : index'[j] = IF j = k THEN None ELSE index[j]
      /\ DOMAIN index' = Keys
  BY <1>1 DEF CacheTypes
<1>3. CASE files' = files
  BY <1>2, <1>3 DEF CMap, CacheTypes, MemoryKnown
<1>4. CASE files' = [files EXCEPT ![k] = None]
  <2>1. \A j \in Keys : files'[j] = IF j = k THEN None ELSE files[j]
    BY <1>4 DEF CacheTypes
  <2>2. CMap' = [CMap EXCEPT ![k] = None]
    BY <2>1 DEF CMap
  <2>3. files' \in [Keys -> File \cup {None}]
    BY <1>4 DEF CacheTypes
  <2> QED
    BY <1>2, <1>4, <2>1, <2>2, <2>3 DEF MemoryKnown
<1> QED
  BY <1>1, <1>3, <1>4
-----------------------------------------------------------------------------
(* The head of the chain *)

LEMMA OnlyHeadWorks ==
  ASSUME CacheInv, NEW c \in Callers, chain # <<>>, Head(chain) = c
  PROVE  \A d \in Callers : d # c => ~Working(d)
BY DEF CacheInv, WorkKnown, WorkOf

(* The promise of the head settles. *)
LEMMA Returns ==
  ASSUME CacheInv, NEW c \in Callers, chain # <<>>, Head(chain) = c, NEW x, MC!Return(c, x)
  PROVE  /\ op' \in [Callers -> Operation] /\ chain' \in Seq(Callers)
         /\ DOMAIN answer' = Callers /\ answer' = [d \in Callers |-> answer'[d]]
         /\ CallsKnown' /\ WorkKnown'
         /\ CPending' = [CPending EXCEPT ![c] = None]
<1>1. /\ answer' = [answer EXCEPT ![c] = x] /\ op' = [op EXCEPT ![c] = MC!Idle]
      /\ chain' = Tail(chain)
  BY DEF MC!Return
<1>2. MC!Idle \in Operation /\ MC!Idle.kind = "none" /\ MC!Idle.at = "none"
  BY DEF MC!Idle, Operation, Ats
<1>3. CacheTypes /\ CallsKnown
  BY DEF CacheInv
<1>4. op' \in [Callers -> Operation] /\ \A d \in Callers : op'[d] = IF d = c THEN MC!Idle ELSE op[d]
  BY <1>1, <1>2, <1>3 DEF CacheTypes
<1>5. chain' \in Seq(Callers)
  BY <1>1, <1>3, HeadTailProperties DEF CacheTypes
<1>6. DOMAIN answer' = Callers /\ answer' = [d \in Callers |-> answer'[d]]
  BY <1>1, <1>3 DEF CacheTypes
<1>7. CallsKnown'
  BY <1>2, <1>3, <1>4 DEF CallsKnown
<1>8. \A d \in Callers : op'[d].at \in {"none", "queued"}
  BY <1>2, <1>4, OnlyHeadWorks DEF Working
<1>9. WorkKnown'
  BY <1>8 DEF WorkKnown, Working
<1>10. CPending' = [CPending EXCEPT ![c] = None]
  BY <1>1, <1>2, <1>3, PendingOf DEF Pending
<1> QED
  BY <1>4, <1>5, <1>6, <1>7, <1>9, <1>10

(* The head goes on to its next await. *)
LEMMA Advances ==
  ASSUME CacheInv, NEW c \in Callers, chain # <<>>, Head(chain) = c, op[c].kind # "none",
         NEW o \in Operation, op' = [op EXCEPT ![c] = o],
         o.kind = op[c].kind, o.key = op[c].key, o.at # "none",
         o.kind = "set" => o.val = op[c].val
  PROVE  /\ op' \in [Callers -> Operation]
         /\ CallsKnown'
         /\ CPending' = CPending
         /\ op'[c] = o
         /\ \A d \in Callers : d # c => op'[d].at \in {"none", "queued"}
<1>1. CacheTypes /\ CallsKnown
  BY DEF CacheInv
<1>2. op' \in [Callers -> Operation] /\ \A d \in Callers : op'[d] = IF d = c THEN o ELSE op[d]
  BY <1>1 DEF CacheTypes
<1>3. CallsKnown'
  <2>1. o # MC!Idle
    BY DEF MC!Idle
  <2> QED
    BY <1>1, <1>2, <2>1 DEF CallsKnown
<1>4. Pending(o) = CPending[c]
  BY DEF Pending, CPending
<1>5. CPending' = CPending
  <2>1. CPending' = [CPending EXCEPT ![c] = CPending[c]]
    <3>1. CPending' = [CPending EXCEPT ![c] = Pending(o)]
      BY <1>1, PendingOf, Zenon
    <3> QED
      BY <1>4, <3>1
  <2>2. CPending = [d \in Callers |-> CPending[d]]
    BY DEF CPending
  <2> QED
    BY <2>1, <2>2
<1>6. \A d \in Callers : d # c => op'[d].at \in {"none", "queued"}
  BY <1>2, OnlyHeadWorks DEF Working
<1> QED
  BY <1>2, <1>3, <1>5, <1>6

LEMMA GotoIs ==
  ASSUME CacheTypes, NEW c \in Callers, NEW at \in Ats, MC!Goto(c, at)
  PROVE  \E o \in Operation :
           /\ op' = [op EXCEPT ![c] = o] /\ o.at = at
           /\ o.kind = op[c].kind /\ o.key = op[c].key /\ o.val = op[c].val
           /\ o.time = op[c].time
           /\ UNCHANGED <<chain, answer>>
<1> DEFINE o == [op[c] EXCEPT !.at = at]
<1>1. op[c] \in Operation
  BY DEF CacheTypes
<1>2. /\ o \in Operation /\ o.at = at /\ o.kind = op[c].kind
      /\ o.key = op[c].key /\ o.val = op[c].val /\ o.time = op[c].time
  BY <1>1 DEF Operation
<1>3. op' = [op EXCEPT ![c] = o] /\ UNCHANGED <<chain, answer>>
  BY DEF MC!Goto
<1> QED
  BY <1>2, <1>3

LEMMA TurnIs ==
  ASSUME CacheInv, NEW c \in Callers, NEW at, MC!Turn(c, at), at # "none"
  PROVE  /\ MC!Running /\ chain # <<>> /\ Head(chain) = c /\ op[c].at = at
         /\ op[c].kind # "none" /\ op[c].key \in Keys /\ op[c] \in Operation
         /\ op[c].kind = "set" => op[c].val \in Values
<1>1. MC!Running /\ chain # <<>> /\ Head(chain) = c /\ op[c].at = at
  BY DEF MC!Turn
<1>2. op[c] \in Operation
  BY DEF CacheInv, CacheTypes
<1>3. op[c].kind # "none"
  BY <1>1 DEF CacheInv, CallsKnown, MC!Idle
<1> QED
  BY <1>1, <1>2, <1>3 DEF CacheInv, CallsKnown

(* Only a set sweeps. *)
LEMMA SweepIs ==
  ASSUME CacheInv, NEW c \in Callers, MC!Turn(c, "sweep")
  PROVE  /\ MC!Running /\ chain # <<>> /\ Head(chain) = c /\ op[c].at = "sweep"
         /\ op[c].kind = "set" /\ op[c].key \in Keys /\ op[c].val \in Values
         /\ op[c] \in Operation
<1>1. op[c].kind = "set"
  BY TurnIs DEF CacheInv, WorkKnown, WorkOf, Working
<1> QED
  BY <1>1, TurnIs
-----------------------------------------------------------------------------
(* The steps *)

Shows == CacheInv' /\ [MC!Forgetful!Next]_mapVars

(* Files and index keep their types, and memory keeps its files: what a    *)
(* step that only removes needs besides its own call.                      *)
LEMMA RemovalShows ==
  ASSUME CacheInv, NEW c \in Callers, NEW k \in Keys, MC!RemoveEntry(k),
         UNCHANGED <<persistent, tmp, clock, found>>,
         MC!Running, chain # <<>>, Head(chain) = c
  PROVE  /\ UNCHANGED <<op, answer, chain>> /\ op[c].at \in {"sweep", "evict"} => Shows
         /\ MC!Return(c, <<k, None>>) => Shows
<1>1. CacheTypes /\ MemoryKnown
  BY DEF CacheInv
<1>2. /\ \A j \in Keys : index'[j] = IF j = k THEN None ELSE index[j]
      /\ DOMAIN index' = Keys
      /\ \A j \in Keys : j # k => files'[j] = files[j]
      /\ files' \in [Keys -> File \cup {None}]
      /\ CMap' = CMap \/ CMap' = [CMap EXCEPT ![k] = None]
      /\ ~persistent => \A j \in Keys : index'[j] # None => files'[j] # None
  BY <1>1, Removed
<1>3. MemoryKnown'
  BY <1>1, <1>2 DEF MemoryKnown, MC!Running
<1>4. ASSUME UNCHANGED <<op, answer, chain>>, op[c].at \in {"sweep", "evict"}
      PROVE  Shows
  <2>1. CacheTypes'
    BY <1>1, <1>2, <1>4 DEF CacheTypes
  <2>2. CallsKnown' /\ CPending' = CPending
    BY <1>4 DEF CacheInv, CallsKnown, CPending
  <2>3. WorkKnown'
    <3> SUFFICES ASSUME NEW d \in Callers, Working(d)' PROVE WorkOf(d)'
      BY DEF WorkKnown
    <3>1. Working(d) /\ op'[d] = op[d]
      BY <1>4 DEF Working
    <3>2. d = c /\ op[c].at \in {"sweep", "evict"}
      BY <1>4, <3>1, OnlyHeadWorks DEF Working
    <3>3. op[c].kind = "set" /\ op[c].key \in Keys
      BY <3>1, <3>2 DEF CacheInv, WorkKnown, WorkOf, CallsKnown
    <3>4. op[c].at = "evict" /\ index'[op[c].key] # None => Kept(op[c].key, op[c].val)'
      BY <1>2, <3>1, <3>2, <3>3 DEF CacheInv, WorkKnown, WorkOf, Kept
    <3> QED
      BY <1>4, <3>1, <3>2, <3>3, <3>4 DEF WorkOf, MC!Running
  <2>4. [MC!Forgetful!Next]_mapVars
    BY <1>2, <1>4, <2>2, ShowsForget
  <2> QED
    BY <1>3, <2>1, <2>2, <2>3, <2>4 DEF Shows, CacheInv
<1>5. ASSUME MC!Return(c, <<k, None>>)
      PROVE  Shows
  <2>1. /\ op' \in [Callers -> Operation] /\ chain' \in Seq(Callers)
        /\ DOMAIN answer' = Callers /\ answer' = [d \in Callers |-> answer'[d]]
        /\ CallsKnown' /\ WorkKnown'
        /\ CPending' = [CPending EXCEPT ![c] = None]
    BY <1>5, Returns
  <2>2. CacheTypes'
    BY <1>1, <1>2, <2>1 DEF CacheTypes
  <2>3. [MC!Forgetful!Next]_mapVars
    BY <1>2, <1>5, <2>1, ShowsMiss DEF MC!Return
  <2> QED
    BY <1>3, <2>1, <2>2, <2>3 DEF Shows, CacheInv
<1> QED
  BY <1>4, <1>5

LEMMA RemovalsShow ==
  ASSUME MC!NoneDistinct, CacheInv, NEW c \in Callers,
         MC!Missing(c) \/ MC!Delete(c) \/ MC!Sweep(c) \/ MC!Evict(c)
  PROVE  Shows
<1>1. CASE MC!Missing(c) \/ MC!Delete(c)
  <2>1. MC!Turn(c, "queued") /\ MC!RemoveEntry(op[c].key) /\ MC!Return(c, <<op[c].key, None>>)
        /\ UNCHANGED <<persistent, tmp, clock, found>>
    BY <1>1 DEF MC!Missing, MC!Delete, MC!world
  <2>2. MC!Running /\ chain # <<>> /\ Head(chain) = c /\ op[c].key \in Keys
    BY <2>1, TurnIs
  <2> QED
    BY <2>1, <2>2, RemovalShows
<1>2. CASE MC!Sweep(c) \/ MC!Evict(c)
  <2>1. PICK at \in {"sweep", "evict"} : MC!Turn(c, at)
    BY <1>2 DEF MC!Sweep, MC!Evict
  <2>2. PICK k \in Keys : MC!RemoveEntry(k)
    BY <1>2 DEF MC!Sweep, MC!Evict, MC!Oldest, MC!Indexed
  <2>3. UNCHANGED <<persistent, tmp, clock, found, op, answer, chain>>
    BY <1>2 DEF MC!Sweep, MC!Evict, MC!world, MC!calling
  <2>4. MC!Running /\ chain # <<>> /\ Head(chain) = c /\ op[c].at = at
    BY <2>1, TurnIs
  <2> QED
    BY <2>1, <2>2, <2>3, <2>4, RemovalShows
<1> QED
  BY <1>1, <1>2

(* A step of the head that touches neither the files nor the index.        *)
LEMMA AwaitShows ==
  ASSUME CacheInv, NEW c \in Callers, MC!Running, chain # <<>>, Head(chain) = c,
         op[c].kind # "none", UNCHANGED <<files, index, persistent, clock, found, chain, answer>>,
         tmp' = tmp \/ persistent,
         NEW o \in Operation, op' = [op EXCEPT ![c] = o],
         o.kind = op[c].kind, o.key = op[c].key, o.at # "none",
         o.kind = "set" => o.val = op[c].val, WorkOf(c)'
  PROVE  Shows
<1>1. CacheTypes /\ MemoryKnown
  BY DEF CacheInv
<1>2. /\ op' \in [Callers -> Operation]
      /\ CallsKnown'
      /\ CPending' = CPending
      /\ \A d \in Callers : d # c => op'[d].at \in {"none", "queued"}
  BY Advances
<1>3. CacheTypes'
  BY <1>1, <1>2 DEF CacheTypes
<1>4. WorkKnown'
  BY <1>2 DEF WorkKnown, Working
<1>5. MemoryKnown'
  BY <1>1 DEF MemoryKnown, MC!Running
<1>6. CMap' = CMap
  BY DEF CMap
<1> QED
  BY <1>2, <1>3, <1>4, <1>5, <1>6 DEF Shows, CacheInv, mapVars

LEMMA AwaitsShow ==
  ASSUME MC!NoneDistinct, CacheInv, NEW c \in Callers,
         MC!Read(c) \/ MC!BeginSet(c) \/ MC!Swept(c) \/ MC!WriteTemp(c)
  PROVE  Shows
<1>0. CacheTypes
  BY DEF CacheInv
<1>1. CASE MC!Read(c)
  <2>1. MC!Running /\ chain # <<>> /\ Head(chain) = c /\ op[c].key \in Keys /\ op[c] \in Operation
    BY <1>1, TurnIs DEF MC!Read
  <2> DEFINE o == [op[c] EXCEPT !.val = files[op[c].key].val, !.at = "temp", !.time = clock]
  <2>2. /\ op' = [op EXCEPT ![c] = o] /\ op[c].kind = "get" /\ files[op[c].key] # None
        /\ UNCHANGED <<files, tmp, index, persistent, clock, found, chain, answer>> /\ persistent
    BY <1>1, <2>1 DEF MC!Read, MC!world, MC!disk, MC!memory, Operation
  <2>3. files[op[c].key].val \in Values
    BY <1>0, <2>1, <2>2 DEF CacheTypes, File
  <2>4. /\ o \in Operation /\ o.kind = "get" /\ o.key = op[c].key /\ o.at = "temp"
        /\ o.val = files[op[c].key].val
    BY <1>0, <2>1, <2>2, <2>3 DEF Operation, Ats, CacheTypes
  <2> HIDE DEF o
  <2>5. op'[c] = o
    BY <1>0, <2>2 DEF CacheTypes
  <2>6. WorkOf(c)'
    BY <2>1, <2>2, <2>4, <2>5 DEF WorkOf, MC!Running, Kept
  <2> QED
    BY <2>1, <2>2, <2>4, <2>6, AwaitShows
<1>2. CASE MC!BeginSet(c)
  <2>1. MC!Running /\ chain # <<>> /\ Head(chain) = c /\ op[c].key \in Keys /\ op[c] \in Operation
    BY <1>2, TurnIs DEF MC!BeginSet
  <2> DEFINE o == [op[c] EXCEPT !.at = "sweep", !.time = clock]
  <2>2. /\ op' = [op EXCEPT ![c] = o] /\ op[c].kind = "set"
        /\ UNCHANGED <<files, tmp, index, persistent, clock, found, chain, answer>>
    BY <1>2, <2>1 DEF MC!BeginSet, MC!world, MC!disk, MC!memory, Operation
  <2>3. /\ o \in Operation /\ o.kind = "set" /\ o.key = op[c].key /\ o.at = "sweep"
        /\ o.val = op[c].val
    BY <1>0, <2>1, <2>2 DEF Operation, Ats, CacheTypes
  <2> HIDE DEF o
  <2>4. op'[c] = o
    BY <1>0, <2>2 DEF CacheTypes
  <2>5. WorkOf(c)'
    BY <2>1, <2>2, <2>3, <2>4 DEF WorkOf, MC!Running
  <2> QED
    BY <2>1, <2>2, <2>3, <2>5, AwaitShows
<1>4. CASE MC!Swept(c)
  <2>1. /\ MC!Running /\ chain # <<>> /\ Head(chain) = c /\ op[c].key \in Keys
        /\ op[c].kind = "set"
    BY <1>4, SweepIs DEF MC!Swept
  <2>2. /\ UNCHANGED <<files, tmp, index, persistent, clock, found, chain, answer>> /\ persistent
        /\ MC!Goto(c, "temp")
    BY <1>4 DEF MC!Swept, MC!Goto, MC!world, MC!disk, MC!memory
  <2>3. PICK o \in Operation : /\ op' = [op EXCEPT ![c] = o] /\ o.at = "temp"
                               /\ o.kind = op[c].kind /\ o.key = op[c].key /\ o.val = op[c].val
    BY <1>0, <2>2, GotoIs DEF Ats
  <2>4. op'[c] = o
    BY <1>0, <2>3 DEF CacheTypes
  <2>5. WorkOf(c)'
    BY <2>1, <2>2, <2>3, <2>4 DEF WorkOf, MC!Running
  <2> QED
    BY <2>1, <2>2, <2>3, <2>5, AwaitShows
<1>3. CASE MC!WriteTemp(c)
  <2>1. MC!Running /\ chain # <<>> /\ Head(chain) = c /\ op[c].key \in Keys /\ op[c].kind # "none"
        /\ op[c].at = "temp"
    BY <1>3, TurnIs DEF MC!WriteTemp
  <2>2. UNCHANGED <<files, index, persistent, clock, found, chain, answer>> /\ MC!Goto(c, "rename")
    BY <1>3 DEF MC!WriteTemp, MC!Goto, MC!world, MC!memory
  <2>3. WorkOf(c)
    BY <2>1 DEF CacheInv, WorkKnown, Working
  <2>4. PICK o \in Operation : /\ op' = [op EXCEPT ![c] = o] /\ o.at = "rename"
                               /\ o.kind = op[c].kind /\ o.key = op[c].key /\ o.val = op[c].val
    BY <1>0, <2>2, GotoIs DEF Ats
  <2>5. op'[c] = o
    BY <1>0, <2>4 DEF CacheTypes
  <2>6. WorkOf(c)' /\ persistent
    BY <2>1, <2>2, <2>3, <2>4, <2>5 DEF WorkOf, MC!Running, Kept
  <2> QED
    BY <2>1, <2>2, <2>4, <2>6, AwaitShows
<1> QED
  BY <1>1, <1>2, <1>3, <1>4

(* The temporary file takes the place of the file: a reader's rename puts  *)
(* back what was there, a writer's is the moment the value is stored.      *)
LEMMA RenameShows ==
  ASSUME MC!NoneDistinct, CacheInv, NEW c \in Callers, MC!Rename(c)
  PROVE  Shows
<1> DEFINE k == op[c].key
           f == [val |-> op[c].val, used |-> op[c].time]
<1>0. CacheTypes /\ MemoryKnown
  BY DEF CacheInv
<1>1. MC!Running /\ chain # <<>> /\ Head(chain) = c /\ k \in Keys /\ op[c].kind # "none"
      /\ op[c].at = "rename" /\ op[c] \in Operation
      /\ (op[c].kind = "set" => op[c].val \in Values)
  BY TurnIs DEF MC!Rename
<1>2. /\ files' = [files EXCEPT ![k] = f] /\ MC!Goto(c, "record")
      /\ UNCHANGED <<index, persistent, clock, found, chain, answer>>
  BY DEF MC!Rename, MC!Goto, MC!world, MC!memory
<1>3. WorkOf(c)
  BY <1>1 DEF CacheInv, WorkKnown, Working
<1>4. op[c].val \in Values /\ op[c].time \in Nat
  <2>1. op[c].kind = "get" => op[c].val \in Values
    BY <1>0, <1>1, <1>3 DEF WorkOf, Kept, CacheTypes, File
  <2> QED
    BY <1>1, <1>3, <2>1 DEF WorkOf, Operation
<1>5. f \in File /\ f.val = op[c].val
  BY <1>4 DEF File
<1>6. CMap' = [CMap EXCEPT ![k] = f.val] /\ f # None
  BY <1>0, <1>1, <1>2, <1>5, MapOf
<1>7. files' \in [Keys -> File \cup {None}] /\ files'[k] = f
  BY <1>0, <1>1, <1>2, <1>5 DEF CacheTypes
<1> HIDE DEF f
<1>8. PICK o \in Operation : /\ op' = [op EXCEPT ![c] = o] /\ o.at = "record"
                             /\ o.kind = op[c].kind /\ o.key = op[c].key /\ o.val = op[c].val
  BY <1>0, <1>2, GotoIs DEF Ats
<1>9. /\ op' \in [Callers -> Operation]
      /\ CallsKnown'
      /\ CPending' = CPending
      /\ op'[c] = o
      /\ \A d \in Callers : d # c => op'[d].at \in {"none", "queued"}
  BY <1>1, <1>8, Advances
<1>10. CacheTypes'
  BY <1>0, <1>2, <1>7, <1>9 DEF CacheTypes
<1>11. WorkOf(c)'
  BY <1>1, <1>2, <1>3, <1>5, <1>6, <1>7, <1>8, <1>9 DEF WorkOf, MC!Running, Kept
<1>12. WorkKnown'
  BY <1>9, <1>11 DEF WorkKnown, Working
<1>13. MemoryKnown'
  BY <1>1, <1>2, <1>3 DEF MemoryKnown, WorkOf
<1>14. [MC!Forgetful!Next]_mapVars
  <2>1. CASE op[c].kind = "set"
    <3>1. CPending[c] = <<k, op[c].val>>
      BY <2>1 DEF CPending
    <3> QED
      BY <1>1, <1>2, <1>4, <1>5, <1>6, <1>9, <3>1, ShowsPut
  <2>2. CASE op[c].kind = "get"
    <3>1. CMap[k] = f.val
      BY <1>1, <1>3, <1>5, <2>2 DEF WorkOf, Kept, CMap
    <3>2. CMap = [j \in Keys |-> CMap[j]]
      BY DEF CMap
    <3>3. CMap' = CMap
      BY <1>6, <3>1, <3>2
    <3> QED
      BY <1>2, <1>9, <3>3 DEF mapVars
  <2> QED
    BY <1>3, <2>1, <2>2 DEF WorkOf
<1> QED
  BY <1>9, <1>10, <1>12, <1>13, <1>14 DEF Shows, CacheInv

(* The head answers, and no file changes. *)
LEMMA AnswerShows ==
  ASSUME CacheInv, NEW c \in Callers, MC!Running, chain # <<>>, Head(chain) = c,
         NEW k \in Keys, NEW x, MC!Return(c, <<k, x>>), x = None \/ Kept(k, x),
         UNCHANGED <<files, persistent, clock, found>>, DOMAIN index' = Keys,
         tmp' = tmp \/ persistent,
         \A j \in Keys : index'[j] # None => persistent \/ index[j] # None
  PROVE  Shows
<1>1. CacheTypes /\ MemoryKnown
  BY DEF CacheInv
<1>2. /\ op' \in [Callers -> Operation] /\ chain' \in Seq(Callers)
      /\ DOMAIN answer' = Callers /\ answer' = [d \in Callers |-> answer'[d]]
      /\ CallsKnown' /\ WorkKnown'
      /\ CPending' = [CPending EXCEPT ![c] = None]
  BY Returns
<1>3. CacheTypes'
  BY <1>1, <1>2 DEF CacheTypes
<1>4. MemoryKnown'
  BY <1>1 DEF MemoryKnown, MC!Running
<1>5. CMap' = CMap
  BY DEF CMap
<1>6. answer' = [answer EXCEPT ![c] = <<k, x>>]
  BY DEF MC!Return
<1>7. [MC!Forgetful!Next]_mapVars
  BY <1>2, <1>5, <1>6, ShowsMiss, ShowsHit
<1> QED
  BY <1>2, <1>3, <1>4, <1>7 DEF Shows, CacheInv

LEMMA AnswersShow ==
  ASSUME MC!NoneDistinct, CacheInv, NEW c \in Callers,
         \/ MC!WriteFails(c)
         \/ MC!Record(c) /\ op[c].kind = "get"
         \/ MC!SetReturns(c)
         \/ MC!MemoryGet(c)
  PROVE  Shows
<1> DEFINE k == op[c].key
<1>0. DOMAIN index = Keys /\ MemoryKnown
  BY DEF CacheInv, CacheTypes
<1>1. CASE MC!WriteFails(c)
  <2>1. PICK at \in {"temp", "rename"} : MC!Turn(c, at)
    BY <1>1 DEF MC!WriteFails
  <2>2. MC!Running /\ chain # <<>> /\ Head(chain) = c /\ k \in Keys /\ op[c].at = at
    BY <2>1, TurnIs
  <2>3. WorkOf(c) /\ persistent
    BY <2>2 DEF CacheInv, WorkKnown, Working, WorkOf
  <2>4. UNCHANGED <<files, persistent, clock, found>>
    BY <1>1 DEF MC!WriteFails, MC!world
  <2>5. CASE op[c].kind = "get"
    <3>1. MC!Return(c, <<k, op[c].val>>) /\ DOMAIN index' = Keys
      BY <1>0, <1>1, <2>5 DEF MC!WriteFails
    <3>2. Kept(k, op[c].val)
      BY <2>3, <2>5 DEF WorkOf
    <3> QED
      BY <2>2, <2>3, <2>4, <3>1, <3>2, AnswerShows
  <2>6. CASE op[c].kind = "set"
    <3>1. MC!Return(c, <<k, None>>) /\ DOMAIN index' = Keys
      BY <1>0, <1>1, <2>6 DEF MC!WriteFails
    <3> QED
      BY <2>2, <2>3, <2>4, <3>1, AnswerShows
  <2> QED
    BY <2>3, <2>5, <2>6 DEF WorkOf
<1>2. CASE MC!Record(c) /\ op[c].kind = "get"
  <2>1. MC!Running /\ chain # <<>> /\ Head(chain) = c /\ k \in Keys /\ op[c].at = "record"
    BY <1>2, TurnIs DEF MC!Record
  <2>2. WorkOf(c) /\ persistent
    BY <2>1 DEF CacheInv, WorkKnown, Working, WorkOf
  <2>3. /\ UNCHANGED <<files, persistent, clock, found>> /\ DOMAIN index' = Keys
        /\ MC!Return(c, <<k, op[c].val>>)
    BY <1>0, <1>2 DEF MC!Record, MC!world, MC!disk
  <2>4. Kept(k, op[c].val)
    BY <1>2, <2>2 DEF WorkOf
  <2> QED
    BY <2>1, <2>2, <2>3, <2>4, AnswerShows
<1>3. CASE MC!SetReturns(c)
  <2>1. MC!Running /\ chain # <<>> /\ Head(chain) = c /\ k \in Keys /\ op[c].at = "evict"
    BY <1>3, TurnIs DEF MC!SetReturns
  <2>2. WorkOf(c)
    BY <2>1 DEF CacheInv, WorkKnown, Working
  <2> DEFINE x == IF index[k] = None THEN None ELSE op[c].val
  <2>3. /\ UNCHANGED <<files, persistent, clock, found, tmp, index>>
        /\ MC!Return(c, <<k, x>>)
    BY <1>3 DEF MC!SetReturns, MC!world, MC!disk, MC!memory
  <2>4. x = None \/ Kept(k, x)
    BY <2>1, <2>2 DEF WorkOf
  <2> HIDE DEF x
  <2> QED
    BY <1>0, <2>1, <2>3, <2>4, AnswerShows
<1>4. CASE MC!MemoryGet(c)
  <2>1. MC!Running /\ chain # <<>> /\ Head(chain) = c /\ k \in Keys
    BY <1>4, TurnIs DEF MC!MemoryGet
  <2>2. /\ UNCHANGED <<files, persistent, clock, found, tmp>> /\ DOMAIN index' = Keys
        /\ \A j \in Keys : j # k => index'[j] = index[j]
        /\ MC!Return(c, <<k, files[k].val>>) /\ index[k] # None /\ ~persistent
    BY <1>0, <1>4 DEF MC!MemoryGet, MC!world, MC!disk, MC!Live
  <2>3. Kept(k, files[k].val)
    BY <1>0, <2>1, <2>2 DEF MemoryKnown, Kept
  <2>4. \A j \in Keys : index'[j] # None => index[j] # None
    BY <2>2
  <2> QED
    BY <2>1, <2>2, <2>3, <2>4, AnswerShows
<1> QED
  BY <1>1, <1>2, <1>3, <1>4

(* A set that has stored its value goes on to make room for it. *)
LEMMA RecordShows ==
  ASSUME MC!NoneDistinct, CacheInv, NEW c \in Callers, MC!Record(c), op[c].kind # "get"
  PROVE  Shows
<1> DEFINE k == op[c].key
<1>0. CacheTypes /\ MemoryKnown
  BY DEF CacheInv
<1>1. MC!Running /\ chain # <<>> /\ Head(chain) = c /\ k \in Keys /\ op[c].kind # "none"
      /\ op[c].at = "record"
  BY TurnIs DEF MC!Record
<1>2. WorkOf(c) /\ persistent
  BY <1>1 DEF CacheInv, WorkKnown, Working, WorkOf
<1>3. /\ UNCHANGED <<files, tmp, persistent, clock, found>> /\ DOMAIN index' = Keys
      /\ MC!Goto(c, "evict")
  BY <1>0 DEF MC!Record, MC!world, MC!disk, CacheTypes
<1>4. PICK o \in Operation : /\ op' = [op EXCEPT ![c] = o] /\ o.at = "evict"
                             /\ o.kind = op[c].kind /\ o.key = op[c].key /\ o.val = op[c].val
                             /\ UNCHANGED <<chain, answer>>
  BY <1>0, <1>3, GotoIs DEF Ats
<1>5. /\ op' \in [Callers -> Operation]
      /\ CallsKnown'
      /\ CPending' = CPending
      /\ op'[c] = o
      /\ \A d \in Callers : d # c => op'[d].at \in {"none", "queued"}
  BY <1>1, <1>4, Advances
<1>6. CacheTypes'
  BY <1>0, <1>3, <1>4, <1>5 DEF CacheTypes
<1>7. WorkOf(c)'
  BY <1>1, <1>2, <1>3, <1>4, <1>5 DEF WorkOf, MC!Running, Kept
<1>8. WorkKnown'
  BY <1>5, <1>7 DEF WorkKnown, Working
<1>9. MemoryKnown'
  BY <1>2, <1>3 DEF MemoryKnown
<1>10. CMap' = CMap
  BY <1>3 DEF CMap
<1> QED
  BY <1>4, <1>5, <1>6, <1>8, <1>9, <1>10 DEF Shows, CacheInv, mapVars

LEMMA MemorySetShows ==
  ASSUME MC!NoneDistinct, CacheInv, NEW c \in Callers, MC!MemorySet(c)
  PROVE  Shows
<1> DEFINE k == op[c].key
           f == [val |-> op[c].val, used |-> op[c].time]
<1>0. CacheTypes /\ MemoryKnown
  BY DEF CacheInv
<1>1. MC!Running /\ chain # <<>> /\ Head(chain) = c /\ k \in Keys /\ op[c].kind = "set"
      /\ op[c].val \in Values /\ op[c].time \in Nat
  BY SweepIs DEF MC!MemorySet, Operation
<1>2. /\ files' = [files EXCEPT ![k] = f] /\ MC!Goto(c, "evict") /\ ~persistent
      /\ UNCHANGED <<tmp, persistent, clock, found>> /\ DOMAIN index' = Keys
      /\ \A j \in Keys : j # k => index'[j] = index[j]
  BY <1>0, <1>1 DEF MC!MemorySet, MC!world, CacheTypes
<1>3. f \in File /\ f.val = op[c].val
  BY <1>0, <1>1 DEF File, CacheTypes
<1>4. CMap' = [CMap EXCEPT ![k] = f.val] /\ f # None
  BY <1>0, <1>1, <1>2, <1>3, MapOf
<1>5. /\ files' \in [Keys -> File \cup {None}] /\ files'[k] = f
      /\ \A j \in Keys : j # k => files'[j] = files[j]
  BY <1>0, <1>1, <1>2, <1>3 DEF CacheTypes
<1> HIDE DEF f
<1>6. PICK o \in Operation : /\ op' = [op EXCEPT ![c] = o] /\ o.at = "evict"
                             /\ o.kind = op[c].kind /\ o.key = op[c].key /\ o.val = op[c].val
                             /\ UNCHANGED <<chain, answer>>
  BY <1>0, <1>2, GotoIs DEF Ats
<1>7. /\ op' \in [Callers -> Operation]
      /\ CallsKnown'
      /\ CPending' = CPending
      /\ op'[c] = o
      /\ \A d \in Callers : d # c => op'[d].at \in {"none", "queued"}
  BY <1>1, <1>6, Advances
<1>8. CacheTypes'
  BY <1>0, <1>2, <1>5, <1>6, <1>7 DEF CacheTypes
<1>9. WorkOf(c)'
  BY <1>1, <1>2, <1>3, <1>4, <1>5, <1>6, <1>7 DEF WorkOf, MC!Running, Kept
<1>10. WorkKnown'
  BY <1>7, <1>9 DEF WorkKnown, Working
<1>11. MemoryKnown'
  BY <1>0, <1>1, <1>2, <1>4, <1>5 DEF MemoryKnown, MC!Running
<1>12. CPending[c] = <<k, op[c].val>>
  BY <1>1 DEF CPending
<1>13. [MC!Forgetful!Next]_mapVars
  BY <1>1, <1>3, <1>4, <1>6, <1>7, <1>12, ShowsPut
<1> QED
  BY <1>7, <1>8, <1>10, <1>11, <1>13 DEF Shows, CacheInv

LEMMA StartShows ==
  ASSUME MC!NoneDistinct, CacheInv, NEW c \in Callers, MC!Start(c)
  PROVE  Shows
<1>0. CacheTypes /\ CallsKnown /\ MemoryKnown
  BY DEF CacheInv
<1>1. op[c] = MC!Idle /\ MC!Running /\ chain' = Append(chain, c)
      /\ UNCHANGED <<persistent, files, tmp, index, answer, clock, found>>
  BY DEF MC!Start, MC!disk, MC!memory
<1>2. PICK o \in Operation :
        /\ op' = [op EXCEPT ![c] = o] /\ o.at = "queued" /\ o.kind # "none"
        /\ o.key \in Keys /\ (o.kind = "set" => o.val \in Values)
  <2>1. PICK kind \in {"get", "set", "delete"}, k \in Keys, v \in Values \cup {None} :
          op' = [op EXCEPT ![c] = MC!Call(kind, k, v)] /\ (kind = "set" => v \in Values)
    BY DEF MC!Start
  <2>2. MC!Call(kind, k, v) \in Operation
    BY DEF MC!Call, Operation, Ats
  <2> QED
    BY <2>1, <2>2 DEF MC!Call
<1>3. op' \in [Callers -> Operation] /\ \A d \in Callers : op'[d] = IF d = c THEN o ELSE op[d]
  BY <1>0, <1>2 DEF CacheTypes
<1>4. chain' \in Seq(Callers) /\ (chain # <<>> => chain' # <<>> /\ Head(chain') = Head(chain))
  <2>1. chain \in Seq(Callers)
    BY <1>0 DEF CacheTypes
  <2>2. chain' \in Seq(Callers)
    BY <1>1, <2>1
  <2>3. chain # <<>> => chain' # <<>> /\ Head(chain') = Head(chain)
    BY <1>1, <2>1, EmptySeq
  <2> QED
    BY <2>2, <2>3
<1>5. CacheTypes'
  BY <1>0, <1>1, <1>3, <1>4 DEF CacheTypes
<1>6. CallsKnown'
  <2>1. o # MC!Idle
    BY <1>2 DEF MC!Idle
  <2> QED
    BY <1>0, <1>2, <1>3, <2>1 DEF CallsKnown
<1>7. WorkKnown'
  <2> SUFFICES ASSUME NEW d \in Callers, Working(d)' PROVE WorkOf(d)'
    BY DEF WorkKnown
  <2>1. d # c /\ op'[d] = op[d] /\ WorkOf(d)
    BY <1>2, <1>3 DEF Working, CacheInv, WorkKnown
  <2> QED
    BY <1>1, <1>4, <2>1 DEF WorkOf, MC!Running, Kept
<1>8. MemoryKnown'
  BY <1>0, <1>1 DEF MemoryKnown, MC!Running
<1>9. CMap' = CMap
  BY <1>1 DEF CMap
<1>10. CPending' = [CPending EXCEPT ![c] = Pending(o)]
  BY <1>0, <1>2, PendingOf
<1>11. CASE o.kind = "set"
  <2>1. MC!Forgetful!Ask(c, o.key, o.val)
    BY <1>1, <1>9, <1>10, <1>11 DEF MC!Forgetful!Ask, Pending, CMap, CPending
  <2>2. MC!Forgetful!Next
    BY <1>2, <1>11, <2>1 DEF MC!Forgetful!Next
  <2> QED
    BY <1>5, <1>6, <1>7, <1>8, <2>2 DEF Shows, CacheInv
<1>12. CASE o.kind # "set"
  <2>1. Pending(o) = None /\ CPending[c] = None
    BY <1>1, <1>12 DEF Pending, CPending, MC!Idle
  <2>2. CPending = [d \in Callers |-> CPending[d]]
    BY DEF CPending
  <2>3. CPending' = CPending
    BY <1>10, <2>1, <2>2
  <2> QED
    BY <1>1, <1>5, <1>6, <1>7, <1>8, <1>9, <2>3 DEF Shows, CacheInv, mapVars
<1> QED
  BY <1>11, <1>12

LEMMA CrashShows == ASSUME MC!NoneDistinct, CacheInv, MC!Crash PROVE Shows
<1>0. CacheTypes /\ MemoryKnown
  BY DEF CacheInv
<1>1. /\ files' = (IF persistent THEN files ELSE [k \in Keys |-> None])
      /\ found' = {k \in Keys : files'[k] # None} \cup tmp
      /\ index' = [k \in Keys |-> None]
      /\ chain' = <<>> /\ op' = [c \in Callers |-> MC!Idle]
      /\ UNCHANGED <<persistent, tmp, answer, clock>>
  BY DEF MC!Crash
<1>2. MC!Idle \in Operation /\ MC!Idle.kind = "none" /\ MC!Idle.at = "none"
  BY DEF MC!Idle, Operation, Ats
<1>3. files' \in [Keys -> File \cup {None}]
  BY <1>0, <1>1 DEF CacheTypes
<1>4. chain' \in Seq(Callers)
  BY <1>1, EmptySeq
<1>5. CacheTypes'
  BY <1>0, <1>1, <1>2, <1>3, <1>4 DEF CacheTypes
<1>6. CallsKnown' /\ WorkKnown'
  BY <1>1, <1>2 DEF CallsKnown, WorkKnown, Working
<1>7. MemoryKnown'
  BY <1>0, <1>1 DEF MemoryKnown
<1>8. CPending' = [c \in Callers |-> None]
  BY <1>1, <1>2 DEF CPending
<1>9. CMap' = CMap \/ CMap' = [k \in Keys |-> None]
  BY <1>1 DEF CMap
<1>10. MC!Forgetful!Crash
  BY <1>1, <1>8, <1>9 DEF MC!Forgetful!Crash, CMap, CPending
<1>11. MC!Forgetful!Next
  BY <1>10 DEF MC!Forgetful!Next
<1> QED
  BY <1>5, <1>6, <1>7, <1>11 DEF Shows, CacheInv

(* A step of the start, when no operation runs.                            *)
LEMMA StartingShows ==
  ASSUME MC!NoneDistinct, CacheInv, ~MC!Running,
         \/ MC!Ready
         \/ \E c \in Callers : MC!FindTemp(c)
         \/ \E k \in Keys : MC!FindFile(k)
  PROVE  Shows
<1>0. CacheTypes /\ MemoryKnown /\ CallsKnown
  BY DEF CacheInv
<1>1. UNCHANGED <<persistent, clock, chain, op, answer>>
  BY DEF MC!Ready, MC!FindTemp, MC!FindFile, MC!calling
<1>2. CallsKnown' /\ CPending' = CPending
  BY <1>0, <1>1 DEF CallsKnown, CPending
<1>3. WorkKnown'
  <2>1. \A c \in Callers : ~Working(c)
    BY DEF CacheInv, WorkKnown, WorkOf
  <2> QED
    BY <1>1, <2>1 DEF WorkKnown, Working
<1>4. CASE MC!Ready
  <2>1. (\E k \in Keys : MC!RemoveEntry(k)) \/ UNCHANGED <<files, index>>
    BY <1>4 DEF MC!Ready, MC!Oldest, MC!Indexed, MC!memory
  <2>2. tmp' = tmp /\ (found' = found \/ found' = None)
    BY <1>4 DEF MC!Ready
  <2>3. CASE UNCHANGED <<files, index>>
    <3>1. CacheTypes' /\ MemoryKnown' /\ CMap' = CMap
      BY <1>0, <1>1, <2>2, <2>3 DEF CacheTypes, MemoryKnown, CMap, MC!Running
    <3> QED
      BY <1>1, <1>2, <1>3, <3>1 DEF Shows, CacheInv, mapVars
  <2>4. CASE \E k \in Keys : MC!RemoveEntry(k)
    <3>1. PICK k \in Keys : MC!RemoveEntry(k)
      BY <2>4
    <3>2. /\ DOMAIN index' = Keys /\ files' \in [Keys -> File \cup {None}]
          /\ CMap' = CMap \/ CMap' = [CMap EXCEPT ![k] = None]
          /\ ~persistent => \A j \in Keys : index'[j] # None => files'[j] # None
      BY <1>0, <3>1, Removed
    <3>3. CacheTypes' /\ MemoryKnown'
      BY <1>0, <1>1, <2>2, <3>2 DEF CacheTypes, MemoryKnown, MC!Running
    <3>4. [MC!Forgetful!Next]_mapVars
      BY <1>1, <1>2, <3>2, ShowsForget
    <3> QED
      BY <1>2, <1>3, <3>3, <3>4 DEF Shows, CacheInv
  <2> QED
    BY <2>1, <2>3, <2>4
<1>5. CASE \E c \in Callers : MC!FindTemp(c)
  <2>1. PICK c \in Callers : MC!FindTemp(c)
    BY <1>5
  <2>2. UNCHANGED <<files, index>> /\ tmp' \subseteq tmp /\ found' \subseteq found
        /\ c \in found /\ found' = found \ {c}
    BY <2>1 DEF MC!FindTemp, MC!memory
  <2>3. CacheTypes' /\ CMap' = CMap
    BY <1>0, <1>1, <2>2 DEF CacheTypes, CMap
  <2>4. MemoryKnown'
    BY <1>0, <1>1, <2>2 DEF MemoryKnown
  <2> QED
    BY <1>1, <1>2, <1>3, <2>3, <2>4 DEF Shows, CacheInv, mapVars
<1>6. CASE \E k \in Keys : MC!FindFile(k)
  <2>1. PICK k \in Keys : MC!FindFile(k)
    BY <1>6
  <2>2. /\ k \in found /\ tmp' = tmp /\ DOMAIN index' = Keys
        /\ files' = files \/ files' = [files EXCEPT ![k] = None]
    BY <1>0, <2>1 DEF MC!FindFile, MC!memory, CacheTypes
  <2>3. files' \in [Keys -> File \cup {None}]
    BY <1>0, <2>2 DEF CacheTypes
  <2>4. CMap' = CMap \/ CMap' = [CMap EXCEPT ![k] = None]
    <3>1. CASE files' = files
      BY <3>1 DEF CMap
    <3>2. CASE files' = [files EXCEPT ![k] = None]
      <4>1. \A j \in Keys : files'[j] = IF j = k THEN None ELSE files[j]
        BY <1>0, <3>2 DEF CacheTypes
      <4> QED
        BY <4>1 DEF CMap
    <3> QED
      BY <2>2, <3>1, <3>2
  <2>5. CacheTypes'
    BY <1>0, <1>1, <2>2, <2>3 DEF CacheTypes
  <2>6. MemoryKnown'
    <3>1. persistent
      BY <1>0, <2>2 DEF MemoryKnown
    <3> QED
      BY <1>1, <3>1 DEF MemoryKnown
  <2>7. [MC!Forgetful!Next]_mapVars
    BY <1>1, <1>2, <2>4, ShowsForget
  <2> QED
    BY <1>2, <1>3, <2>5, <2>6, <2>7 DEF Shows, CacheInv
<1> QED
  BY <1>4, <1>5, <1>6

LEMMA RestShows ==
  ASSUME CacheInv, MC!Tick \/ UNCHANGED MC!vars
  PROVE  Shows
<1>1. /\ UNCHANGED <<persistent, files, tmp, index, chain, op, answer, found>>
      /\ clock' \in Nat
  BY DEF CacheInv, CacheTypes, MC!Tick, MC!vars, MC!world, MC!disk, MC!memory, MC!calling
<1>2. CMap' = CMap /\ CPending' = CPending
  BY <1>1 DEF CMap, CPending
<1>3. CacheTypes' /\ CallsKnown' /\ MemoryKnown'
  BY <1>1 DEF CacheInv, CacheTypes, CallsKnown, MemoryKnown, MC!Running
<1>4. WorkKnown'
  BY <1>1 DEF CacheInv, WorkKnown, WorkOf, Working, Kept, MC!Running
<1> QED
  BY <1>1, <1>2, <1>3, <1>4 DEF Shows, CacheInv, mapVars

LEMMA CacheStep ==
  ASSUME MC!NoneDistinct, CacheInv, [MC!Next]_(MC!vars)
  PROVE  Shows
<1>1. CASE MC!Tick \/ UNCHANGED MC!vars
  BY <1>1, RestShows
<1>2. CASE MC!Crash
  BY <1>2, CrashShows
<1>3. CASE MC!Ready \/ (\E c \in Callers : MC!FindTemp(c)) \/ (\E k \in Keys : MC!FindFile(k))
  <2>1. ~MC!Running
    BY <1>3 DEF MC!Ready, MC!FindTemp, MC!FindFile, MC!Running, MC!NoneDistinct
  <2> QED
    BY <1>3, <2>1, StartingShows
<1>4. ASSUME NEW c \in Callers,
             \/ MC!Start(c) \/ MC!Missing(c) \/ MC!Read(c) \/ MC!Sweep(c) \/ MC!BeginSet(c)
             \/ MC!Swept(c) \/ MC!WriteTemp(c) \/ MC!Rename(c) \/ MC!WriteFails(c) \/ MC!Record(c) \/ MC!Evict(c)
             \/ MC!SetReturns(c) \/ MC!Delete(c) \/ MC!MemoryGet(c) \/ MC!MemorySet(c)
      PROVE  Shows
  BY <1>4, StartShows, RemovalsShow, AwaitsShow, RenameShows, AnswersShow, RecordShows,
     MemorySetShows
<1> QED
  BY <1>1, <1>2, <1>3, <1>4 DEF MC!Next
-----------------------------------------------------------------------------
(* What callers are told is what a map that may forget tells them: through *)
(* rewrites by readers, evictions, failed writes and removals, and         *)
(* restarts in the middle of any of them (MediaCache of media-cache.js).   *)
THEOREM CacheIsForgetfulMap == MC!Spec => CacheForgets
<1>0. MC!NoneDistinct
  BY MediaAssumption
<1>1. MC!Init => CacheInv /\ MC!Forgetful!Init
  BY <1>0, CacheStarts
<1>2. CacheInv /\ [MC!Next]_(MC!vars) => Shows
  BY <1>0, CacheStep
<1>3. CacheInv /\ [MC!Next]_(MC!vars) => CacheInv'
  BY <1>2 DEF Shows
<1>4. CacheInv /\ [MC!Next]_(MC!vars)
        => [MC!Forgetful!Next]_<<[k \in Keys |-> IF files[k] = None THEN None ELSE files[k].val],
                              [c \in Callers |-> IF op[c].kind = "set"
                                                 THEN <<op[c].key, op[c].val>> ELSE None],
                              answer>>
  BY <1>2 DEF Shows, mapVars, CMap, CPending
<1> QED
  BY <1>1, <1>3, <1>4, PTL DEF CacheForgets, MC!Spec, MC!CacheForgets,
     MC!Forgetful!Spec

-----------------------------------------------------------------------------
(* A sum over a finite set.  SumFunctionOnSet folds the set by choosing    *)
(* one element after the other; the fold exists for finite sets, and the   *)
(* order of the choices does not matter.                                   *)
Lower == {p \in Nat \X Nat : p[1] < p[2]}

LEMMA LeastNumber ==
  ASSUME NEW T, T \subseteq Nat, T # {}
  PROVE  \E n \in T : \A m \in T : n <= m
<1>1. IsWellFoundedOn(Lower, Nat)
  BY NatLessThanWellFounded DEF OpToRel, Lower
<1>2. PICK n \in T : \A m \in T : ~(<<m, n>> \in Lower)
  BY <1>1, WFMin
<1>3. \A m \in T : ~(m < n)
  BY <1>2 DEF Lower
<1> QED
  BY <1>3

PickOf(s) == CHOOSE x \in s : TRUE

(* g is the fold of f over the subsets of S that have at most n elements.  *)
IsFold(g, f, S, n) ==
  g = [s \in {t \in SUBSET S : Cardinality(t) <= n} |->
         IF s = {} THEN 0 ELSE f[PickOf(s)] + g[s \ {PickOf(s)}]]

LEMMA PickSmaller ==
  ASSUME NEW S, IsFiniteSet(S), NEW s \in SUBSET S, s # {}
  PROVE  /\ PickOf(s) \in s /\ s \ {PickOf(s)} \in SUBSET S
         /\ Cardinality(s) \in Nat
         /\ Cardinality(s \ {PickOf(s)}) \in Nat
         /\ Cardinality(s \ {PickOf(s)}) < Cardinality(s)
<1>1. PickOf(s) \in s
  BY DEF PickOf
<1>2. IsFiniteSet(s)
  BY FS_Subset
<1>3. Cardinality(s) \in Nat
  BY <1>2, FS_CardinalityType
<1>4. \A x \in s : IsFiniteSet(s \ {x}) /\ Cardinality(s \ {x}) = Cardinality(s) - 1
  BY <1>2, FS_RemoveElement
<1> HIDE DEF PickOf
<1>5. /\ IsFiniteSet(s \ {PickOf(s)})
      /\ Cardinality(s \ {PickOf(s)}) = Cardinality(s) - 1
  BY <1>1, <1>4
<1>6. Cardinality(s \ {PickOf(s)}) \in Nat
  BY <1>5, FS_CardinalityType
<1> QED
  BY <1>1, <1>3, <1>5, <1>6

LEMMA FoldExists ==
  ASSUME NEW f, NEW S, IsFiniteSet(S), NEW n \in Nat
  PROVE  \E g : IsFold(g, f, S, n)
<1> DEFINE Bad == {k \in Nat : ~ \E g : IsFold(g, f, S, k)}
<1>1. SUFFICES ASSUME Bad # {} PROVE FALSE
  OBVIOUS
<1>2. PICK k \in Bad : \A m \in Bad : k <= m
  <2> HIDE DEF Bad
  <2>1. Bad \subseteq Nat
    BY DEF Bad
  <2> QED
    BY <1>1, <2>1, LeastNumber
<1>3. CASE k = 0
  <2> DEFINE D == {t \in SUBSET S : Cardinality(t) <= 0}
             g == [s \in D |-> 0]
  <2>1. ASSUME NEW s \in D PROVE s = {}
    <3>1. IsFiniteSet(s) /\ Cardinality(s) <= 0
      BY FS_Subset
    <3> QED
      BY <3>1, FS_CardinalityType, FS_EmptySet
  <2>2. IsFold(g, f, S, 0)
    BY <2>1 DEF IsFold
  <2> QED
    BY <1>3, <2>2
<1>4. CASE k # 0
  <2>1. k - 1 \in Nat /\ k - 1 \notin Bad /\ k \in Nat
    BY <1>2, <1>4
  <2>2. PICK h : IsFold(h, f, S, k - 1)
    BY <2>1
  <2> DEFINE D == {t \in SUBSET S : Cardinality(t) <= k}
             E == {t \in SUBSET S : Cardinality(t) <= k - 1}
             g == [s \in D |-> IF s = {} THEN 0 ELSE f[PickOf(s)] + h[s \ {PickOf(s)}]]
  <2>3. ASSUME NEW s \in E
        PROVE  s \in D /\ g[s] = h[s]
    <3>1. Cardinality(s) \in Nat
      BY FS_Subset, FS_CardinalityType
    <3>2. s \in D
      BY <2>1, <3>1
    <3>3. h[s] = IF s = {} THEN 0 ELSE f[PickOf(s)] + h[s \ {PickOf(s)}]
      <4> DEFINE R == [t \in E |-> IF t = {} THEN 0 ELSE f[PickOf(t)] + h[t \ {PickOf(t)}]]
      <4>1. h = R
        BY <2>2 DEF IsFold
      <4>2. R[s] = IF s = {} THEN 0 ELSE f[PickOf(s)] + h[s \ {PickOf(s)}]
        OBVIOUS
      <4> HIDE DEF R
      <4> QED
        BY <4>1, <4>2
    <3> QED
      BY <3>2, <3>3
  <2>4. ASSUME NEW s \in D, s # {}
        PROVE  s \ {PickOf(s)} \in E
    BY <2>1, <2>4, PickSmaller
  <2>5. \A s \in D : s # {} => g[s \ {PickOf(s)}] = h[s \ {PickOf(s)}]
    <3> HIDE DEF g, D, E
    <3> QED
      BY <2>3, <2>4
  <2>6. g = [s \in D |-> IF s = {} THEN 0 ELSE f[PickOf(s)] + g[s \ {PickOf(s)}]]
    <3>1. \A s \in D : g[s] = IF s = {} THEN 0 ELSE f[PickOf(s)] + h[s \ {PickOf(s)}]
      OBVIOUS
    <3>2. g = [s \in D |-> g[s]]
      OBVIOUS
    <3> HIDE DEF g, D, E
    <3> QED
      BY <2>5, <3>1, <3>2
  <2>7. IsFold(g, f, S, k)
    BY <2>6 DEF IsFold
  <2> QED
    BY <1>2, <2>7
<1> QED
  BY <1>3, <1>4

(* The fold over all subsets of S, and the sum, which is its value at S.   *)
IsSum(g, f, S) ==
  g = [s \in SUBSET S |-> IF s = {} THEN 0 ELSE f[PickOf(s)] + g[s \ {PickOf(s)}]]

LEMMA SumIsFold ==
  ASSUME NEW f, NEW S, IsFiniteSet(S)
  PROVE  \E g : IsSum(g, f, S) /\ SumFunctionOnSet(f, S) = g[S]
<1>1. {t \in SUBSET S : Cardinality(t) <= Cardinality(S)} = SUBSET S
  BY FS_Subset
<1>2. Cardinality(S) \in Nat
  BY FS_CardinalityType
<1>3. PICK g : IsFold(g, f, S, Cardinality(S))
  BY <1>2, FoldExists
<1>4. IsSum(g, f, S)
  BY <1>1, <1>3 DEF IsFold, IsSum
<1>5. SumFunctionOnSet(f, S) = (CHOOSE h : IsSum(h, f, S))[S]
  BY DEF SumFunctionOnSet, FoldFunctionOnSet, MapThenFoldSet, IsSum, PickOf
<1> QED
  BY <1>4, <1>5

LEMMA SumStep ==
  ASSUME NEW g, NEW f, NEW S, IsSum(g, f, S)
  PROVE  /\ g[{}] = 0
         /\ \A s \in SUBSET S : s # {} => g[s] = f[PickOf(s)] + g[s \ {PickOf(s)}]
<1> SUFFICES ASSUME NEW s \in SUBSET S
             PROVE  /\ s = {} => g[s] = 0
                    /\ s # {} => g[s] = f[PickOf(s)] + g[s \ {PickOf(s)}]
  OBVIOUS
<1> DEFINE R == [t \in SUBSET S |-> IF t = {} THEN 0 ELSE f[PickOf(t)] + g[t \ {PickOf(t)}]]
<1>1. g = R
  BY DEF IsSum
<1>2. R[s] = IF s = {} THEN 0 ELSE f[PickOf(s)] + g[s \ {PickOf(s)}]
  OBVIOUS
<1> HIDE DEF R
<1> QED
  BY <1>1, <1>2

(* Two sums of functions that agree are the same. *)
LEMMA SumsAgree ==
  ASSUME NEW g, NEW h, NEW f, NEW e, NEW S, NEW T \in SUBSET S, IsFiniteSet(S),
         IsSum(g, f, S), IsSum(h, e, T), \A x \in T : f[x] = e[x]
  PROVE  g[T] = h[T]
<1> DEFINE Bad == {Cardinality(s) : s \in {t \in SUBSET T : g[t] # h[t]}}
<1>0. Bad \subseteq Nat
  BY FS_Subset, FS_CardinalityType
<1>1. SUFFICES ASSUME Bad # {} PROVE FALSE
  OBVIOUS
<1>2. PICK n \in Bad : \A m \in Bad : n <= m
  <2> HIDE DEF Bad
  <2> QED
    BY <1>0, <1>1, LeastNumber
<1>3. PICK s \in SUBSET T : g[s] # h[s] /\ n = Cardinality(s)
  BY <1>2
<1>4. s # {}
  <2>1. g[{}] = 0 /\ h[{}] = 0
    BY SumStep
  <2> QED
    BY <1>3, <2>1
<1> DEFINE y == PickOf(s)
<1>5. /\ y \in s /\ s \ {y} \in SUBSET T
      /\ Cardinality(s) \in Nat
      /\ Cardinality(s \ {y}) \in Nat
      /\ Cardinality(s \ {y}) < Cardinality(s)
  <2>1. IsFiniteSet(T)
    BY FS_Subset
  <2> QED
    BY <1>3, <1>4, <2>1, PickSmaller
<1>6. g[s] = f[y] + g[s \ {y}] /\ h[s] = e[y] + h[s \ {y}]
  <2>1. s \in SUBSET S
    OBVIOUS
  <2>2. g[s] = f[y] + g[s \ {y}]
    <3>1. \A t \in SUBSET S : t # {} => g[t] = f[PickOf(t)] + g[t \ {PickOf(t)}]
      BY SumStep
    <3> QED
      BY <1>4, <2>1, <3>1
  <2>3. h[s] = e[y] + h[s \ {y}]
    <3>1. \A t \in SUBSET T : t # {} => h[t] = e[PickOf(t)] + h[t \ {PickOf(t)}]
      BY SumStep
    <3> QED
      BY <1>4, <3>1
  <2> QED
    BY <2>2, <2>3
<1> HIDE DEF y
<1>7. g[s \ {y}] = h[s \ {y}]
  <2>1. Cardinality(s \ {y}) \notin Bad
    <3> HIDE DEF Bad
    <3> QED
      BY <1>0, <1>2, <1>3, <1>5
  <2> QED
    BY <1>5, <2>1
<1>8. f[y] = e[y]
  BY <1>5
<1> QED
  BY <1>3, <1>6, <1>7, <1>8

LEMMA SumsNatural ==
  ASSUME NEW g, NEW f, NEW S, IsFiniteSet(S), IsSum(g, f, S), \A x \in S : f[x] \in Nat,
         NEW T \in SUBSET S
  PROVE  g[T] \in Nat
<1> DEFINE Bad == {Cardinality(s) : s \in {t \in SUBSET S : g[t] \notin Nat}}
<1>0. Bad \subseteq Nat
  BY FS_Subset, FS_CardinalityType
<1>1. SUFFICES ASSUME Bad # {} PROVE FALSE
  OBVIOUS
<1>2. PICK n \in Bad : \A m \in Bad : n <= m
  <2> HIDE DEF Bad
  <2> QED
    BY <1>0, <1>1, LeastNumber
<1>3. PICK s \in SUBSET S : g[s] \notin Nat /\ n = Cardinality(s)
  BY <1>2
<1>4. s # {}
  <2>1. g[{}] = 0
    BY SumStep
  <2> QED
    BY <1>3, <2>1
<1> DEFINE y == PickOf(s)
<1>5. /\ y \in s /\ s \ {y} \in SUBSET S
      /\ Cardinality(s) \in Nat
      /\ Cardinality(s \ {y}) \in Nat
      /\ Cardinality(s \ {y}) < Cardinality(s)
  BY <1>3, <1>4, PickSmaller
<1>6. g[s] = f[y] + g[s \ {y}]
  <2>1. \A t \in SUBSET S : t # {} => g[t] = f[PickOf(t)] + g[t \ {PickOf(t)}]
    BY SumStep
  <2> QED
    BY <1>4, <2>1
<1> HIDE DEF y
<1>7. g[s \ {y}] \in Nat
  <2>1. Cardinality(s \ {y}) \notin Bad
    <3> HIDE DEF Bad
    <3> QED
      BY <1>0, <1>2, <1>3, <1>5
  <2> QED
    BY <1>5, <2>1
<1>8. f[y] \in Nat
  BY <1>5
<1> QED
  BY <1>3, <1>6, <1>7, <1>8

(* Any element may be taken first. *)
LEMMA SumsInAnyOrder ==
  ASSUME NEW g, NEW f, NEW S, IsFiniteSet(S), IsSum(g, f, S), \A x \in S : f[x] \in Nat,
         NEW T \in SUBSET S, NEW z \in T
  PROVE  g[T] = f[z] + g[T \ {z}]
<1> DEFINE Wrong(t) == \E x \in t : g[t] # f[x] + g[t \ {x}]
           Bad == {Cardinality(s) : s \in {t \in SUBSET S : Wrong(t)}}
<1>0. Bad \subseteq Nat
  BY FS_Subset, FS_CardinalityType
<1>1. SUFFICES ASSUME Bad # {} PROVE FALSE
  OBVIOUS
<1>2. PICK n \in Bad : \A m \in Bad : n <= m
  <2> HIDE DEF Bad
  <2> QED
    BY <1>0, <1>1, LeastNumber
<1>3. PICK s \in SUBSET S : Wrong(s) /\ n = Cardinality(s)
  BY <1>2
<1>4. PICK x \in s : g[s] # f[x] + g[s \ {x}]
  BY <1>3
<1> DEFINE y == PickOf(s)
<1>5. /\ y \in s /\ s \ {y} \in SUBSET S
      /\ Cardinality(s) \in Nat
      /\ Cardinality(s \ {y}) \in Nat
      /\ Cardinality(s \ {y}) < Cardinality(s)
  BY <1>3, <1>4, PickSmaller
<1>6. g[s] = f[y] + g[s \ {y}]
  <2>1. \A t \in SUBSET S : t # {} => g[t] = f[PickOf(t)] + g[t \ {PickOf(t)}]
    BY SumStep
  <2> QED
    BY <1>4, <2>1
<1> HIDE DEF y
<1>7. x # y
  BY <1>4, <1>6
<1>8. ~Wrong(s \ {y})
  <2>1. Cardinality(s \ {y}) \notin Bad
    <3> HIDE DEF Bad
    <3> QED
      BY <1>0, <1>2, <1>3, <1>5
  <2> HIDE DEF Wrong
  <2> QED
    BY <1>5, <2>1
<1>9. g[s \ {y}] = f[x] + g[(s \ {y}) \ {x}]
  BY <1>4, <1>7, <1>8
<1>10. g[s \ {x}] = f[y] + g[(s \ {x}) \ {y}]
  <2>1. Cardinality(s \ {x}) < Cardinality(s) /\ Cardinality(s \ {x}) \in Nat
    <3>1. IsFiniteSet(s)
      BY FS_Subset
    <3>2. IsFiniteSet(s \ {x}) /\ Cardinality(s \ {x}) = Cardinality(s) - 1
      BY <1>4, <3>1, FS_RemoveElement
    <3>3. Cardinality(s \ {x}) \in Nat
      BY <3>2, FS_CardinalityType
    <3> QED
      BY <1>5, <3>2, <3>3
  <2>2. ~Wrong(s \ {x})
    <3>1. Cardinality(s \ {x}) \notin Bad
      <4> HIDE DEF Bad
      <4> QED
        BY <1>0, <1>2, <1>3, <1>5, <2>1
    <3>2. s \ {x} \in SUBSET S
      BY <1>3
    <3> HIDE DEF Wrong
    <3> QED
      BY <3>1, <3>2
  <2>3. y \in s \ {x}
    BY <1>5, <1>7
  <2> QED
    BY <2>2, <2>3
<1>11. (s \ {x}) \ {y} = (s \ {y}) \ {x}
  OBVIOUS
<1>12. /\ f[x] \in Nat /\ f[y] \in Nat
       /\ g[s] \in Nat /\ g[s \ {x}] \in Nat /\ g[s \ {y}] \in Nat
       /\ g[(s \ {x}) \ {y}] \in Nat
  <2>1. x \in S /\ y \in S
    BY <1>3, <1>4, <1>5
  <2>2. \A t \in SUBSET S : g[t] \in Nat
    BY SumsNatural
  <2>3. (s \ {x}) \in SUBSET S /\ ((s \ {x}) \ {y}) \in SUBSET S
    BY <1>3
  <2>4. f[x] \in Nat /\ f[y] \in Nat
    BY <2>1
  <2> QED
    BY <1>3, <1>5, <2>2, <2>3, <2>4
<1> HIDE DEF Wrong, Bad
<1>13. g[s] = f[y] + (f[x] + g[(s \ {x}) \ {y}])
  BY <1>6, <1>9, <1>11
<1>14. f[x] + g[s \ {x}] = f[x] + (f[y] + g[(s \ {x}) \ {y}])
  BY <1>10
<1> QED
  BY <1>4, <1>12, <1>13, <1>14

-----------------------------------------------------------------------------
(* What follows for the sums. *)
LEMMA SumEmpty ==
  ASSUME NEW f
  PROVE  SumFunctionOnSet(f, {}) = 0
<1>1. IsFiniteSet({})
  BY FS_EmptySet
<1>2. PICK g : IsSum(g, f, {}) /\ SumFunctionOnSet(f, {}) = g[{}]
  BY <1>1, SumIsFold
<1> QED
  BY <1>2, SumStep

LEMMA SumNatural ==
  ASSUME NEW S, IsFiniteSet(S), NEW f, \A x \in S : f[x] \in Nat
  PROVE  SumFunctionOnSet(f, S) \in Nat
<1>1. PICK g : IsSum(g, f, S) /\ SumFunctionOnSet(f, S) = g[S]
  BY SumIsFold
<1>2. S \in SUBSET S
  OBVIOUS
<1>3. g[S] \in Nat
  BY <1>1, <1>2, SumsNatural
<1> QED
  BY <1>1, <1>3

LEMMA SumSame ==
  ASSUME NEW S, IsFiniteSet(S), NEW f, NEW e, \A x \in S : f[x] = e[x]
  PROVE  SumFunctionOnSet(f, S) = SumFunctionOnSet(e, S)
<1>1. PICK g : IsSum(g, f, S) /\ SumFunctionOnSet(f, S) = g[S]
  BY SumIsFold
<1>2. PICK h : IsSum(h, e, S) /\ SumFunctionOnSet(e, S) = h[S]
  BY SumIsFold
<1>3. S \in SUBSET S
  OBVIOUS
<1>4. g[S] = h[S]
  BY <1>1, <1>2, <1>3, SumsAgree
<1> QED
  BY <1>1, <1>2, <1>4

LEMMA SumWithout ==
  ASSUME NEW S, IsFiniteSet(S), NEW f, \A x \in S : f[x] \in Nat, NEW z \in S
  PROVE  SumFunctionOnSet(f, S) = f[z] + SumFunctionOnSet(f, S \ {z})
<1>1. PICK g : IsSum(g, f, S) /\ SumFunctionOnSet(f, S) = g[S]
  BY SumIsFold
<1>2. S \in SUBSET S /\ S \ {z} \in SUBSET S
  OBVIOUS
<1>3. g[S] = f[z] + g[S \ {z}]
  BY <1>1, <1>2, SumsInAnyOrder
<1>4. IsFiniteSet(S \ {z})
  BY FS_Subset
<1>5. PICK h : IsSum(h, f, S \ {z}) /\ SumFunctionOnSet(f, S \ {z}) = h[S \ {z}]
  BY <1>4, SumIsFold
<1>6. g[S \ {z}] = h[S \ {z}]
  BY <1>1, <1>2, <1>5, SumsAgree
<1> QED
  BY <1>1, <1>3, <1>5, <1>6

LEMMA SumWith ==
  ASSUME NEW S, IsFiniteSet(S), NEW f, NEW z, z \notin S,
         \A x \in S \cup {z} : f[x] \in Nat
  PROVE  SumFunctionOnSet(f, S \cup {z}) = f[z] + SumFunctionOnSet(f, S)
<1>1. IsFiniteSet(S \cup {z})
  BY FS_AddElement
<1>2. (S \cup {z}) \ {z} = S
  OBVIOUS
<1>3. z \in S \cup {z}
  OBVIOUS
<1> DEFINE U == S \cup {z}
<1>4. SumFunctionOnSet(f, U) = f[z] + SumFunctionOnSet(f, U \ {z})
  <2>1. IsFiniteSet(U) /\ z \in U /\ \A x \in U : f[x] \in Nat
    BY <1>1
  <2> HIDE DEF U
  <2> QED
    BY <2>1, SumWithout
<1> QED
  BY <1>2, <1>4

-----------------------------------------------------------------------------
(* The bytes of the media cache.                                           *)
IndexEntry == [size : Nat, used : Nat]
Recording(k) == \E c \in Callers : op[c].at = "record" /\ op[c].key = k

IndexTypes ==
    /\ index \in [Keys -> IndexEntry \cup {None}] /\ tmp \subseteq Callers
    /\ ~persistent => stuck = {}
    /\ ~MC!Running => found \subseteq Keys \cup Callers

(* A file is there for a reason, and no reason is without its file.        *)
FilesCounted ==
    \A k \in Keys : files[k] # None <=>
        \/ index[k] # None \/ k \in stuck \/ Recording(k)
        \/ (~MC!Running /\ k \in found)

FoundKnown == ~MC!Running => \A k \in Keys : k \in found => index[k] = None

(* Sizes in the index are those of the files, except of one just renamed;  *)
(* and a get rewrites a file of the size it had.                           *)
SizesMatch ==
    /\ \A k \in Keys : index[k] # None /\ ~Recording(k) =>
          index[k].size = ValueSize[files[k].val]
    /\ \A c \in Callers : op[c].kind = "get" /\ Working(c) =>
          index[op[c].key] # None /\ index[op[c].key].size = ValueSize[op[c].val]

Sizes0 == [k \in Keys |-> MC!SizeOf(k)]
BytesCounted == bytes = SumFunctionOnSet(Sizes0, Keys)

Evicting == \E c \in Callers : op[c].at = "evict"
LimitKept == MC!Running /\ MC!TooMany => Evicting

CountInv ==
    /\ IndexTypes /\ FilesCounted /\ FoundKnown /\ SizesMatch /\ BytesCounted /\ LimitKept

LEMMA SumOfInstance ==
  ASSUME NEW f
  PROVE  MC!SumFunction(f) = SumFunctionOnSet(f, DOMAIN f)
<1>1. MC!SumFunctionOnSet(f, DOMAIN f) = (CHOOSE h : IsSum(h, f, DOMAIN f))[DOMAIN f]
  BY DEF MC!SumFunctionOnSet, MC!FoldFunctionOnSet, MC!MapThenFoldSet, IsSum, PickOf
<1>2. SumFunctionOnSet(f, DOMAIN f) = (CHOOSE h : IsSum(h, f, DOMAIN f))[DOMAIN f]
  BY DEF SumFunctionOnSet, FoldFunctionOnSet, MapThenFoldSet, IsSum, PickOf
<1> QED
  BY <1>1, <1>2 DEF MC!SumFunction

LEMMA SumOfZeros ==
  ASSUME NEW S, IsFiniteSet(S), NEW f, \A x \in S : f[x] = 0
  PROVE  SumFunctionOnSet(f, S) = 0
<1>1. PICK g : IsSum(g, f, S) /\ SumFunctionOnSet(f, S) = g[S]
  BY SumIsFold
<1>2. S = {} => g[S] = 0
  BY <1>1, SumStep
<1>3. SUFFICES ASSUME S # {}, g[S] # 0 PROVE FALSE
  BY <1>1, <1>2
<1> DEFINE Bad == {Cardinality(s) : s \in {t \in SUBSET S : g[t] # 0}}
<1>4. Bad \subseteq Nat /\ Bad # {}
  BY <1>3, FS_Subset, FS_CardinalityType
<1>5. PICK n \in Bad : \A m \in Bad : n <= m
  <2> HIDE DEF Bad
  <2> QED
    BY <1>4, LeastNumber
<1>6. PICK s \in SUBSET S : g[s] # 0 /\ n = Cardinality(s)
  BY <1>5
<1>7. /\ s # {}
      /\ g[s] = f[PickOf(s)] + g[s \ {PickOf(s)}]
  <2>1. g[{}] = 0 /\ \A t \in SUBSET S : t # {} => g[t] = f[PickOf(t)] + g[t \ {PickOf(t)}]
    BY <1>1, SumStep
  <2> QED
    BY <1>6, <2>1
<1> DEFINE y == PickOf(s)
<1>8. /\ y \in s /\ s \ {y} \in SUBSET S
      /\ Cardinality(s) \in Nat
      /\ Cardinality(s \ {y}) \in Nat
      /\ Cardinality(s \ {y}) < Cardinality(s)
  BY <1>6, <1>7, PickSmaller
<1> HIDE DEF y
<1>9. g[s \ {y}] = 0
  <2>1. Cardinality(s \ {y}) \notin Bad
    <3> HIDE DEF Bad
    <3> QED
      BY <1>4, <1>5, <1>6, <1>8
  <2> QED
    BY <1>8, <2>1
<1> QED
  BY <1>6, <1>7, <1>8, <1>9 DEF y

(* A sum of which one term changes.                                        *)
LEMMA SumChanges ==
  ASSUME NEW S, IsFiniteSet(S), NEW f, NEW e, NEW z \in S,
         \A x \in S : f[x] \in Nat /\ e[x] \in Nat,
         \A x \in S : x # z => e[x] = f[x]
  PROVE  /\ SumFunctionOnSet(f, S) \in Nat /\ f[z] <= SumFunctionOnSet(f, S)
         /\ SumFunctionOnSet(e, S) = SumFunctionOnSet(f, S) - f[z] + e[z]
<1>1. IsFiniteSet(S \ {z}) /\ \A x \in S \ {z} : f[x] = e[x] /\ f[x] \in Nat
  BY FS_Subset
<1>2. SumFunctionOnSet(f, S) = f[z] + SumFunctionOnSet(f, S \ {z})
  BY SumWithout
<1>3. SumFunctionOnSet(e, S) = e[z] + SumFunctionOnSet(e, S \ {z})
  BY SumWithout
<1> DEFINE T == S \ {z}
<1>4. SumFunctionOnSet(e, T) = SumFunctionOnSet(f, T) /\ SumFunctionOnSet(f, T) \in Nat
  <2>1. IsFiniteSet(T) /\ \A x \in T : f[x] = e[x] /\ f[x] \in Nat
    BY <1>1
  <2> HIDE DEF T
  <2>2. SumFunctionOnSet(f, T) = SumFunctionOnSet(e, T)
    BY <2>1, SumSame
  <2>3. SumFunctionOnSet(f, T) \in Nat
    BY <2>1, SumNatural
  <2> QED
    BY <2>2, <2>3
<1>5. f[z] \in Nat /\ e[z] \in Nat
  OBVIOUS
<1> QED
  BY <1>2, <1>3, <1>4, <1>5

LEMMA SizesNatural ==
  ASSUME IndexTypes
  PROVE  \A k \in Keys : MC!SizeOf(k) \in Nat /\ Sizes0[k] = MC!SizeOf(k)
BY DEF IndexTypes, MC!SizeOf, Sizes0, IndexEntry

(* The byte count after one entry has changed.                             *)
LEMMA BytesAfter ==
  ASSUME MC!SizeAssumption, IndexTypes, IndexTypes', BytesCounted, NEW k \in Keys,
         \A j \in Keys : j # k => index'[j] = index[j]
  PROVE  /\ bytes \in Nat /\ MC!SizeOf(k) \in Nat /\ MC!SizeOf(k) <= bytes
         /\ BytesCounted' <=> bytes' = bytes - MC!SizeOf(k) + MC!SizeOf(k)'
<1>1. /\ \A j \in Keys : Sizes0[j] = MC!SizeOf(j) /\ Sizes0[j] \in Nat
      /\ \A j \in Keys : Sizes0'[j] = MC!SizeOf(j)' /\ Sizes0'[j] \in Nat
  <2>1. \A j \in Keys : Sizes0[j] = MC!SizeOf(j) /\ Sizes0[j] \in Nat
    BY SizesNatural
  <2>2. \A j \in Keys : Sizes0'[j] = MC!SizeOf(j)' /\ Sizes0'[j] \in Nat
    BY DEF IndexTypes, MC!SizeOf, Sizes0, IndexEntry
  <2> QED
    BY <2>1, <2>2
<1>2. \A j \in Keys : j # k => MC!SizeOf(j)' = MC!SizeOf(j)
  BY DEF MC!SizeOf
<1>a. PICK f : f = Sizes0
  OBVIOUS
<1>b. PICK e : e = Sizes0'
  OBVIOUS
<1>3. IsFiniteSet(Keys)
  BY DEF MC!SizeAssumption, MC!IsFiniteSet, IsFiniteSet
<1>4. /\ \A x \in Keys : f[x] \in Nat /\ e[x] \in Nat
      /\ \A x \in Keys : x # k => e[x] = f[x]
      /\ f[k] = MC!SizeOf(k) /\ e[k] = MC!SizeOf(k)'
  BY <1>1, <1>2, <1>a, <1>b
<1>5. bytes = SumFunctionOnSet(f, Keys)
  BY <1>a DEF BytesCounted
<1>6. BytesCounted' <=> bytes' = SumFunctionOnSet(e, Keys)
  BY <1>b DEF BytesCounted
<1>7. /\ SumFunctionOnSet(f, Keys) \in Nat /\ f[k] <= SumFunctionOnSet(f, Keys)
      /\ SumFunctionOnSet(e, Keys) = SumFunctionOnSet(f, Keys) - f[k] + e[k]
  <2>1. \A x \in Keys : f[x] \in Nat /\ e[x] \in Nat
    BY <1>4
  <2>2. \A x \in Keys : x # k => e[x] = f[x]
    BY <1>4
  <2> QED
    BY ONLY <1>3, <2>1, <2>2, k \in Keys, SumChanges
<1> QED
  BY <1>4, <1>5, <1>6, <1>7

LEMMA MaxIs ==
  ASSUME NEW n \in Nat
  PROVE  MC!Max({0, n}) = n
<1>1. n \in {0, n} /\ \A y \in {0, n} : n >= y
  OBVIOUS
<1>2. \A x \in {0, n} : (\A y \in {0, n} : x >= y) => x = n
  OBVIOUS
<1> QED
  BY <1>1, <1>2 DEF MC!Max

(* What is on its way is what the head of the chain does. *)
LEMMA HeadAlone ==
  ASSUME CacheInv, NEW c \in Callers, chain # <<>>, Head(chain) = c, NEW o,
         op' = [op EXCEPT ![c] = o]
  PROVE  /\ op'[c] = o /\ \A d \in Callers : d # c => op'[d] = op[d] /\ ~Working(d)
         /\ \A k : Recording(k) <=> op[c].at = "record" /\ op[c].key = k
         /\ \A k : Recording(k)' <=> o.at = "record" /\ o.key = k
         /\ Evicting <=> op[c].at = "evict"
         /\ Evicting' <=> o.at = "evict"
<1>1. op'[c] = o /\ \A d \in Callers : d # c => op'[d] = op[d]
  BY DEF CacheInv, CacheTypes
<1>2. \A d \in Callers : d # c => ~Working(d)
  BY OnlyHeadWorks
<1>3. /\ \A k : Recording(k) <=> op[c].at = "record" /\ op[c].key = k
      /\ Evicting <=> op[c].at = "evict"
  BY <1>2 DEF Recording, Evicting, Working
<1>4. /\ \A k : Recording(k)' <=> o.at = "record" /\ o.key = k
      /\ Evicting' <=> o.at = "evict"
  BY <1>1, <1>2 DEF Recording, Evicting, Working
<1> QED
  BY <1>1, <1>2, <1>3, <1>4

(* The counts after an entry was removed.                                  *)
LEMMA RemovedCounts ==
  ASSUME MC!SizeAssumption, CacheInv, CountInv, NEW k \in Keys, MC!RemoveEntry(k),
         UNCHANGED <<persistent, tmp, found>>, MC!Running \/ found = {}, ~Recording(k)
  PROVE  /\ IndexTypes' /\ BytesCounted' /\ (MC!TooMany' => MC!TooMany)
         /\ \A j \in Keys : index'[j] # None => j # k /\ index'[j] = index[j] /\ files'[j] = files[j]
         /\ \A j \in Keys : j # k => index'[j] = index[j]
         /\ \A j \in Keys : files'[j] # None <=>
               \/ index'[j] # None \/ j \in stuck' \/ Recording(j)
               \/ (~MC!Running /\ j \in found)
<1>1. CacheTypes /\ MemoryKnown /\ IndexTypes /\ BytesCounted /\ FilesCounted
  BY DEF CacheInv, CountInv
<1>2. /\ index' = [index EXCEPT ![k] = None]
      /\ bytes' = MC!Max({0, bytes - MC!SizeOf(k)})
      /\ \/ index[k] = None /\ UNCHANGED <<files, stuck>>
         \/ index[k] # None /\ files' = [files EXCEPT ![k] = None] /\ stuck' = stuck \ {k}
         \/ index[k] # None /\ persistent /\ files' = files /\ stuck' = stuck \cup {k}
  BY DEF MC!RemoveEntry
<1>3. \A j \in Keys : index'[j] = IF j = k THEN None ELSE index[j]
  BY <1>1, <1>2 DEF IndexTypes
<1>4. IndexTypes'
  <2>1. index' \in [Keys -> IndexEntry \cup {None}]
    BY <1>1, <1>2 DEF IndexTypes
  <2> QED
    BY <1>1, <1>2, <2>1 DEF IndexTypes, MC!Running
<1>5. /\ bytes \in Nat /\ MC!SizeOf(k) \in Nat /\ MC!SizeOf(k) <= bytes
      /\ BytesCounted' <=> bytes' = bytes - MC!SizeOf(k) + MC!SizeOf(k)'
  BY <1>1, <1>3, <1>4, BytesAfter
<1>6. bytes' = bytes - MC!SizeOf(k) /\ bytes' \in Nat
  <2>1. bytes - MC!SizeOf(k) \in Nat
    BY <1>5
  <2> QED
    BY <1>2, <2>1, MaxIs
<1>7. MC!SizeOf(k)' = 0
  BY <1>3 DEF MC!SizeOf
<1>8. BytesCounted'
  BY <1>5, <1>6, <1>7
<1>9. MC!TooMany' => MC!TooMany
  BY <1>5, <1>6 DEF MC!TooMany, MC!SizeAssumption
<1>10. \A j \in Keys : index'[j] # None => j # k /\ index'[j] = index[j] /\ files'[j] = files[j]
  BY <1>1, <1>2, <1>3 DEF CacheTypes
<1>11. ASSUME NEW j \in Keys
       PROVE  files'[j] # None <=>
               \/ index'[j] # None \/ j \in stuck' \/ Recording(j)
               \/ (~MC!Running /\ j \in found)
  <2>1. files[j] # None <=> \/ index[j] # None \/ j \in stuck \/ Recording(j)
                            \/ (~MC!Running /\ j \in found)
    BY <1>1 DEF FilesCounted
  <2>2. CASE index[k] = None
    BY <1>2, <1>3, <2>1, <2>2
  <2>3. CASE index[k] # None /\ files' = [files EXCEPT ![k] = None] /\ stuck' = stuck \ {k}
    <3>1. files'[j] = IF j = k THEN None ELSE files[j]
      BY <1>1, <2>3 DEF CacheTypes
    <3> QED
      BY <1>3, <2>1, <2>3, <3>1
  <2>4. CASE index[k] # None /\ files' = files /\ stuck' = stuck \cup {k}
    BY <1>3, <2>1, <2>4
  <2> QED
    BY <1>2, <2>2, <2>3, <2>4
<1> QED
  BY <1>3, <1>4, <1>8, <1>9, <1>10, <1>11

(* The head removes an entry; it returns or goes on. *)
LEMMA RemovalCounts ==
  ASSUME MC!SizeAssumption, CacheInv, CountInv, NEW c \in Callers, NEW k \in Keys,
         MC!RemoveEntry(k), UNCHANGED <<persistent, tmp, found>>,
         MC!Running, chain # <<>>, Head(chain) = c, NEW o, op' = [op EXCEPT ![c] = o],
         op[c].at # "record", o.at # "record", op[c].at = "evict" => o.at = "evict",
         o.at \in {"none", "queued"} \/ o.kind # "get"
  PROVE  CountInv'
<1>1. /\ op'[c] = o /\ \A d \in Callers : d # c => op'[d] = op[d] /\ ~Working(d)
      /\ \A j : ~Recording(j) /\ ~Recording(j)'
      /\ Evicting => Evicting'
  BY HeadAlone
<1>2. /\ IndexTypes' /\ BytesCounted' /\ (MC!TooMany' => MC!TooMany)
      /\ \A j \in Keys : index'[j] # None => j # k /\ index'[j] = index[j] /\ files'[j] = files[j]
      /\ \A j \in Keys : files'[j] # None <=>
               \/ index'[j] # None \/ j \in stuck' \/ Recording(j)
               \/ (~MC!Running /\ j \in found)
  BY <1>1, RemovedCounts
<1>3. MC!Running'
  BY DEF MC!Running
<1>4. FilesCounted' /\ FoundKnown'
  BY <1>1, <1>2, <1>3 DEF FilesCounted, FoundKnown
<1>5. SizesMatch'
  <2>1. \A j \in Keys : index'[j] # None => index'[j].size = ValueSize[files'[j].val]
    BY <1>1, <1>2 DEF CountInv, SizesMatch
  <2>2. \A d \in Callers : ~(op'[d].kind = "get" /\ Working(d)')
    BY <1>1 DEF Working
  <2> QED
    BY <2>1, <2>2 DEF SizesMatch
<1>6. LimitKept'
  BY <1>1, <1>2 DEF CountInv, LimitKept
<1> QED
  BY <1>2, <1>4, <1>5, <1>6 DEF CountInv

(* The head waits or returns; storage and index are as they were. *)
LEMMA AwaitCounts ==
  ASSUME CacheInv, CountInv, NEW c \in Callers,
         UNCHANGED <<persistent, files, stuck, index, bytes, found>>, tmp' \subseteq Callers,
         ~persistent => tmp' = {},
         MC!Running, chain # <<>>, Head(chain) = c, NEW o, op' = [op EXCEPT ![c] = o],
         op[c].at # "record", o.at # "record", ~MC!TooMany \/ op[c].at # "evict",
         o.at \notin {"none", "queued"} /\ o.kind = "get" =>
            index[o.key] # None /\ index[o.key].size = ValueSize[o.val]
  PROVE  CountInv'
<1>1. /\ op'[c] = o /\ \A d \in Callers : d # c => op'[d] = op[d] /\ ~Working(d)
      /\ \A j : ~Recording(j) /\ ~Recording(j)'
      /\ Evicting <=> op[c].at = "evict"
  BY HeadAlone
<1>2. IndexTypes' /\ BytesCounted' /\ FilesCounted' /\ FoundKnown'
  <2>1. Sizes0' = Sizes0
    BY DEF Sizes0, MC!SizeOf
  <2> QED
    BY <1>1, <2>1 DEF CountInv, IndexTypes, BytesCounted, FilesCounted, FoundKnown, MC!Running
<1>3. SizesMatch'
  BY <1>1 DEF CountInv, SizesMatch, Working
<1>4. ~MC!TooMany'
  BY <1>1 DEF CountInv, LimitKept, MC!TooMany
<1> QED
  BY <1>2, <1>3, <1>4 DEF CountInv, LimitKept

(* A get that could not rewrite the file, or one in memory, notes the use. *)
LEMMA UseCounts ==
  ASSUME MC!NoneDistinct, MC!SizeAssumption, CacheInv, CountInv, NEW c \in Callers,
         NEW k \in Keys, NEW t \in Nat, index' = [index EXCEPT ![k].used = t],
         index[k] # None, UNCHANGED <<persistent, files, stuck, bytes, found>>,
         tmp' \subseteq Callers, ~persistent => tmp' = {},
         MC!Running, chain # <<>>, Head(chain) = c, op' = [op EXCEPT ![c] = MC!Idle],
         op[c].at \notin {"record", "evict"}
  PROVE  CountInv'
<1>1. /\ op'[c] = MC!Idle /\ \A d \in Callers : d # c => op'[d] = op[d] /\ ~Working(d)
      /\ \A j : ~Recording(j)
      /\ \A j : Recording(j)' <=> MC!Idle.at = "record" /\ MC!Idle.key = j
      /\ Evicting <=> op[c].at = "evict"
  <2>1. /\ op'[c] = MC!Idle /\ \A d \in Callers : d # c => op'[d] = op[d] /\ ~Working(d)
        /\ \A j : Recording(j) <=> op[c].at = "record" /\ op[c].key = j
        /\ \A j : Recording(j)' <=> MC!Idle.at = "record" /\ MC!Idle.key = j
        /\ Evicting <=> op[c].at = "evict"
    <3>1. PICK o : o = MC!Idle
      OBVIOUS
    <3>2. op' = [op EXCEPT ![c] = o]
      BY <3>1
    <3>3. /\ op'[c] = o /\ \A d \in Callers : d # c => op'[d] = op[d] /\ ~Working(d)
          /\ \A j : Recording(j) <=> op[c].at = "record" /\ op[c].key = j
          /\ \A j : Recording(j)' <=> o.at = "record" /\ o.key = j
          /\ Evicting <=> op[c].at = "evict"
      BY <3>2, HeadAlone, Zenon
    <3> QED
      BY <3>1, <3>3, Zenon
  <2>2. \A j : ~Recording(j)
    BY <2>1
  <2> QED
    BY <2>1, <2>2
<1>2. MC!Idle.at = "none"
  BY DEF MC!Idle
<1>3. IndexTypes /\ index[k] \in IndexEntry
  BY DEF CountInv, IndexTypes
<1> DEFINE e == [index[k] EXCEPT !.used = t]
<1>4. e \in IndexEntry /\ e # None /\ e.size = index[k].size
  BY <1>3 DEF IndexEntry, MC!NoneDistinct
<1>5. \A j \in Keys : index'[j] = IF j = k THEN e ELSE index[j]
  BY <1>3 DEF IndexTypes
<1> HIDE DEF e
<1>6. \A j \in Keys : (index'[j] # None <=> index[j] # None)
                      /\ (index[j] # None => index'[j].size = index[j].size)
  BY <1>4, <1>5
<1>7. IndexTypes'
  <2>1. index' \in [Keys -> IndexEntry \cup {None}]
    <3>1. DOMAIN index' = Keys /\ index' = [j \in Keys |-> index'[j]]
      BY <1>3 DEF IndexTypes
    <3>2. \A j \in Keys : index'[j] \in IndexEntry \cup {None}
      BY <1>3, <1>4, <1>5 DEF IndexTypes
    <3> QED
      BY <3>1, <3>2
  <2> QED
    BY <1>3, <2>1 DEF IndexTypes, MC!Running
<1>8. BytesCounted'
  <2>1. \A j \in Keys : MC!SizeOf(j)' = MC!SizeOf(j)
    BY <1>6 DEF MC!SizeOf
  <2>2. Sizes0' = Sizes0
    BY <2>1 DEF Sizes0
  <2> QED
    BY <2>2 DEF CountInv, BytesCounted
<1>9. FilesCounted' /\ FoundKnown'
  BY <1>1, <1>2, <1>6 DEF CountInv, FilesCounted, FoundKnown, MC!Running
<1>10. SizesMatch'
  <2>1. \A j \in Keys : index'[j] # None => index'[j].size = ValueSize[files'[j].val]
    BY <1>1, <1>6 DEF CountInv, SizesMatch
  <2>2. \A d \in Callers : ~Working(d)'
    BY <1>1, <1>2 DEF Working
  <2> QED
    BY <2>1, <2>2 DEF SizesMatch
<1>11. ~MC!TooMany'
  BY <1>1 DEF CountInv, LimitKept, MC!TooMany
<1> QED
  BY <1>7, <1>8, <1>9, <1>10, <1>11 DEF CountInv, LimitKept

(* The file is renamed to its name: it counts once it is recorded. *)
LEMMA RenameCounts ==
  ASSUME MC!NoneDistinct, CacheInv, CountInv, NEW c \in Callers, MC!Rename(c)
  PROVE  CountInv'
<1>1. /\ MC!Running /\ chain # <<>> /\ Head(chain) = c /\ op[c].at = "rename"
      /\ op[c].kind # "none" /\ op[c].key \in Keys /\ op[c] \in Operation
      /\ op[c].kind = "set" => op[c].val \in Values
  BY TurnIs DEF MC!Rename
<1>k. PICK k \in Keys : k = op[c].key
  BY <1>1
<1> DEFINE f == [val |-> op[c].val, used |-> op[c].time]
<1>2. CacheTypes /\ WorkOf(c)
  BY <1>1, <1>k DEF CacheInv, WorkKnown, Working
<1>3. /\ files' = [files EXCEPT ![k] = f] /\ tmp' = tmp \ {c} /\ stuck' = stuck \ {k}
      /\ UNCHANGED <<persistent, found, index, bytes>>
      /\ MC!Goto(c, "record")
  BY <1>k DEF MC!Rename, MC!world, MC!memory
<1>4. PICK o \in Operation :
         /\ op' = [op EXCEPT ![c] = o] /\ o.at = "record"
         /\ o.kind = op[c].kind /\ o.key = k /\ o.val = op[c].val
  <2>1. "record" \in Ats
    BY DEF Ats
  <2> QED
    BY <1>k, <1>2, <1>3, <2>1, GotoIs
<1>5. /\ op'[c] = o /\ \A d \in Callers : d # c => op'[d] = op[d] /\ ~Working(d)
      /\ \A j : ~Recording(j)
      /\ \A j : Recording(j)' <=> j = k
      /\ ~Evicting
  <2>1. /\ op'[c] = o /\ \A d \in Callers : d # c => op'[d] = op[d] /\ ~Working(d)
        /\ \A j : Recording(j) <=> op[c].at = "record" /\ op[c].key = j
        /\ \A j : Recording(j)' <=> o.at = "record" /\ o.key = j
        /\ Evicting <=> op[c].at = "evict"
    <3>1. chain # <<>> /\ Head(chain) = c
      BY <1>1
    <3>2. op' = [op EXCEPT ![c] = o]
      BY <1>4
    <3> HIDE DEF f
    <3> QED
      BY <3>1, <3>2, HeadAlone, Zenon
  <2>2. \A j : ~Recording(j)
    BY <1>1, <2>1
  <2>3. \A j : Recording(j)' <=> j = k
    BY <1>4, <2>1
  <2>4. ~Evicting
    BY <1>1, <2>1
  <2> QED
    BY <2>1, <2>2, <2>3, <2>4
<1>6. f # None
  <2>1. op[c].val \in Values
    <3>1. op[c].kind = "get" => files[k] \in File /\ files[k].val = op[c].val
      BY <1>1, <1>k, <1>2 DEF WorkOf, Kept, CacheTypes
    <3> QED
      BY <1>1, <1>k, <1>2, <3>1 DEF WorkOf, File
  <2>2. f \in File
    BY <1>1, <1>k, <2>1 DEF File, Operation
  <2> QED
    BY <2>2 DEF MC!NoneDistinct, File
<1>7. \A j \in Keys : files'[j] = IF j = k THEN f ELSE files[j]
  BY <1>2, <1>3 DEF CacheTypes
<1> HIDE DEF f
<1>8. IndexTypes' /\ BytesCounted'
  <2>1. Sizes0' = Sizes0
    BY <1>3 DEF Sizes0, MC!SizeOf
  <2> QED
    BY <1>3, <2>1 DEF CountInv, IndexTypes, BytesCounted, MC!Running
<1>9. FilesCounted' /\ FoundKnown'
  <2>1. MC!Running'
    BY <1>1, <1>k, <1>3 DEF MC!Running
  <2>2. \A j \in Keys : files[j] # None <=> index[j] # None \/ j \in stuck
    BY <1>1, <1>k, <1>5 DEF CountInv, FilesCounted
  <2>3. ASSUME NEW j \in Keys
        PROVE  files'[j] # None <=> index'[j] # None \/ j \in stuck' \/ Recording(j)'
    BY <1>3, <1>5, <1>6, <1>7, <2>2
  <2> QED
    BY <2>1, <2>3 DEF FilesCounted, FoundKnown
<1>10. SizesMatch'
  <2>1. \A j \in Keys : index'[j] # None /\ ~Recording(j)' =>
            index'[j].size = ValueSize[files'[j].val]
    BY <1>3, <1>5, <1>7 DEF CountInv, SizesMatch
  <2>2. \A d \in Callers : op'[d].kind = "get" /\ Working(d)' =>
            index'[op'[d].key] # None /\ index'[op'[d].key].size = ValueSize[op'[d].val]
    <3>1. \A d \in Callers : d # c => ~Working(d)'
      BY <1>5 DEF Working
    <3>2. op[c].kind = "get" => index[k] # None /\ index[k].size = ValueSize[op[c].val]
      BY <1>1, <1>k DEF CountInv, SizesMatch, Working
    <3> QED
      BY <1>3, <1>4, <1>5, <3>1, <3>2
  <2> QED
    BY <2>1, <2>2 DEF SizesMatch
<1>11. ~MC!TooMany'
  BY <1>1, <1>k, <1>3, <1>5 DEF CountInv, LimitKept, MC!TooMany
<1> QED
  BY <1>8, <1>9, <1>10, <1>11 DEF CountInv, LimitKept

(* The file is recorded; a get has rewritten what had the same size. *)
LEMMA RecordCounts ==
  ASSUME MC!NoneDistinct, MC!SizeAssumption, CacheInv, CountInv, NEW c \in Callers, MC!Record(c)
  PROVE  CountInv'
<1>1. /\ MC!Running /\ chain # <<>> /\ Head(chain) = c /\ op[c].at = "record"
      /\ op[c].kind # "none" /\ op[c].key \in Keys /\ op[c] \in Operation
      /\ op[c].kind = "set" => op[c].val \in Values
  BY TurnIs DEF MC!Record
<1>k. PICK k \in Keys : k = op[c].key
  BY <1>1
<1> DEFINE e == [size |-> ValueSize[op[c].val], used |-> op[c].time]
<1>2. CacheTypes /\ WorkOf(c) /\ IndexTypes /\ BytesCounted
  BY <1>1, <1>k DEF CacheInv, WorkKnown, Working, CountInv
<1>3. /\ index' = [index EXCEPT ![k] = e]
      /\ bytes' = bytes - MC!SizeOf(k) + ValueSize[op[c].val]
      /\ UNCHANGED <<persistent, found, files, tmp, stuck>>
      /\ \/ op[c].kind = "get" /\ MC!Return(c, <<k, op[c].val>>)
         \/ op[c].kind = "set" /\ MC!Goto(c, "evict")
  BY <1>k DEF MC!Record, MC!world, MC!disk
<1>4. files[k] # None /\ files[k].val = op[c].val /\ op[c].val \in Values
  BY <1>1, <1>k, <1>2 DEF WorkOf, Kept, CacheTypes, File
<1>5. PICK o :
         /\ op' = [op EXCEPT ![c] = o]
         /\ \/ op[c].kind = "get" /\ o = MC!Idle
            \/ op[c].kind = "set" /\ o.at = "evict" /\ o.kind = "set"
  <2>1. CASE op[c].kind = "get" /\ MC!Return(c, <<k, op[c].val>>)
    BY <2>1 DEF MC!Return
  <2>2. CASE op[c].kind = "set" /\ MC!Goto(c, "evict")
    <3>1. "evict" \in Ats
      BY DEF Ats
    <3> QED
      BY <1>2, <2>2, <3>1, GotoIs
  <2> QED
    BY <1>3, <2>1, <2>2
<1>6. MC!Idle.at = "none"
  BY DEF MC!Idle
<1>7. /\ op'[c] = o /\ \A d \in Callers : d # c => op'[d] = op[d] /\ ~Working(d)
      /\ \A j : Recording(j) <=> k = j
      /\ \A j : ~Recording(j)'
      /\ ~Evicting
      /\ op[c].kind = "set" => Evicting'
  <2>1. /\ op'[c] = o /\ \A d \in Callers : d # c => op'[d] = op[d] /\ ~Working(d)
        /\ \A j : Recording(j) <=> op[c].at = "record" /\ op[c].key = j
        /\ \A j : Recording(j)' <=> o.at = "record" /\ o.key = j
        /\ Evicting <=> op[c].at = "evict"
        /\ Evicting' <=> o.at = "evict"
    BY <1>1, <1>k, <1>5, HeadAlone
  <2> QED
    BY <1>1, <1>k, <1>5, <1>6, <2>1
<1>8. e \in IndexEntry /\ e # None /\ e.size = ValueSize[op[c].val]
  BY <1>1, <1>k, <1>4 DEF IndexEntry, MC!NoneDistinct, MC!SizeAssumption, Operation
<1> HIDE DEF e
<1>9. \A j \in Keys : index'[j] = IF j = k THEN e ELSE index[j]
  BY <1>2, <1>3 DEF IndexTypes
<1>10. IndexTypes'
  <2>1. index' \in [Keys -> IndexEntry \cup {None}]
    BY <1>2, <1>3, <1>8 DEF IndexTypes
  <2> QED
    BY <1>2, <1>3, <2>1 DEF IndexTypes, MC!Running
<1>11. BytesCounted'
  <2>1. /\ bytes \in Nat /\ MC!SizeOf(k) \in Nat /\ MC!SizeOf(k) <= bytes
        /\ BytesCounted' <=> bytes' = bytes - MC!SizeOf(k) + MC!SizeOf(k)'
    BY <1>1, <1>k, <1>2, <1>9, <1>10, BytesAfter
  <2>2. MC!SizeOf(k)' = ValueSize[op[c].val]
    BY <1>1, <1>k, <1>8, <1>9 DEF MC!SizeOf
  <2> QED
    BY <1>3, <2>1, <2>2
<1>12. FilesCounted' /\ FoundKnown'
  <2>1. MC!Running'
    BY <1>1, <1>k, <1>3 DEF MC!Running
  <2>2. \A j \in Keys : j # k => (files[j] # None <=> index[j] # None \/ j \in stuck)
    BY <1>1, <1>k, <1>7 DEF CountInv, FilesCounted
  <2>3. ASSUME NEW j \in Keys
        PROVE  files'[j] # None <=> index'[j] # None \/ j \in stuck' \/ Recording(j)'
    BY <1>3, <1>4, <1>7, <1>8, <1>9, <2>2
  <2> QED
    BY <2>1, <2>3 DEF FilesCounted, FoundKnown
<1>13. SizesMatch'
  <2>1. \A j \in Keys : index'[j] # None => index'[j].size = ValueSize[files'[j].val]
    BY <1>3, <1>4, <1>7, <1>8, <1>9 DEF CountInv, SizesMatch
  <2>2. \A d \in Callers : ~(op'[d].kind = "get" /\ Working(d)')
    BY <1>5, <1>6, <1>7 DEF Working
  <2> QED
    BY <2>1, <2>2 DEF SizesMatch
<1>14. LimitKept'
  <2>1. CASE op[c].kind = "set"
    BY <1>7, <2>1 DEF LimitKept
  <2>2. CASE op[c].kind = "get"
    <3>1. index[k] # None /\ index[k].size = ValueSize[op[c].val]
      BY <1>1, <1>k, <2>2 DEF CountInv, SizesMatch, Working
    <3>2. /\ bytes \in Nat /\ MC!SizeOf(k) \in Nat
      BY <1>1, <1>k, <1>2, <1>9, <1>10, BytesAfter
    <3>3. bytes' = bytes
      BY <1>3, <3>1, <3>2 DEF MC!SizeOf
    <3> QED
      BY <1>1, <1>k, <1>7, <3>3 DEF CountInv, LimitKept, MC!TooMany
  <2> QED
    BY <1>3, <2>1, <2>2
<1> QED
  BY <1>10, <1>11, <1>12, <1>13, <1>14 DEF CountInv

LEMMA MemorySetCounts ==
  ASSUME MC!NoneDistinct, MC!SizeAssumption, CacheInv, CountInv, NEW c \in Callers, MC!MemorySet(c)
  PROVE  CountInv'
<1>1. /\ MC!Running /\ chain # <<>> /\ Head(chain) = c /\ op[c].at = "sweep"
      /\ op[c].key \in Keys /\ op[c] \in Operation /\ op[c].kind = "set"
      /\ op[c].val \in Values /\ ~persistent
  BY SweepIs DEF MC!MemorySet
<1>k. PICK k \in Keys : k = op[c].key
  BY <1>1
<1> DEFINE e == [size |-> ValueSize[op[c].val], used |-> op[c].time]
           f == [val |-> op[c].val, used |-> op[c].time]
<1>2. CacheTypes /\ IndexTypes /\ BytesCounted
  BY DEF CacheInv, CountInv
<1>3. /\ index' = [index EXCEPT ![k] = e] /\ files' = [files EXCEPT ![k] = f]
      /\ bytes' = bytes - MC!SizeOf(k) + ValueSize[op[c].val]
      /\ UNCHANGED <<persistent, found, tmp, stuck>>
      /\ MC!Goto(c, "evict")
  BY <1>k DEF MC!MemorySet, MC!world
<1>4. PICK o \in Operation : op' = [op EXCEPT ![c] = o] /\ o.at = "evict" /\ o.kind = "set"
  <2>1. "evict" \in Ats
    BY DEF Ats
  <2> QED
    BY <1>1, <1>k, <1>2, <1>3, <2>1, GotoIs
<1>5. /\ op'[c] = o /\ \A d \in Callers : d # c => op'[d] = op[d] /\ ~Working(d)
      /\ \A j : ~Recording(j) /\ ~Recording(j)'
      /\ Evicting'
  <2>1. /\ op'[c] = o /\ \A d \in Callers : d # c => op'[d] = op[d] /\ ~Working(d)
        /\ \A j : Recording(j) <=> op[c].at = "record" /\ op[c].key = j
        /\ \A j : Recording(j)' <=> o.at = "record" /\ o.key = j
        /\ Evicting' <=> o.at = "evict"
    BY <1>1, <1>k, <1>4, HeadAlone
  <2> QED
    BY <1>1, <1>k, <1>4, <2>1
<1>6. /\ e \in IndexEntry /\ e # None /\ e.size = ValueSize[op[c].val]
      /\ f # None /\ f.val = op[c].val
  BY <1>1, <1>k, <1>2 DEF IndexEntry, MC!NoneDistinct, MC!SizeAssumption, CacheTypes, Operation
<1> HIDE DEF e, f
<1>7. \A j \in Keys : /\ index'[j] = IF j = k THEN e ELSE index[j]
                      /\ files'[j] = IF j = k THEN f ELSE files[j]
  BY <1>2, <1>3 DEF IndexTypes, CacheTypes
<1>8. IndexTypes'
  <2>1. index' \in [Keys -> IndexEntry \cup {None}]
    BY <1>2, <1>3, <1>6 DEF IndexTypes
  <2> QED
    BY <1>2, <1>3, <2>1 DEF IndexTypes, MC!Running
<1>9. BytesCounted'
  <2>1. /\ bytes \in Nat /\ MC!SizeOf(k) \in Nat
        /\ BytesCounted' <=> bytes' = bytes - MC!SizeOf(k) + MC!SizeOf(k)'
    BY <1>1, <1>k, <1>2, <1>7, <1>8, BytesAfter
  <2>2. MC!SizeOf(k)' = ValueSize[op[c].val]
    BY <1>1, <1>k, <1>6, <1>7 DEF MC!SizeOf
  <2> QED
    BY <1>3, <2>1, <2>2
<1>10. FilesCounted' /\ FoundKnown'
  <2>1. MC!Running'
    BY <1>1, <1>k, <1>3 DEF MC!Running
  <2>2. \A j \in Keys : files[j] # None <=> index[j] # None \/ j \in stuck
    BY <1>1, <1>k, <1>5 DEF CountInv, FilesCounted
  <2>3. ASSUME NEW j \in Keys
        PROVE  files'[j] # None <=> index'[j] # None \/ j \in stuck' \/ Recording(j)'
    BY <1>3, <1>5, <1>6, <1>7, <2>2
  <2> QED
    BY <2>1, <2>3 DEF FilesCounted, FoundKnown
<1>11. SizesMatch'
  <2>1. \A j \in Keys : index'[j] # None => index'[j].size = ValueSize[files'[j].val]
    BY <1>5, <1>6, <1>7 DEF CountInv, SizesMatch
  <2>2. \A d \in Callers : ~(op'[d].kind = "get" /\ Working(d)')
    BY <1>4, <1>5 DEF Working
  <2> QED
    BY <2>1, <2>2 DEF SizesMatch
<1> QED
  BY <1>5, <1>8, <1>9, <1>10, <1>11 DEF CountInv, LimitKept
-----------------------------------------------------------------------------
LEMMA CountStarts == ASSUME MC!SizeAssumption PROVE MC!Init => CountInv
<1> SUFFICES ASSUME MC!Init PROVE CountInv
  OBVIOUS
<1>1. /\ files = [k \in Keys |-> None] /\ index = [k \in Keys |-> None]
      /\ op = [c \in Callers |-> MC!Idle] /\ bytes = 0 /\ stuck = {}
      /\ persistent \in BOOLEAN /\ tmp = {} /\ found = None
  BY DEF MC!Init
<1>2. MC!Idle.at = "none"
  BY DEF MC!Idle
<1>3. IndexTypes /\ FilesCounted /\ FoundKnown /\ SizesMatch
  BY <1>1, <1>2 DEF IndexTypes, FilesCounted, FoundKnown, SizesMatch, Recording, Working,
     MC!Running
<1>4. BytesCounted
  <2>1. IsFiniteSet(Keys) /\ \A k \in Keys : Sizes0[k] = 0
    BY <1>1 DEF MC!SizeAssumption, MC!IsFiniteSet, IsFiniteSet, Sizes0, MC!SizeOf
  <2>2. SumFunctionOnSet(Sizes0, Keys) = 0
    BY <2>1, SumOfZeros
  <2> QED
    BY <1>1, <2>2 DEF BytesCounted
<1>5. ~MC!TooMany
  BY <1>1 DEF MC!TooMany, MC!SizeAssumption
<1> QED
  BY <1>3, <1>4, <1>5 DEF CountInv, LimitKept

LEMMA RemovalsCount ==
  ASSUME MC!SizeAssumption, CacheInv, CountInv, NEW c \in Callers,
         MC!Missing(c) \/ MC!Sweep(c) \/ MC!Evict(c) \/ MC!Delete(c)
  PROVE  CountInv'
<1>0. MC!Idle.at = "none"
  BY DEF MC!Idle
<1>1. /\ MC!Running /\ chain # <<>> /\ Head(chain) = c /\ op[c].at \in {"queued", "sweep", "evict"}
      /\ UNCHANGED <<persistent, tmp, found>>
  BY DEF MC!Missing, MC!Sweep, MC!Evict, MC!Delete, MC!Turn, MC!world
<1>2. CASE MC!Missing(c) \/ MC!Delete(c)
  <2>1. PICK k \in Keys : MC!RemoveEntry(k)
    <3>1. op[c].key \in Keys
      BY <1>2, TurnIs DEF MC!Missing, MC!Delete
    <3> QED
      BY <1>2, <3>1 DEF MC!Missing, MC!Delete
  <2>2. op' = [op EXCEPT ![c] = MC!Idle] /\ op[c].at = "queued"
    BY <1>2 DEF MC!Missing, MC!Delete, MC!Return, MC!Turn
  <2> QED
    BY <1>0, <1>1, <2>1, <2>2, RemovalCounts
<1>3. CASE MC!Sweep(c) \/ MC!Evict(c)
  <2>1. PICK k \in Keys : MC!RemoveEntry(k)
    BY <1>3 DEF MC!Sweep, MC!Evict, MC!Indexed, MC!Oldest
  <2>2. op' = op
    BY <1>3 DEF MC!Sweep, MC!Evict, MC!calling
  <2>3. op' = [op EXCEPT ![c] = op[c]]
    BY <2>2 DEF CacheInv, CacheTypes
  <2>4. op[c].at = "queued" \/ op[c].kind # "get"
    <3>1. CASE op[c].at \in {"sweep", "evict"}
      BY <3>1 DEF CacheInv, WorkKnown, WorkOf, Working
    <3> QED
      BY <1>1, <3>1
  <2> QED
    BY <1>1, <2>1, <2>3, <2>4, RemovalCounts
<1> QED
  BY <1>2, <1>3

LEMMA AwaitsCount ==
  ASSUME MC!NoneDistinct, MC!SizeAssumption, CacheInv, CountInv, NEW c \in Callers,
         \/ MC!Read(c) \/ MC!BeginSet(c) \/ MC!Swept(c) \/ MC!WriteTemp(c) \/ MC!WriteFails(c)
         \/ MC!SetReturns(c) \/ MC!MemoryGet(c)
  PROVE  CountInv'
<1>0. /\ MC!Idle.at = "none" /\ IndexTypes /\ CacheTypes /\ MemoryKnown
  BY DEF MC!Idle, CountInv, CacheInv
<1>1. CASE MC!Read(c)
  <2>1. /\ MC!Running /\ chain # <<>> /\ Head(chain) = c /\ op[c].at = "queued"
        /\ op[c].key \in Keys
    BY <1>1, TurnIs DEF MC!Read
  <2>k. PICK k \in Keys : k = op[c].key
    BY <2>1
  <2> DEFINE o == [op[c] EXCEPT !.val = files[k].val, !.at = "temp", !.time = clock]
  <2>2. /\ UNCHANGED <<persistent, files, stuck, index, bytes, found, tmp>> /\ persistent
        /\ op' = [op EXCEPT ![c] = o] /\ MC!Live(k)
    BY <1>1, <2>k DEF MC!Read, MC!world, MC!disk, MC!memory
  <2>3. o.at = "temp" /\ o.val = files[k].val /\ o.key = k /\ o.kind = op[c].kind
    BY <1>0, <2>k DEF CacheTypes, Operation
  <2>4. index[k] # None
    BY <2>2 DEF MC!Live
  <2>5. ~Recording(k)
    BY <2>1, OnlyHeadWorks DEF Recording, Working
  <2>6. index[k].size = ValueSize[files[k].val]
    BY <2>4, <2>5 DEF CountInv, SizesMatch
  <2> HIDE DEF o
  <2> QED
    BY <1>0, <2>1, <2>2, <2>3, <2>4, <2>6, AwaitCounts DEF IndexTypes
<1>2. CASE MC!BeginSet(c)
  <2> DEFINE o == [op[c] EXCEPT !.at = "sweep", !.time = clock]
  <2>1. /\ MC!Running /\ chain # <<>> /\ Head(chain) = c /\ op[c].at = "queued"
        /\ op[c].kind = "set"
        /\ UNCHANGED <<persistent, files, stuck, index, bytes, found, tmp>>
        /\ op' = [op EXCEPT ![c] = o]
    BY <1>2 DEF MC!BeginSet, MC!Turn, MC!world, MC!disk, MC!memory
  <2>2. o.at = "sweep" /\ o.kind = op[c].kind
    BY <1>0 DEF CacheTypes, Operation
  <2> HIDE DEF o
  <2> QED
    BY <1>0, <2>1, <2>2, AwaitCounts DEF IndexTypes, MemoryKnown
<1>7. CASE MC!Swept(c)
  <2>1. /\ MC!Running /\ chain # <<>> /\ Head(chain) = c /\ op[c].at = "sweep"
        /\ op[c].kind = "set"
        /\ UNCHANGED <<persistent, files, stuck, index, bytes, found, tmp>> /\ MC!Goto(c, "temp")
    BY <1>7, SweepIs DEF MC!Swept, MC!world, MC!disk, MC!memory
  <2>2. PICK o \in Operation : op' = [op EXCEPT ![c] = o] /\ o.at = "temp" /\ o.kind = op[c].kind
    <3>1. "temp" \in Ats
      BY DEF Ats
    <3> QED
      BY <1>0, <2>1, <3>1, GotoIs
  <2> QED
    BY <1>0, <2>1, <2>2, AwaitCounts DEF IndexTypes, MemoryKnown
<1>3. CASE MC!WriteTemp(c)
  <2>1. /\ MC!Running /\ chain # <<>> /\ Head(chain) = c /\ op[c].at = "temp"
        /\ UNCHANGED <<persistent, files, stuck, index, bytes, found>>
        /\ tmp' = tmp \cup {c} /\ MC!Goto(c, "rename")
    BY <1>3 DEF MC!WriteTemp, MC!Turn, MC!world, MC!memory
  <2>2. persistent
    BY <2>1 DEF CacheInv, WorkKnown, WorkOf, Working
  <2>3. PICK o \in Operation :
           /\ op' = [op EXCEPT ![c] = o] /\ o.at = "rename"
           /\ o.kind = op[c].kind /\ o.key = op[c].key /\ o.val = op[c].val
    <3>1. "rename" \in Ats
      BY DEF Ats
    <3> QED
      BY <1>0, <2>1, <3>1, GotoIs
  <2>4. op[c].kind = "get" =>
           index[o.key] # None /\ index[o.key].size = ValueSize[o.val]
    BY <2>1, <2>3 DEF CountInv, SizesMatch, Working
  <2> QED
    BY <1>0, <2>1, <2>2, <2>3, <2>4, AwaitCounts DEF IndexTypes
<1>4. CASE MC!WriteFails(c)
  <2>1. /\ MC!Running /\ chain # <<>> /\ Head(chain) = c /\ op[c].at \in {"temp", "rename"}
        /\ UNCHANGED <<persistent, files, stuck, bytes, found>>
        /\ tmp' \in {tmp \ {c}, tmp \cup {c}}
    BY <1>4 DEF MC!WriteFails, MC!Turn, MC!world
  <2>2. persistent
    BY <2>1 DEF CacheInv, WorkKnown, WorkOf, Working
  <2>3. op' = [op EXCEPT ![c] = MC!Idle]
    BY <1>4 DEF MC!WriteFails, MC!Return
  <2>4. op[c].key \in Keys /\ op[c] \in Operation
    BY <1>4, TurnIs DEF MC!WriteFails
  <2>5. CASE index' = index
    BY <1>0, <2>1, <2>2, <2>3, <2>5, AwaitCounts DEF IndexTypes
  <2>6. CASE op[c].kind = "get" /\ index' = [index EXCEPT ![op[c].key].used = op[c].time]
    <3>1. index[op[c].key] # None
      BY <2>1, <2>6 DEF CountInv, SizesMatch, Working
    <3>2. op[c].time \in Nat
      BY <2>4 DEF Operation
    <3>3. PICK k \in Keys, t \in Nat : k = op[c].key /\ t = op[c].time
      BY <2>4, <3>2
    <3>4. index' = [index EXCEPT ![k].used = t] /\ index[k] # None
      BY <2>6, <3>1, <3>3
    <3> QED
      BY <1>0, <2>1, <2>2, <2>3, <3>4, UseCounts DEF IndexTypes
  <2> QED
    BY <1>4, <2>5, <2>6 DEF MC!WriteFails
<1>5. CASE MC!SetReturns(c)
  <2>1. /\ MC!Running /\ chain # <<>> /\ Head(chain) = c /\ op[c].at = "evict" /\ ~MC!TooMany
        /\ UNCHANGED <<persistent, files, stuck, index, bytes, found, tmp>>
        /\ op' = [op EXCEPT ![c] = MC!Idle]
    BY <1>5 DEF MC!SetReturns, MC!Turn, MC!Return, MC!world, MC!disk, MC!memory
  <2> QED
    BY <1>0, <2>1, AwaitCounts DEF IndexTypes, MemoryKnown
<1>6. CASE MC!MemoryGet(c)
  <2>1. /\ MC!Running /\ chain # <<>> /\ Head(chain) = c /\ op[c].at = "queued"
        /\ op[c].key \in Keys
    BY <1>6, TurnIs DEF MC!MemoryGet
  <2>2. PICK k \in Keys : k = op[c].key
    BY <2>1
  <2>3. PICK t \in Nat : t = clock
    BY <1>0 DEF CacheTypes
  <2>4. /\ index' = [index EXCEPT ![k].used = t] /\ MC!Live(k)
        /\ UNCHANGED <<persistent, files, stuck, bytes, found, tmp>>
        /\ op' = [op EXCEPT ![c] = MC!Idle]
    BY <1>6, <2>2, <2>3 DEF MC!MemoryGet, MC!Return, MC!world, MC!disk
  <2>5. index[k] # None
    BY <2>4 DEF MC!Live
  <2> QED
    BY <1>0, <2>1, <2>4, <2>5, UseCounts DEF IndexTypes, MemoryKnown
<1> QED
  BY <1>1, <1>2, <1>3, <1>4, <1>5, <1>6, <1>7

LEMMA StartCounts ==
  ASSUME CacheInv, CountInv, NEW c \in Callers, MC!Start(c)
  PROVE  CountInv'
<1>1. /\ UNCHANGED <<persistent, files, tmp, stuck, index, bytes, found>> /\ op[c] = MC!Idle
      /\ \E kind \in {"get", "set", "delete"} : \E k, v : op' = [op EXCEPT ![c] = MC!Call(kind, k, v)]
  BY DEF MC!Start, MC!disk, MC!memory
<1>2. \A d \in Callers : op'[d] = op[d] \/ (~Working(d) /\ ~Working(d)')
  BY <1>1 DEF CacheInv, CacheTypes, MC!Call, MC!Idle, Working
<1>3. /\ \A k : Recording(k)' = Recording(k)
      /\ Evicting' = Evicting
      /\ Sizes0' = Sizes0
  BY <1>1, <1>2 DEF Recording, Evicting, Working, Sizes0, MC!SizeOf
<1>4. SizesMatch'
  <2>1. \A k \in Keys : index'[k] # None /\ ~Recording(k)' =>
            index'[k].size = ValueSize[files'[k].val]
    BY <1>1, <1>3 DEF CountInv, SizesMatch
  <2>2. ASSUME NEW d \in Callers, op'[d].kind = "get", Working(d)'
        PROVE  index'[op'[d].key] # None /\ index'[op'[d].key].size = ValueSize[op'[d].val]
    <3>1. op'[d] = op[d] /\ Working(d)
      BY <1>2, <2>2 DEF Working
    <3> QED
      BY <1>1, <2>2, <3>1 DEF CountInv, SizesMatch
  <2> QED
    BY <2>1, <2>2 DEF SizesMatch
<1> QED
  BY <1>1, <1>3, <1>4 DEF CountInv, IndexTypes, FilesCounted, FoundKnown, BytesCounted,
     LimitKept, MC!Running, MC!TooMany

LEMMA RestCounts ==
  ASSUME CountInv, MC!Tick \/ UNCHANGED MC!vars
  PROVE  CountInv'
<1>1. UNCHANGED <<persistent, files, tmp, stuck, index, bytes, op, found>>
  BY DEF MC!Tick, MC!vars, MC!world, MC!disk, MC!memory, MC!calling
<1>2. /\ \A k : Recording(k)' = Recording(k)
      /\ \A c : Working(c)' = Working(c)
      /\ Evicting' = Evicting
      /\ Sizes0' = Sizes0
  BY <1>1 DEF Recording, Evicting, Working, Sizes0, MC!SizeOf
<1>3. SizesMatch'
  BY <1>1, <1>2 DEF CountInv, SizesMatch
<1> QED
  BY <1>1, <1>2, <1>3 DEF CountInv, IndexTypes, FilesCounted, FoundKnown, BytesCounted,
     LimitKept, MC!Running, MC!TooMany

LEMMA CrashCounts ==
  ASSUME MC!NoneDistinct, MC!SizeAssumption, CacheInv, CountInv, MC!Crash
  PROVE  CountInv'
<1>1. /\ files' = (IF persistent THEN files ELSE [k \in Keys |-> None])
      /\ found' = {k \in Keys : files'[k] # None} \cup tmp
      /\ index' = [k \in Keys |-> None] /\ bytes' = 0
      /\ op' = [c \in Callers |-> MC!Idle]
      /\ UNCHANGED <<persistent, tmp, stuck>> /\ MC!Running
  BY DEF MC!Crash
<1>2. MC!Idle.at = "none"
  BY DEF MC!Idle
<1>3. IndexTypes /\ MemoryKnown
  BY DEF CountInv, CacheInv
<1>4. ~MC!Running'
  <2>1. found' \in SUBSET (Keys \cup Callers)
    BY <1>1, <1>3 DEF IndexTypes
  <2> QED
    BY <2>1 DEF MC!NoneDistinct, MC!Running
<1>5. \A k : ~Recording(k)'
  BY <1>1, <1>2 DEF Recording
<1>6. IndexTypes'
  BY <1>1, <1>3 DEF IndexTypes
<1>7. FilesCounted'
  <2> SUFFICES ASSUME NEW k \in Keys
               PROVE  files'[k] # None <=> k \in stuck \/ k \in found'
    BY <1>1, <1>4, <1>5 DEF FilesCounted
  <2>1. files'[k] # None => k \in found'
    BY <1>1
  <2>2. k \in found' => files'[k] # None
    BY <1>1, <1>3 DEF MC!SizeAssumption, IndexTypes
  <2>3. k \in stuck => files'[k] # None
    BY <1>1, <1>3 DEF CountInv, FilesCounted, IndexTypes
  <2> QED
    BY <2>1, <2>2, <2>3
<1>8. FoundKnown' /\ SizesMatch' /\ LimitKept'
  BY <1>1, <1>2, <1>4 DEF FoundKnown, SizesMatch, LimitKept, Working
<1>9. BytesCounted'
  <2>1. IsFiniteSet(Keys) /\ \A k \in Keys : Sizes0'[k] = 0
    BY <1>1 DEF MC!SizeAssumption, MC!IsFiniteSet, IsFiniteSet, Sizes0, MC!SizeOf
  <2>2. PICK f : f = Sizes0'
    OBVIOUS
  <2>3. SumFunctionOnSet(f, Keys) = 0
    BY <2>1, <2>2, SumOfZeros
  <2> QED
    BY <1>1, <2>2, <2>3 DEF BytesCounted
<1> QED
  BY <1>6, <1>7, <1>8, <1>9 DEF CountInv

(* A restart counts the files that it finds. *)
LEMMA FindingCounts ==
  ASSUME MC!NoneDistinct, MC!SizeAssumption, CacheInv, CountInv, ~MC!Running,
         \/ MC!Ready
         \/ \E c \in Callers : MC!FindTemp(c)
         \/ \E k \in Keys : MC!FindFile(k)
  PROVE  CountInv'
<1>0. CacheTypes /\ MemoryKnown /\ IndexTypes /\ BytesCounted /\ FilesCounted
  BY DEF CacheInv, CountInv
<1>1. UNCHANGED <<persistent, op>>
  BY DEF MC!Ready, MC!FindTemp, MC!FindFile, MC!calling
<1>2. \A c \in Callers : ~Working(c)
  BY DEF CacheInv, WorkKnown, WorkOf
<1>3. /\ \A k : ~Recording(k) /\ ~Recording(k)'
      /\ \A c \in Callers : ~Working(c)'
  BY <1>1, <1>2 DEF Recording, Working
<1>4. \A k \in Keys : index[k] # None => index[k].size = ValueSize[files[k].val]
  BY <1>3 DEF CountInv, SizesMatch
<1>5. CASE MC!Ready /\ MC!TooMany
  <2>1. PICK k \in Keys : MC!RemoveEntry(k)
    BY <1>5 DEF MC!Ready, MC!Oldest, MC!Indexed
  <2>2. found = {} /\ found' = found /\ tmp' = tmp
    BY <1>5 DEF MC!Ready
  <2>3. /\ IndexTypes' /\ BytesCounted'
        /\ \A j \in Keys : index'[j] # None => j # k /\ index'[j] = index[j] /\ files'[j] = files[j]
        /\ \A j \in Keys : files'[j] # None <=>
               \/ index'[j] # None \/ j \in stuck' \/ Recording(j)
               \/ (~MC!Running /\ j \in found)
    BY <1>1, <1>3, <2>1, <2>2, RemovedCounts
  <2>4. FilesCounted' /\ FoundKnown'
    BY <1>3, <2>2, <2>3 DEF FilesCounted, FoundKnown
  <2>5. SizesMatch'
    BY <1>3, <1>4, <2>3 DEF SizesMatch
  <2>6. ~MC!Running'
    BY <2>2 DEF MC!Running
  <2> QED
    BY <2>3, <2>4, <2>5, <2>6 DEF CountInv, LimitKept
<1>6. CASE MC!Ready /\ ~MC!TooMany
  <2>1. /\ found = {} /\ found' = None /\ UNCHANGED <<files, stuck, index, bytes, tmp>>
    BY <1>6 DEF MC!Ready, MC!memory
  <2>2. IndexTypes' /\ FilesCounted' /\ FoundKnown'
    BY <1>0, <1>1, <1>3, <2>1 DEF IndexTypes, FilesCounted, FoundKnown, MC!Running
  <2>3. Sizes0' = Sizes0
    BY <2>1 DEF Sizes0, MC!SizeOf
  <2>4. SizesMatch'
    BY <1>3, <1>4, <2>1 DEF SizesMatch
  <2>5. ~MC!TooMany'
    BY <1>6, <2>1 DEF MC!TooMany
  <2> QED
    BY <1>0, <2>1, <2>2, <2>3, <2>4, <2>5 DEF CountInv, LimitKept, BytesCounted
<1>7. CASE \E c \in Callers : MC!FindTemp(c)
  <2>1. PICK c \in Callers : MC!FindTemp(c)
    BY <1>7
  <2>2. /\ found' = found \ {c} /\ tmp' \subseteq tmp
        /\ UNCHANGED <<files, stuck, index, bytes>>
    BY <2>1 DEF MC!FindTemp, MC!memory
  <2>3. found' \in SUBSET (Keys \cup Callers) /\ \A k \in Keys : k \in found' <=> k \in found
    BY <1>0, <2>2 DEF IndexTypes, MC!SizeAssumption
  <2>4. ~MC!Running'
    BY <2>3 DEF MC!NoneDistinct, MC!Running
  <2>5. IndexTypes' /\ FilesCounted' /\ FoundKnown'
    BY <1>0, <1>1, <1>3, <2>2, <2>3, <2>4 DEF CountInv, IndexTypes, FilesCounted, FoundKnown
  <2>6. Sizes0' = Sizes0
    BY <2>2 DEF Sizes0, MC!SizeOf
  <2>7. SizesMatch'
    BY <1>3, <1>4, <2>2 DEF SizesMatch
  <2> QED
    BY <1>0, <2>2, <2>4, <2>5, <2>6, <2>7 DEF CountInv, LimitKept, BytesCounted
<1>8. CASE \E k \in Keys : MC!FindFile(k)
  <2>1. PICK k \in Keys : MC!FindFile(k)
    BY <1>8
  <2>2. k \in found /\ found' = found \ {k} /\ tmp' = tmp /\ index[k] = None /\ persistent
    BY <1>0, <2>1 DEF MC!FindFile, CountInv, FoundKnown, MemoryKnown
  <2>3. found' \in SUBSET (Keys \cup Callers)
    BY <1>0, <2>2 DEF IndexTypes
  <2>4. ~MC!Running'
    BY <2>3 DEF MC!NoneDistinct, MC!Running
  <2>5. CASE UNCHANGED MC!memory
    <3>1. /\ UNCHANGED <<index, bytes>>
          /\ \/ files' = [files EXCEPT ![k] = None] /\ stuck' = stuck \ {k}
             \/ files' = files /\ stuck' = stuck \cup {k}
      <4>1. UNCHANGED <<index, bytes>>
        BY <2>5 DEF MC!memory
      <4>2. CASE index' = [index EXCEPT ![k] = [size |-> ValueSize[files[k].val], used |-> files[k].used]]
        <5>1. index'[k] # None
          <6>1. files[k] \in File
            BY <1>0, <2>2 DEF FilesCounted, CacheTypes
          <6>2. [size |-> ValueSize[files[k].val], used |-> files[k].used] \in IndexEntry
            BY <6>1 DEF File, IndexEntry, MC!SizeAssumption
          <6> QED
            BY <1>0, <4>2, <6>2 DEF MC!NoneDistinct, IndexEntry, IndexTypes
        <5> QED
          BY <2>2, <4>1, <5>1
      <4> QED
        BY <2>1, <4>1, <4>2 DEF MC!FindFile
    <3>2. files[k] # None
      BY <1>0, <2>2 DEF FilesCounted
    <3>3. \A j \in Keys : j # k => files'[j] = files[j]
      BY <1>0, <3>1 DEF CacheTypes
    <3>4. files'[k] # None <=> k \in stuck'
      BY <1>0, <3>1, <3>2 DEF CacheTypes
    <3>5. FilesCounted'
      <4>1. ASSUME NEW j \in Keys
            PROVE  files'[j] # None <=> index'[j] # None \/ j \in stuck' \/ j \in found'
        BY <1>0, <1>3, <2>2, <3>1, <3>3, <3>4 DEF FilesCounted
      <4> QED
        BY <1>3, <2>4, <4>1 DEF FilesCounted
    <3>6. IndexTypes' /\ FoundKnown'
      BY <1>0, <1>1, <2>2, <2>3, <3>1 DEF CountInv, IndexTypes, FoundKnown
    <3>7. Sizes0' = Sizes0
      BY <3>1 DEF Sizes0, MC!SizeOf
    <3>8. SizesMatch'
      BY <1>3, <1>4, <2>2, <3>1, <3>3 DEF SizesMatch
    <3> QED
      BY <1>0, <2>4, <3>1, <3>5, <3>6, <3>7, <3>8 DEF CountInv, LimitKept, BytesCounted
  <2>6. CASE /\ index' = [index EXCEPT ![k] = [size |-> ValueSize[files[k].val], used |-> files[k].used]]
             /\ bytes' = bytes + ValueSize[files[k].val]
             /\ stuck' = stuck \ {k} /\ files' = files
    <3> DEFINE e == [size |-> ValueSize[files[k].val], used |-> files[k].used]
    <3>1. files[k] # None /\ files[k] \in File
      BY <1>0, <2>2 DEF FilesCounted, CacheTypes
    <3>2. e \in IndexEntry /\ e # None /\ e.size = ValueSize[files[k].val]
      BY <3>1 DEF File, IndexEntry, MC!SizeAssumption, MC!NoneDistinct
    <3>3. index' = [index EXCEPT ![k] = e]
      BY <2>6
    <3> HIDE DEF e
    <3>4. \A j \in Keys : index'[j] = IF j = k THEN e ELSE index[j]
      BY <1>0, <3>3 DEF IndexTypes
    <3>5. IndexTypes'
      <4>1. index' \in [Keys -> IndexEntry \cup {None}]
        BY <1>0, <3>2, <3>3 DEF IndexTypes
      <4> QED
        BY <1>0, <1>1, <2>2, <2>3, <4>1 DEF IndexTypes
    <3>6. BytesCounted'
      <4>1. /\ bytes \in Nat
            /\ BytesCounted' <=> bytes' = bytes - MC!SizeOf(k) + MC!SizeOf(k)'
        BY <1>0, <3>4, <3>5, BytesAfter
      <4>2. MC!SizeOf(k) = 0 /\ MC!SizeOf(k)' = ValueSize[files[k].val]
        BY <2>2, <3>2, <3>4 DEF MC!SizeOf
      <4> QED
        BY <2>6, <4>1, <4>2
    <3>7. FilesCounted'
      <4>1. ASSUME NEW j \in Keys
            PROVE  files'[j] # None <=> index'[j] # None \/ j \in stuck' \/ j \in found'
        BY <1>0, <1>3, <2>2, <2>6, <3>1, <3>2, <3>4 DEF FilesCounted
      <4> QED
        BY <1>3, <2>4, <4>1 DEF FilesCounted
    <3>8. FoundKnown'
      BY <2>2, <3>4 DEF CountInv, FoundKnown
    <3>9. SizesMatch'
      BY <1>3, <1>4, <2>6, <3>2, <3>4 DEF SizesMatch
    <3> QED
      BY <2>4, <3>5, <3>6, <3>7, <3>8, <3>9 DEF CountInv, LimitKept
  <2> QED
    BY <2>1, <2>5, <2>6 DEF MC!FindFile
<1> QED
  BY <1>5, <1>6, <1>7, <1>8

LEMMA CountStep ==
  ASSUME MC!NoneDistinct, MC!SizeAssumption, CacheInv, CountInv, [MC!Next]_(MC!vars)
  PROVE  CountInv'
<1>1. CASE MC!Tick \/ UNCHANGED MC!vars
  BY <1>1, RestCounts
<1>2. CASE MC!Crash
  BY <1>2, CrashCounts
<1>3. CASE MC!Ready \/ (\E c \in Callers : MC!FindTemp(c)) \/ (\E k \in Keys : MC!FindFile(k))
  <2>1. ~MC!Running
    <3>1. {} \in SUBSET (Keys \cup Callers)
      OBVIOUS
    <3> QED
      BY <1>3, <3>1 DEF MC!Ready, MC!FindTemp, MC!FindFile, MC!Running, MC!NoneDistinct
  <2> QED
    BY <1>3, <2>1, FindingCounts
<1>4. ASSUME NEW c \in Callers,
             \/ MC!Start(c) \/ MC!Missing(c) \/ MC!Read(c) \/ MC!Sweep(c) \/ MC!BeginSet(c)
             \/ MC!Swept(c) \/ MC!WriteTemp(c) \/ MC!Rename(c) \/ MC!WriteFails(c) \/ MC!Record(c) \/ MC!Evict(c)
             \/ MC!SetReturns(c) \/ MC!Delete(c) \/ MC!MemoryGet(c) \/ MC!MemorySet(c)
      PROVE  CountInv'
  BY <1>4, StartCounts, RemovalsCount, AwaitsCount, RenameCounts, RecordCounts, MemorySetCounts
<1> QED
  BY <1>1, <1>2, <1>3, <1>4 DEF MC!Next

LEMMA CountsTell == ASSUME CacheInv, CountInv PROVE MC!NothingUncounted
<1> SUFFICES ASSUME MC!Running, chain = <<>> PROVE MC!NothingUncounted
  BY DEF MC!NothingUncounted
<1>1. \A c \in Callers : ~Working(c)
  BY DEF CacheInv, WorkKnown, WorkOf
<1>2. (\A k : ~Recording(k)) /\ ~Evicting
  BY <1>1 DEF Recording, Evicting, Working
<1>3. \A k \in Keys : files[k] # None <=> (k \in MC!Indexed \/ k \in stuck)
  BY <1>2 DEF CountInv, FilesCounted, MC!Indexed
<1>4. \A k \in MC!Indexed : index[k].size = ValueSize[files[k].val]
  BY <1>2 DEF CountInv, SizesMatch, MC!Indexed
<1>5. bytes = MC!SumFunction([k \in Keys |-> MC!SizeOf(k)])
  <2>1. DOMAIN Sizes0 = Keys /\ Sizes0 = [k \in Keys |-> MC!SizeOf(k)]
    BY DEF Sizes0
  <2>2. MC!SumFunction(Sizes0) = SumFunctionOnSet(Sizes0, Keys)
    BY <2>1, SumOfInstance
  <2> QED
    BY <2>1, <2>2 DEF CountInv, BytesCounted
<1>6. ~MC!TooMany
  BY <1>2 DEF CountInv, LimitKept
<1> QED
  BY <1>3, <1>4, <1>5, <1>6 DEF MC!NothingUncounted

-----------------------------------------------------------------------------
(* Induction over the rounds of a loop.                                    *)
LEMMA CountUp ==
  ASSUME NEW n \in Nat, NEW T, 0 \in T, \A i \in 1..n : i - 1 \in T => i \in T
  PROVE  \A i \in 0..n : i \in T
<1> SUFFICES ASSUME NEW j \in 0..n, j \notin T PROVE FALSE
  OBVIOUS
<1> DEFINE Bad == {i \in 0..n : i \notin T}
<1>1. Bad \subseteq Nat /\ Bad # {} /\ j \in Bad
  OBVIOUS
<1>2. PICK m \in Bad : \A i \in Bad : m <= i
  <2> HIDE DEF Bad
  <2> QED
    BY <1>1, LeastNumber
<1>3. m \in 1..n /\ m - 1 \in 0..n /\ m - 1 \notin Bad
  BY <1>2
<1> QED
  BY <1>2, <1>3

(* A loop whose rounds keep a set of states runs, within that set.         *)
IsRun(g, x, body, n) == g = [i \in 0..n |-> IF i = 0 THEN x ELSE body[i][g[i - 1]]]

LEMMA RunExists ==
  ASSUME NEW D, NEW x \in D, NEW n \in Nat, NEW body \in [1..n -> [D -> D]]
  PROVE  \E g \in [0..n -> D] : IsRun(g, x, body, n)
<1> DEFINE Done == {m \in 0..n : \E g \in [0..m -> D] : IsRun(g, x, body, m)}
<1>1. 0 \in Done
  <2> DEFINE g == [i \in 0..0 |-> x]
  <2>1. g \in [0..0 -> D] /\ \A i \in 0..0 : i = 0
    OBVIOUS
  <2>2. \A i \in 0..0 : g[i] = IF i = 0 THEN x ELSE body[i][g[i - 1]]
    BY <2>1
  <2>3. IsRun(g, x, body, 0)
    BY <2>2 DEF IsRun
  <2> HIDE DEF g
  <2>4. \E f \in [0..0 -> D] : IsRun(f, x, body, 0)
    BY <2>1, <2>3
  <2> QED
    BY <2>4
<1>2. ASSUME NEW m \in 1..n, m - 1 \in Done PROVE m \in Done
  <2>1. PICK g \in [0..(m - 1) -> D] : IsRun(g, x, body, m - 1)
    BY <1>2
  <2> DEFINE h == [i \in 0..m |-> IF i < m THEN g[i] ELSE body[m][g[m - 1]]]
  <2>2. body[m] \in [D -> D] /\ g[m - 1] \in D /\ m - 1 \in 0..(m - 1)
    OBVIOUS
  <2>3. h \in [0..m -> D]
    <3> SUFFICES ASSUME NEW i \in 0..m PROVE h[i] \in D
      OBVIOUS
    <3>1. CASE i < m
      BY <3>1
    <3>2. CASE i = m
      BY <2>2, <3>2
    <3> QED
      BY <3>1, <3>2
  <2>4. \A i \in 0..m : h[i] = IF i = 0 THEN x ELSE body[i][h[i - 1]]
    <3> TAKE i \in 0..m
    <3>1. CASE i < m
      <4>1. i \in 0..(m - 1) /\ h[i] = g[i] /\ (i # 0 => h[i - 1] = g[i - 1])
        BY <3>1
      <4> QED
        BY <2>1, <4>1 DEF IsRun
    <3>2. CASE i = m
      <4>1. h[m] = body[m][g[m - 1]] /\ h[m - 1] = g[m - 1] /\ m # 0
        OBVIOUS
      <4> QED
        BY <3>2, <4>1
    <3> QED
      BY <3>1, <3>2
  <2>5. IsRun(h, x, body, m)
    BY <2>4 DEF IsRun
  <2> QED
    BY <2>3, <2>5
<1>3. \A i \in 0..n : i \in Done
  <2> HIDE DEF Done
  <2> QED
    BY <1>1, <1>2, CountUp
<1> QED
  BY <1>3

(* The rounds of the three loops of the continuation cache.                *)
LEMMA PruneRuns ==
  ASSUME NEW D, NEW c \in D, NEW n \in Nat, n = Len(c.order),
         \A d \in D : \A i \in 1..n : CC!PruneRound(d, c.order[i]) \in D
  PROVE  \E g \in [0..n -> D] :
           g[0] = c /\ (\A i \in 1..n : g[i] = CC!PruneRound(g[i - 1], c.order[i])) /\ CC!PruneExpired(c) = g[n]
<1> DEFINE body == [i \in 1..n |-> [d \in D |-> CC!PruneRound(d, c.order[i])]]
<1>1. body \in [1..n -> [D -> D]]
  OBVIOUS
<1>2. PICK g \in [0..n -> D] : IsRun(g, c, body, n)
  BY <1>1, RunExists
<1>3. g = [i \in 0..n |-> IF i = 0 THEN c ELSE CC!PruneRound(g[i - 1], c.order[i])]
  <2>1. \A i \in 1..n : g[i - 1] \in D
    OBVIOUS
  <2>2. \A i \in 1..n : body[i][g[i - 1]] = CC!PruneRound(g[i - 1], c.order[i])
    BY <2>1
  <2>3. g = [i \in 0..n |-> IF i = 0 THEN c ELSE body[i][g[i - 1]]]
    BY <1>2 DEF IsRun
  <2> HIDE DEF body
  <2>4. \A i \in 0..n : i # 0 => i \in 1..n
    OBVIOUS
  <2> QED
    BY <2>2, <2>3, <2>4
<1> DEFINE after == CHOOSE f : f = [i \in 0..n |-> IF i = 0 THEN c
                                    ELSE CC!PruneRound(f[i - 1], c.order[i])]
<1>4. after = [i \in 0..n |-> IF i = 0 THEN c ELSE CC!PruneRound(after[i - 1], c.order[i])]
  <2> HIDE DEF body
  <2> QED
    BY <1>3
<1>5. CC!PruneExpired(c) = after[n]
  BY DEF CC!PruneExpired, CC!Rounds
<1> HIDE DEF after, body
<1>6. after[0] = c /\ \A i \in 1..n : after[i] = CC!PruneRound(after[i - 1], c.order[i])
  <2>1. 0 \in 0..n /\ \A i \in 1..n : i \in 0..n /\ i # 0
    OBVIOUS
  <2> QED
    BY ONLY <1>4, <2>1
<1>7. after \in [0..n -> D]
  <2> DEFINE T == {i \in 0..n : after[i] \in D}
  <2>1. 0 \in T
    BY <1>6
  <2>2. \A i \in 1..n : i - 1 \in T => i \in T
    BY <1>6
  <2>3. \A i \in 0..n : i \in T
    <3> HIDE DEF T
    <3> QED
      BY <2>1, <2>2, CountUp
  <2> QED
    BY <1>4, <2>3
<1> QED
  BY <1>5, <1>6, <1>7

LEMMA EntryRuns ==
  ASSUME NEW D, NEW c \in D, NEW s, NEW n \in Nat, n = Len(c.entries[s]),
         \A d \in D : \A i \in 1..n : CC!EntryRound(d, s) \in D
  PROVE  \E g \in [0..n -> D] :
           g[0] = c /\ (\A i \in 1..n : g[i] = CC!EntryRound(g[i - 1], s)) /\ CC!EvictSessionEntries(c, s) = g[n]
<1> DEFINE body == [i \in 1..n |-> [d \in D |-> CC!EntryRound(d, s)]]
<1>1. body \in [1..n -> [D -> D]]
  OBVIOUS
<1>2. PICK g \in [0..n -> D] : IsRun(g, c, body, n)
  BY <1>1, RunExists
<1>3. g = [i \in 0..n |-> IF i = 0 THEN c ELSE CC!EntryRound(g[i - 1], s)]
  <2>1. \A i \in 1..n : g[i - 1] \in D
    OBVIOUS
  <2>2. \A i \in 1..n : body[i][g[i - 1]] = CC!EntryRound(g[i - 1], s)
    BY <2>1
  <2>3. g = [i \in 0..n |-> IF i = 0 THEN c ELSE body[i][g[i - 1]]]
    BY <1>2 DEF IsRun
  <2> HIDE DEF body
  <2>4. \A i \in 0..n : i # 0 => i \in 1..n
    OBVIOUS
  <2> QED
    BY <2>2, <2>3, <2>4
<1> DEFINE after == CHOOSE f : f = [i \in 0..n |-> IF i = 0 THEN c
                                    ELSE CC!EntryRound(f[i - 1], s)]
<1>4. after = [i \in 0..n |-> IF i = 0 THEN c ELSE CC!EntryRound(after[i - 1], s)]
  <2> HIDE DEF body
  <2> QED
    BY <1>3
<1>5. CC!EvictSessionEntries(c, s) = after[n]
  BY DEF CC!EvictSessionEntries, CC!Rounds
<1> HIDE DEF after, body
<1>6. after[0] = c /\ \A i \in 1..n : after[i] = CC!EntryRound(after[i - 1], s)
  <2>1. 0 \in 0..n /\ \A i \in 1..n : i \in 0..n /\ i # 0
    OBVIOUS
  <2> QED
    BY ONLY <1>4, <2>1
<1>7. after \in [0..n -> D]
  <2> DEFINE T == {i \in 0..n : after[i] \in D}
  <2>1. 0 \in T
    BY <1>6
  <2>2. \A i \in 1..n : i - 1 \in T => i \in T
    BY <1>6
  <2>3. \A i \in 0..n : i \in T
    <3> HIDE DEF T
    <3> QED
      BY <2>1, <2>2, CountUp
  <2> QED
    BY <1>4, <2>3
<1> QED
  BY <1>5, <1>6, <1>7

LEMMA GlobalRuns ==
  ASSUME NEW D, NEW c \in D, NEW n \in Nat, n = Len(c.order),
         \A d \in D : \A i \in 1..n : CC!GlobalRound(d) \in D
  PROVE  \E g \in [0..n -> D] :
           g[0] = c /\ (\A i \in 1..n : g[i] = CC!GlobalRound(g[i - 1])) /\ CC!EvictGlobal(c) = g[n]
<1> DEFINE body == [i \in 1..n |-> [d \in D |-> CC!GlobalRound(d)]]
<1>1. body \in [1..n -> [D -> D]]
  OBVIOUS
<1>2. PICK g \in [0..n -> D] : IsRun(g, c, body, n)
  BY <1>1, RunExists
<1>3. g = [i \in 0..n |-> IF i = 0 THEN c ELSE CC!GlobalRound(g[i - 1])]
  <2>1. \A i \in 1..n : g[i - 1] \in D
    OBVIOUS
  <2>2. \A i \in 1..n : body[i][g[i - 1]] = CC!GlobalRound(g[i - 1])
    BY <2>1
  <2>3. g = [i \in 0..n |-> IF i = 0 THEN c ELSE body[i][g[i - 1]]]
    BY <1>2 DEF IsRun
  <2> HIDE DEF body
  <2>4. \A i \in 0..n : i # 0 => i \in 1..n
    OBVIOUS
  <2> QED
    BY <2>2, <2>3, <2>4
<1> DEFINE after == CHOOSE f : f = [i \in 0..n |-> IF i = 0 THEN c
                                    ELSE CC!GlobalRound(f[i - 1])]
<1>4. after = [i \in 0..n |-> IF i = 0 THEN c ELSE CC!GlobalRound(after[i - 1])]
  <2> HIDE DEF body
  <2> QED
    BY <1>3
<1>5. CC!EvictGlobal(c) = after[n]
  BY DEF CC!EvictGlobal, CC!Rounds
<1> HIDE DEF after, body
<1>6. after[0] = c /\ \A i \in 1..n : after[i] = CC!GlobalRound(after[i - 1])
  <2>1. 0 \in 0..n /\ \A i \in 1..n : i \in 0..n /\ i # 0
    OBVIOUS
  <2> QED
    BY ONLY <1>4, <2>1
<1>7. after \in [0..n -> D]
  <2> DEFINE T == {i \in 0..n : after[i] \in D}
  <2>1. 0 \in T
    BY <1>6
  <2>2. \A i \in 1..n : i - 1 \in T => i \in T
    BY <1>6
  <2>3. \A i \in 0..n : i \in T
    <3> HIDE DEF T
    <3> QED
      BY <2>1, <2>2, CountUp
  <2> QED
    BY <1>4, <2>3
<1> QED
  BY <1>5, <1>6, <1>7

(* Maps keep the order of insertion: keys are taken out and put at the end. *)
Ascending(q, u, X) ==
    \A i, j \in DOMAIN q : i < j /\ q[i] \notin X /\ q[j] \notin X => u[q[i]] <= u[q[j]]

LEMMA PlacesOf ==
  ASSUME NEW S, NEW q \in Seq(S)
  PROVE  /\ Len(q) \in Nat /\ DOMAIN q = 1..Len(q) /\ \A i \in 1..Len(q) : q[i] \in S
         /\ CC!ToSet(q) = {q[i] : i \in 1..Len(q)}
         /\ CC!ToSet(q) \subseteq S
         /\ \A x : CC!Contains(q, x) <=> x \in CC!ToSet(q)
         /\ CC!IsInjective(q) <=> \A i, j \in 1..Len(q) : q[i] = q[j] => i = j
<1>1. Len(q) \in Nat /\ DOMAIN q = 1..Len(q) /\ \A i \in 1..Len(q) : q[i] \in S
  BY LenProperties, ElementOfSeq
<1> QED
  BY <1>1 DEF CC!ToSet, CC!Contains, CC!IsInjective

LEMMA SetOfSequence ==
  ASSUME NEW S, NEW q \in Seq(S)
  PROVE  IsFiniteSet(CC!ToSet(q))
<1>1. /\ CC!ToSet(q) = {q[i] : i \in 1..Len(q)} /\ Len(q) \in Nat
  BY PlacesOf
<1>2. IsFiniteSet(1..Len(q))
  BY <1>1, FS_Interval
<1> DEFINE T == CC!ToSet(q)
           f == [i \in 1..Len(q) |-> q[i]]
<1>3. f \in [1..Len(q) -> T] /\ \A x \in T : \E i \in 1..Len(q) : f[i] = x
  BY <1>1
<1>4. f \in Surjection(1..Len(q), T)
  <2> HIDE DEF f, T
  <2> QED
    BY <1>3 DEF Surjection
<1> QED
  <2> HIDE DEF f
  <2> QED
    BY <1>2, <1>4, FS_Surjection

LEMMA KeyRemoved ==
  ASSUME NEW S, NEW q \in Seq(S), CC!IsInjective(q), NEW x \in CC!ToSet(q)
  PROVE  LET r == CC!RemoveFirst(q, x)
         IN  /\ r \in Seq(S) /\ CC!IsInjective(r)
             /\ CC!ToSet(r) = CC!ToSet(q) \ {x}
             /\ Len(r) = Len(q) - 1
             /\ \A u, X : Ascending(q, u, X) => Ascending(r, u, X)
<1> DEFINE places == {i \in 1..Len(q) : q[i] = x}
           r == CC!RemoveFirst(q, x)
<1>1. /\ Len(q) \in Nat /\ DOMAIN q = 1..Len(q) /\ \A i \in 1..Len(q) : q[i] \in S
      /\ CC!ToSet(q) = {q[i] : i \in 1..Len(q)}
      /\ \A i, j \in 1..Len(q) : q[i] = q[j] => i = j
      /\ CC!Contains(q, x)
  BY PlacesOf
<1>2. PICK i \in 1..Len(q) : places = {i}
  BY <1>1
<1>3. CC!Min(places) = i
  <2>1. CC!Min(places) = CHOOSE y \in places : \A z \in places : y <= z
    BY DEF CC!Min
  <2>2. \A z \in places : i <= z
    BY <1>2
  <2> QED
    BY <1>2, <2>1, <2>2
<1>4. r = Without(q, i)
  <2>1. CC!SelectInSeq(q, LAMBDA v : v = x) = i
    BY <1>2, <1>3 DEF CC!SelectInSeq
  <2> QED
    BY <1>1, <2>1 DEF CC!RemoveFirst, CC!RemoveAt, CC!Contains, Without
<1>5. /\ r \in Seq(S) /\ Len(r) = Len(q) - 1
      /\ \A j \in 1..(Len(q) - 1) : r[j] = IF j < i THEN q[j] ELSE q[j + 1]
  BY <1>4, CutOut
<1> HIDE DEF r, places
<1>6. /\ DOMAIN r = 1..Len(r) /\ CC!ToSet(r) = {r[j] : j \in 1..Len(r)}
      /\ CC!IsInjective(r) <=> \A j, k \in 1..Len(r) : r[j] = r[k] => j = k
  BY <1>5, PlacesOf
<1>7. CC!IsInjective(r)
  BY <1>1, <1>5, <1>6
<1>8. CC!ToSet(r) = CC!ToSet(q) \ {x}
  <2>0. q[i] = x
    BY <1>2 DEF places
  <2>1. CC!ToSet(r) \subseteq CC!ToSet(q) \ {x}
    BY <1>1, <1>5, <1>6, <2>0
  <2>2. ASSUME NEW y \in CC!ToSet(q) \ {x} PROVE y \in CC!ToSet(r)
    <3>1. PICK k \in 1..Len(q) : q[k] = y /\ k # i
      BY <1>1, <2>0
    <3>2. CASE k < i
      BY <1>1, <1>5, <1>6, <3>1, <3>2
    <3>3. CASE k > i
      <4>1. k - 1 \in 1..Len(r) /\ r[k - 1] = y
        BY <1>1, <1>5, <3>1, <3>3
      <4> QED
        BY <1>6, <4>1
    <3> QED
      BY <3>1, <3>2, <3>3
  <2> QED
    BY <2>1, <2>2
<1>9. ASSUME NEW u, NEW X, Ascending(q, u, X) PROVE Ascending(r, u, X)
  <2>1. \A j \in 1..Len(r) : \E k \in 1..Len(q) : r[j] = q[k] /\ k = IF j < i THEN j ELSE j + 1
    BY <1>1, <1>5
  <2>2. SUFFICES ASSUME NEW j \in 1..Len(r), NEW k \in 1..Len(r), j < k,
                        r[j] \notin X, r[k] \notin X
                 PROVE  u[r[j]] <= u[r[k]]
    BY <1>6 DEF Ascending
  <2>3. PICK m \in 1..Len(q) : r[j] = q[m] /\ m = IF j < i THEN j ELSE j + 1
    BY <2>1
  <2>4. PICK n \in 1..Len(q) : r[k] = q[n] /\ n = IF k < i THEN k ELSE k + 1
    BY <2>1
  <2>5. m < n
    BY <1>1, <1>5, <2>2, <2>3, <2>4
  <2> QED
    BY <1>1, <1>9, <2>2, <2>3, <2>4, <2>5 DEF Ascending
<1> QED
  BY <1>5, <1>7, <1>8, <1>9 DEF r

LEMMA KeyAbsent ==
  ASSUME NEW S, NEW q \in Seq(S), NEW x, x \notin CC!ToSet(q)
  PROVE  CC!RemoveFirst(q, x) = q
<1>1. ~CC!Contains(q, x)
  BY PlacesOf
<1> QED
  BY <1>1 DEF CC!RemoveFirst, CC!Contains

LEMMA KeyAppended ==
  ASSUME NEW S, NEW q \in Seq(S), CC!IsInjective(q), NEW x \in S, x \notin CC!ToSet(q)
  PROVE  LET r == Append(q, x)
         IN  /\ r \in Seq(S) /\ CC!IsInjective(r)
             /\ CC!ToSet(r) = CC!ToSet(q) \cup {x}
             /\ Len(r) = Len(q) + 1
             /\ \A u, X : Ascending(q, u, X)
                           /\ (x \in X \/ (\A y \in CC!ToSet(q) \ X : u[y] <= u[x]))
                           => Ascending(r, u, X)
<1> DEFINE r == Append(q, x)
<1>1. /\ Len(q) \in Nat /\ DOMAIN q = 1..Len(q) /\ \A i \in 1..Len(q) : q[i] \in S
      /\ CC!ToSet(q) = {q[i] : i \in 1..Len(q)}
      /\ \A i, j \in 1..Len(q) : q[i] = q[j] => i = j
  BY PlacesOf
<1>2. /\ r \in Seq(S) /\ Len(r) = Len(q) + 1 /\ r[Len(r)] = x
      /\ \A i \in 1..Len(q) : r[i] = q[i]
  BY AppendProperties
<1> HIDE DEF r
<1>3. /\ DOMAIN r = 1..Len(r) /\ CC!ToSet(r) = {r[j] : j \in 1..Len(r)}
      /\ CC!IsInjective(r) <=> \A j, k \in 1..Len(r) : r[j] = r[k] => j = k
  BY <1>2, PlacesOf
<1>4. \A j \in 1..Len(r) : j \in 1..Len(q) \/ j = Len(r)
  BY <1>1, <1>2
<1>5. CC!IsInjective(r)
  BY <1>1, <1>2, <1>3, <1>4
<1>6. CC!ToSet(r) = CC!ToSet(q) \cup {x}
  BY <1>1, <1>2, <1>3, <1>4
<1>7. ASSUME NEW u, NEW X, Ascending(q, u, X),
             x \in X \/ (\A y \in CC!ToSet(q) \ X : u[y] <= u[x])
      PROVE  Ascending(r, u, X)
  BY <1>1, <1>2, <1>3, <1>4, <1>7 DEF Ascending
<1> QED
  BY <1>2, <1>5, <1>6, <1>7 DEF r

-----------------------------------------------------------------------------
(* The continuation cache.                                                 *)
Caches == [order : Seq(Clients), entries : [Clients -> Seq(Keys)],
           size : [Clients -> [Keys -> Nat]], own : [Clients -> Nat],
           touched : [Clients -> Nat], bytes : Nat]

(* The counts are those of what is kept.                                   *)
Counted(c) ==
    /\ c \in Caches
    /\ CC!IsInjective(c.order)
    /\ \A s \in Clients :
          /\ CC!IsInjective(c.entries[s])
          /\ c.own[s] = SumFunctionOnSet(c.size[s], CC!ToSet(c.entries[s]))
          /\ c.entries[s] # <<>> => s \in CC!ToSet(c.order)
    /\ c.bytes = SumFunctionOnSet(c.own, CC!ToSet(c.order))

LEMMA NothingKept ==
  /\ CC!ToSet(<<>>) = {} /\ CC!IsInjective(<<>>)
  /\ \A f : SumFunctionOnSet(f, CC!ToSet(<<>>)) = 0
  /\ CC!NoSizes \in [Keys -> Nat]
<1>1. CC!ToSet(<<>>) = {} /\ CC!IsInjective(<<>>)
  BY EmptySeq DEF CC!ToSet, CC!IsInjective
<1> QED
  BY <1>1, SumEmpty DEF CC!NoSizes

LosesSession(c, d, s) ==
    /\ Counted(d)
    /\ CC!ToSet(d.order) = CC!ToSet(c.order) \ {s}
    /\ \A u, X : Ascending(c.order, u, X) => Ascending(d.order, u, X)
    /\ \A r \in Clients : r # s => d.entries[r] = c.entries[r] /\ d.own[r] = c.own[r]
    /\ d.entries[s] = <<>> /\ d.own[s] = 0
    /\ d.bytes <= c.bytes /\ Len(d.order) <= Len(c.order)
    /\ s \in CC!ToSet(c.order) => Len(d.order) = Len(c.order) - 1

LEMMA SessionGone ==
  ASSUME NEW c, Counted(c), NEW s \in Clients, NEW d, d = CC!RemoveSession(c, s)
  PROVE  LosesSession(c, d, s)
<1>1. /\ c \in Caches /\ c.order \in Seq(Clients) /\ CC!IsInjective(c.order)
      /\ CC!Known(c, s) <=> s \in CC!ToSet(c.order)
      /\ CC!ToSet(c.order) \subseteq Clients /\ IsFiniteSet(CC!ToSet(c.order))
  BY PlacesOf, SetOfSequence DEF Counted, Caches, CC!Known
<1>2. CASE s \notin CC!ToSet(c.order)
  <2>1. d = c
    BY <1>1, <1>2 DEF CC!RemoveSession
  <2>2. c.entries[s] = <<>>
    BY <1>2 DEF Counted
  <2>3. c.own[s] = 0
    BY <2>2, NothingKept DEF Counted
  <2>4. d.bytes <= c.bytes /\ Len(d.order) <= Len(c.order)
    BY <1>1, <2>1, LenProperties DEF Caches
  <2> QED
    BY <1>2, <2>1, <2>2, <2>3, <2>4 DEF LosesSession
<1>3. CASE s \in CC!ToSet(c.order)
  <2>1. /\ d = [c EXCEPT !.bytes = CC!Less(@, c.own[s]), !.order = CC!RemoveFirst(@, s),
                         !.entries[s] = <<>>, !.size[s] = CC!NoSizes, !.own[s] = 0]
    BY <1>1, <1>3 DEF CC!RemoveSession
  <2>2. /\ d.order = CC!RemoveFirst(c.order, s) /\ d.touched = c.touched
        /\ d.entries = [c.entries EXCEPT ![s] = <<>>]
        /\ d.size = [c.size EXCEPT ![s] = CC!NoSizes]
        /\ d.own = [c.own EXCEPT ![s] = 0]
        /\ d.bytes = CC!Less(c.bytes, c.own[s])
        /\ d = [order |-> d.order, entries |-> d.entries, size |-> d.size, own |-> d.own,
                touched |-> d.touched, bytes |-> d.bytes]
    BY <1>1, <2>1 DEF Caches
  <2>3. /\ d.order \in Seq(Clients) /\ CC!IsInjective(d.order)
        /\ CC!ToSet(d.order) = CC!ToSet(c.order) \ {s}
        /\ Len(d.order) = Len(c.order) - 1
        /\ \A u, X : Ascending(c.order, u, X) => Ascending(d.order, u, X)
    BY <1>1, <1>3, <2>2, KeyRemoved
  <2>4. d.bytes = SumFunctionOnSet(d.own, CC!ToSet(d.order)) /\ d.bytes \in Nat
    <3> DEFINE T == CC!ToSet(c.order)
    <3>1. c.bytes = SumFunctionOnSet(c.own, T)
      BY DEF Counted
    <3>2. \A r \in T : c.own[r] \in Nat
      BY <1>1 DEF Caches
    <3>3. c.bytes = c.own[s] + SumFunctionOnSet(c.own, T \ {s})
      <4> HIDE DEF T
      <4>1. IsFiniteSet(T) /\ s \in T
        BY <1>1, <1>3 DEF T
      <4> QED
        BY <3>1, <3>2, <4>1, SumWithout
    <3>4. IsFiniteSet(T \ {s}) /\ \A r \in T \ {s} : d.own[r] = c.own[r] /\ c.own[r] \in Nat
      BY <1>1, <2>2, <3>2, FS_Subset DEF Caches
    <3> DEFINE R == T \ {s}
    <3>5. SumFunctionOnSet(c.own, R) \in Nat
      <4> HIDE DEF R
      <4> QED
        BY <3>4, SumNatural DEF R
    <3>6. SumFunctionOnSet(d.own, R) = SumFunctionOnSet(c.own, R)
      <4> HIDE DEF R
      <4>1. IsFiniteSet(R) /\ \A r \in R : d.own[r] = c.own[r]
        BY <3>4 DEF R
      <4> QED
        BY <4>1, SumSame
    <3> QED
      BY <1>3, <2>2, <2>3, <3>2, <3>3, <3>5, <3>6 DEF CC!Less
  <2>5. d \in Caches
    <3>1. /\ d.entries \in [Clients -> Seq(Keys)] /\ d.own \in [Clients -> Nat]
          /\ d.touched \in [Clients -> Nat]
      BY <1>1, <2>2, EmptySeq DEF Caches
    <3>2. d.size \in [Clients -> [Keys -> Nat]]
      BY <1>1, <2>2, NothingKept DEF Caches
    <3> QED
      BY <2>2, <2>3, <2>4, <3>1, <3>2 DEF Caches
  <2>6. \A r \in Clients :
          /\ r # s => d.entries[r] = c.entries[r] /\ d.own[r] = c.own[r] /\ d.size[r] = c.size[r]
          /\ r = s => d.entries[r] = <<>> /\ d.own[r] = 0
    BY <1>1, <2>2 DEF Caches
  <2>7. Counted(d)
    <3>1. ASSUME NEW r \in Clients
          PROVE  /\ CC!IsInjective(d.entries[r])
                 /\ d.own[r] = SumFunctionOnSet(d.size[r], CC!ToSet(d.entries[r]))
                 /\ d.entries[r] # <<>> => r \in CC!ToSet(d.order)
      <4>1. CASE r = s
        <5>1. d.entries[r] = <<>> /\ d.own[r] = 0
          BY <2>6, <4>1
        <5> QED
          BY <5>1, NothingKept
      <4>2. CASE r # s
        BY <2>3, <2>6, <4>2 DEF Counted
      <4> QED
        BY <4>1, <4>2
    <3> QED
      BY <2>3, <2>4, <2>5, <3>1 DEF Counted
  <2>8. d.bytes <= c.bytes /\ Len(d.order) <= Len(c.order)
    <3>1. c.bytes \in Nat /\ c.own[s] \in Nat /\ Len(c.order) \in Nat
      BY <1>1, LenProperties DEF Caches
    <3> QED
      BY <2>2, <2>3, <3>1 DEF CC!Less
  <2> QED
    BY <2>2, <2>3, <2>6, <2>7, <2>8 DEF LosesSession
<1> QED
  BY <1>2, <1>3

(* The count of all sessions after that of one has changed.                *)
LEMMA OwnChanges ==
  ASSUME NEW c, Counted(c), NEW s \in CC!ToSet(c.order), NEW own \in [Clients -> Nat],
         \A r \in Clients : r # s => own[r] = c.own[r]
  PROVE  /\ c.own[s] <= c.bytes /\ c.bytes \in Nat /\ c.own[s] \in Nat
         /\ SumFunctionOnSet(own, CC!ToSet(c.order)) = c.bytes - c.own[s] + own[s]
<1>1. /\ c \in Caches /\ CC!ToSet(c.order) \subseteq Clients
      /\ IsFiniteSet(CC!ToSet(c.order))
  BY PlacesOf, SetOfSequence DEF Counted, Caches
<1>2. c.bytes = SumFunctionOnSet(c.own, CC!ToSet(c.order)) /\ c.own \in [Clients -> Nat]
  BY <1>1 DEF Counted, Caches
<1> DEFINE T == CC!ToSet(c.order)
<1>3. \A r \in T : c.own[r] \in Nat /\ own[r] \in Nat /\ (r # s => own[r] = c.own[r])
  BY <1>1, <1>2
<1>4. IsFiniteSet(T) /\ s \in T
  BY <1>1
<1>5. PICK f, e : f = c.own /\ e = own
  OBVIOUS
<1>6. \A r \in T : f[r] \in Nat /\ e[r] \in Nat
  BY <1>3, <1>5
<1>7. \A r \in T : r # s => e[r] = f[r]
  BY <1>3, <1>5
<1> HIDE DEF T
<1>8. /\ SumFunctionOnSet(f, T) \in Nat /\ f[s] <= SumFunctionOnSet(f, T)
      /\ SumFunctionOnSet(e, T) = SumFunctionOnSet(f, T) - f[s] + e[s]
  BY ONLY <1>4, <1>6, <1>7, SumChanges
<1> QED
  BY <1>2, <1>3, <1>4, <1>5, <1>8 DEF T

(* The entries of one session are replaced, and counted.                   *)
SameBut(c, d, s) ==
    /\ d.order = c.order /\ d.touched = c.touched
    /\ \A r \in Clients : r # s => d.entries[r] = c.entries[r] /\ d.own[r] = c.own[r]

Replaced(c, d, s, es, ns, n) ==
    /\ d.order = c.order /\ d.touched = c.touched
    /\ d.entries = [c.entries EXCEPT ![s] = es]
    /\ d.size = [c.size EXCEPT ![s] = ns]
    /\ d.own = [c.own EXCEPT ![s] = n]
    /\ d.bytes = c.bytes - c.own[s] + n
    /\ d = [order |-> d.order, entries |-> d.entries, size |-> d.size, own |-> d.own,
            touched |-> d.touched, bytes |-> d.bytes]

LEMMA EntriesCounted ==
  ASSUME NEW c, Counted(c), NEW s \in CC!ToSet(c.order),
         NEW es \in Seq(Keys), CC!IsInjective(es), NEW ns \in [Keys -> Nat], NEW n,
         n = SumFunctionOnSet(ns, CC!ToSet(es)), NEW d, Replaced(c, d, s, es, ns, n)
  PROVE  Counted(d) /\ SameBut(c, d, s)
<1>1. /\ c \in Caches /\ c.order \in Seq(Clients)
      /\ CC!ToSet(c.order) \subseteq Clients /\ s \in Clients
  BY PlacesOf DEF Counted, Caches
<1>2. n \in Nat
  <2>1. IsFiniteSet(CC!ToSet(es)) /\ CC!ToSet(es) \subseteq Keys
    BY PlacesOf, SetOfSequence
  <2>2. \A k \in CC!ToSet(es) : ns[k] \in Nat
    BY <2>1
  <2> DEFINE T == CC!ToSet(es)
  <2>3. SumFunctionOnSet(ns, T) \in Nat
    <3> HIDE DEF T
    <3>1. IsFiniteSet(T) /\ \A k \in T : ns[k] \in Nat
      BY <2>1, <2>2 DEF T
    <3> QED
      BY <3>1, SumNatural
  <2> QED
    BY <2>3
<1>3. /\ d.order = c.order /\ d.touched = c.touched
      /\ d.entries = [c.entries EXCEPT ![s] = es]
      /\ d.size = [c.size EXCEPT ![s] = ns]
      /\ d.own = [c.own EXCEPT ![s] = n]
      /\ d.bytes = c.bytes - c.own[s] + n
      /\ d = [order |-> d.order, entries |-> d.entries, size |-> d.size, own |-> d.own,
              touched |-> d.touched, bytes |-> d.bytes]
  BY DEF Replaced
<1>4. /\ d.entries \in [Clients -> Seq(Keys)] /\ d.own \in [Clients -> Nat]
      /\ d.size \in [Clients -> [Keys -> Nat]]
      /\ \A r \in Clients :
           /\ r # s => d.entries[r] = c.entries[r] /\ d.own[r] = c.own[r] /\ d.size[r] = c.size[r]
           /\ r = s => d.entries[r] = es /\ d.own[r] = n /\ d.size[r] = ns
  BY <1>1, <1>2, <1>3 DEF Caches
<1>5. /\ c.own[s] <= c.bytes /\ c.bytes \in Nat /\ c.own[s] \in Nat
      /\ SumFunctionOnSet(d.own, CC!ToSet(c.order)) = c.bytes - c.own[s] + n
  <2>1. PICK own : own = d.own
    OBVIOUS
  <2>2. own \in [Clients -> Nat] /\ own[s] = n /\ \A r \in Clients : r # s => own[r] = c.own[r]
    BY <1>1, <1>4, <2>1
  <2>3. /\ c.own[s] <= c.bytes /\ c.bytes \in Nat /\ c.own[s] \in Nat
        /\ SumFunctionOnSet(own, CC!ToSet(c.order)) = c.bytes - c.own[s] + own[s]
    BY <2>2, OwnChanges
  <2> QED
    BY <2>1, <2>2, <2>3
<1>6. d.bytes \in Nat /\ d.bytes = SumFunctionOnSet(d.own, CC!ToSet(d.order))
  <2>1. d.bytes = SumFunctionOnSet(d.own, CC!ToSet(d.order))
    BY <1>3, <1>5
  <2> QED
    BY <1>2, <1>3, <1>5, <2>1
<1>7. d \in Caches
  <2>1. d.order \in Seq(Clients) /\ d.touched \in [Clients -> Nat]
    BY <1>1, <1>3 DEF Caches
  <2> QED
    BY <1>3, <1>4, <1>6, <2>1 DEF Caches
<1>8. ASSUME NEW r \in Clients
      PROVE  /\ CC!IsInjective(d.entries[r])
             /\ d.own[r] = SumFunctionOnSet(d.size[r], CC!ToSet(d.entries[r]))
             /\ d.entries[r] # <<>> => r \in CC!ToSet(d.order)
  <2>1. CASE r = s
    BY <1>3, <1>4, <2>1
  <2>2. CASE r # s
    BY <1>3, <1>4, <2>2 DEF Counted
  <2> QED
    BY <2>1, <2>2
<1>9. CC!IsInjective(d.order)
  BY <1>3 DEF Counted
<1> QED
  BY <1>1, <1>3, <1>4, <1>6, <1>7, <1>8, <1>9 DEF Counted, SameBut

LEMMA EntryGone ==
  ASSUME NEW c, Counted(c), NEW s \in Clients, NEW k \in Keys,
         NEW d, d = CC!RemoveEntry(c, s, k)
  PROVE  /\ Counted(d) /\ SameBut(c, d, s)
         /\ k \notin CC!ToSet(d.entries[s])
         /\ k \in CC!ToSet(c.entries[s]) => Len(d.entries[s]) = Len(c.entries[s]) - 1
<1>1. /\ c \in Caches /\ c.entries[s] \in Seq(Keys) /\ CC!IsInjective(c.entries[s])
      /\ c.size[s] \in [Keys -> Nat]
      /\ c.own[s] = SumFunctionOnSet(c.size[s], CC!ToSet(c.entries[s]))
  BY DEF Counted, Caches
<1>2. PICK q, f : q = c.entries[s] /\ f = c.size[s]
  OBVIOUS
<1>3. /\ CC!Keeps(c, s, k) <=> k \in CC!ToSet(q)
      /\ CC!ToSet(q) \subseteq Keys /\ IsFiniteSet(CC!ToSet(q))
  BY <1>1, <1>2, PlacesOf, SetOfSequence DEF CC!Keeps
<1>4. CASE k \notin CC!ToSet(q)
  <2>1. d = c
    BY <1>3, <1>4 DEF CC!RemoveEntry
  <2> QED
    BY <1>2, <1>4, <2>1 DEF SameBut
<1>5. CASE k \in CC!ToSet(q)
  <2> DEFINE es == CC!RemoveFirst(q, k)
             ns == [f EXCEPT ![k] = 0]
             T == CC!ToSet(q)
             n == SumFunctionOnSet(ns, CC!ToSet(es))
  <2>1. /\ es \in Seq(Keys) /\ CC!IsInjective(es) /\ CC!ToSet(es) = T \ {k}
        /\ Len(es) = Len(q) - 1
    BY <1>1, <1>2, <1>5, KeyRemoved
  <2>2. f[k] \in Nat /\ n \in Nat /\ c.own[s] = f[k] + n
    <3>1. IsFiniteSet(T) /\ k \in T /\ \A x \in T : f[x] \in Nat
      BY <1>1, <1>2, <1>3, <1>5
    <3> HIDE DEF T
    <3>2. SumFunctionOnSet(f, T) = f[k] + SumFunctionOnSet(f, T \ {k})
      BY <3>1, SumWithout
    <3> DEFINE R == T \ {k}
    <3>3. IsFiniteSet(R) /\ \A x \in R : f[x] = ns[x] /\ f[x] \in Nat
      BY <3>1, <1>1, <1>2, FS_Subset
    <3> HIDE DEF R
    <3>4. SumFunctionOnSet(f, R) = SumFunctionOnSet(ns, R)
      <4> HIDE DEF ns
      <4> QED
        BY <3>3, SumSame
    <3>5. SumFunctionOnSet(f, R) \in Nat
      BY <3>3, SumNatural
    <3>6. CC!ToSet(es) = R /\ c.own[s] = SumFunctionOnSet(f, T)
      BY <1>1, <1>2, <2>1 DEF R, T
    <3> QED
      BY <3>1, <3>2, <3>4, <3>5, <3>6 DEF R
  <2>3. s \in CC!ToSet(c.order)
    <3>1. q # <<>>
      BY <1>5, NothingKept
    <3> QED
      BY <1>2, <3>1 DEF Counted
  <2>4. c.own[s] <= c.bytes /\ c.bytes \in Nat
    <3>1. PICK own : own = c.own
      OBVIOUS
    <3>2. own \in [Clients -> Nat] /\ \A r \in Clients : r # s => own[r] = c.own[r]
      BY <1>1, <3>1 DEF Caches
    <3> QED
      BY <2>3, <3>2, OwnChanges
  <2>5. ns \in [Keys -> Nat]
    BY <1>1, <1>2
  <2>6. /\ CC!Less(c.own[s], f[k]) = n
        /\ CC!Less(c.bytes, f[k]) = c.bytes - c.own[s] + n
    <3> HIDE DEF n, ns, es
    <3> QED
      BY <2>2, <2>4 DEF CC!Less
  <2>7. d = [c EXCEPT !.entries[s] = CC!RemoveFirst(@, k), !.size[s][k] = 0,
                   !.own[s] = CC!Less(@, c.size[s][k]), !.bytes = CC!Less(@, c.size[s][k])]
    BY <1>3, <1>5 DEF CC!RemoveEntry
  <2>8. Replaced(c, d, s, es, ns, n)
    <3> HIDE DEF n
    <3> QED
      BY <1>1, <1>2, <2>6, <2>7 DEF Caches, Replaced
  <2>9. n = SumFunctionOnSet(ns, CC!ToSet(es))
    BY DEF n
  <2> HIDE DEF n, ns, es
  <2>10. Counted(d) /\ SameBut(c, d, s)
    <3>1. CC!IsInjective(es) /\ es \in Seq(Keys)
      BY <2>1
    <3> QED
      BY <3>1, <2>3, <2>5, <2>8, <2>9, EntriesCounted
  <2>11. d.entries[s] = es
    BY <1>1, <2>8 DEF Replaced, Caches
  <2> QED
    BY <1>2, <2>1, <2>10, <2>11
<1> QED
  BY <1>4, <1>5

GainsSession(c, d, s) ==
    /\ d.entries = c.entries /\ d.own = c.own
    /\ CC!ToSet(d.order) = CC!ToSet(c.order) \cup {s} /\ Len(d.order) = Len(c.order) + 1
    /\ \A u : Ascending(c.order, u, {s}) => Ascending(d.order, u, {s})

LEMMA SessionAdded ==
  ASSUME NEW c, Counted(c), NEW s \in Clients, s \notin CC!ToSet(c.order),
         NEW d, d = [c EXCEPT !.order = Append(@, s)]
  PROVE  Counted(d) /\ GainsSession(c, d, s)
<1>1. /\ c \in Caches /\ c.order \in Seq(Clients) /\ CC!IsInjective(c.order)
      /\ CC!ToSet(c.order) \subseteq Clients /\ IsFiniteSet(CC!ToSet(c.order))
  BY PlacesOf, SetOfSequence DEF Counted, Caches
<1>2. /\ d.order = Append(c.order, s) /\ d.entries = c.entries /\ d.own = c.own
      /\ d.size = c.size /\ d.touched = c.touched /\ d.bytes = c.bytes
      /\ d = [order |-> d.order, entries |-> d.entries, size |-> d.size, own |-> d.own,
              touched |-> d.touched, bytes |-> d.bytes]
  BY <1>1 DEF Caches
<1>3. /\ d.order \in Seq(Clients) /\ CC!IsInjective(d.order)
      /\ CC!ToSet(d.order) = CC!ToSet(c.order) \cup {s} /\ Len(d.order) = Len(c.order) + 1
      /\ \A u : Ascending(c.order, u, {s}) => Ascending(d.order, u, {s})
  BY <1>1, <1>2, KeyAppended
<1>4. c.own[s] = 0
  <2>1. c.entries[s] = <<>>
    BY DEF Counted
  <2> QED
    BY <2>1, NothingKept DEF Counted
<1> DEFINE T == CC!ToSet(c.order)
<1>5. PICK own : own = c.own
  OBVIOUS
<1>6. SumFunctionOnSet(own, T \cup {s}) = own[s] + SumFunctionOnSet(own, T)
  <2>1. IsFiniteSet(T) /\ s \notin T /\ \A x \in T \cup {s} : own[x] \in Nat
    BY <1>1, <1>5 DEF Caches
  <2> HIDE DEF T
  <2> QED
    BY <2>1, SumWith
<1>7. c.bytes = SumFunctionOnSet(c.own, T) /\ c.bytes \in Nat
  BY <1>1 DEF Counted, Caches
<1>8. d.bytes = SumFunctionOnSet(d.own, CC!ToSet(d.order))
  <2>1. CC!ToSet(d.order) = T \cup {s} /\ d.own = own /\ d.bytes = c.bytes /\ own[s] = 0
    BY <1>2, <1>3, <1>4, <1>5
  <2>2. d.bytes = SumFunctionOnSet(own, T) /\ d.bytes \in Nat
    BY <1>5, <1>7, <2>1
  <2> HIDE DEF T
  <2> QED
    BY ONLY <1>6, <2>1, <2>2
<1>9. d \in Caches
  BY <1>1, <1>2, <1>3 DEF Caches
<1>10. \A r \in Clients :
          /\ CC!IsInjective(d.entries[r])
          /\ d.own[r] = SumFunctionOnSet(d.size[r], CC!ToSet(d.entries[r]))
          /\ d.entries[r] # <<>> => r \in CC!ToSet(d.order)
  BY <1>2, <1>3 DEF Counted
<1> QED
  BY <1>2, <1>3, <1>8, <1>9, <1>10 DEF Counted, GainsSession

Added(c, d, s, k, n) ==
    d = [c EXCEPT !.entries[s] = Append(@, k), !.size[s][k] = n, !.own[s] = @ + n, !.bytes = @ + n]

LEMMA EntryAdded ==
  ASSUME NEW c, Counted(c), NEW s \in CC!ToSet(c.order), NEW k \in Keys,
         k \notin CC!ToSet(c.entries[s]), NEW n \in Nat,
         NEW d, Added(c, d, s, k, n)
  PROVE  Counted(d) /\ SameBut(c, d, s) /\ d.entries[s] # <<>>
<1>1. c \in Caches /\ s \in Clients
  BY PlacesOf DEF Counted, Caches
<1>2. PICK q, f : q = c.entries[s] /\ f = c.size[s]
  OBVIOUS
<1>3. /\ q \in Seq(Keys) /\ CC!IsInjective(q) /\ f \in [Keys -> Nat]
      /\ c.own[s] = SumFunctionOnSet(f, CC!ToSet(q)) /\ c.own[s] \in Nat /\ c.bytes \in Nat
  BY <1>1, <1>2 DEF Counted, Caches
<1>4. CC!ToSet(q) \subseteq Keys /\ IsFiniteSet(CC!ToSet(q)) /\ k \notin CC!ToSet(q)
  BY <1>2, <1>3, PlacesOf, SetOfSequence
<1> DEFINE es == Append(q, k)
           ns == [f EXCEPT ![k] = n]
           T == CC!ToSet(q)
           m == c.own[s] + n
<1>5. /\ es \in Seq(Keys) /\ CC!IsInjective(es) /\ CC!ToSet(es) = T \cup {k}
      /\ es # <<>>
  <2>1. /\ es \in Seq(Keys) /\ CC!IsInjective(es) /\ CC!ToSet(es) = T \cup {k}
    BY <1>3, <1>4, KeyAppended
  <2> QED
    BY <2>1, NothingKept
<1>6. ns \in [Keys -> Nat] /\ ns[k] = n /\ \A x \in T : ns[x] = f[x] /\ f[x] \in Nat
  BY <1>3, <1>4
<1>7. m = SumFunctionOnSet(ns, CC!ToSet(es))
  <2>1. IsFiniteSet(T) /\ k \notin T /\ \A x \in T \cup {k} : ns[x] \in Nat
    BY <1>4, <1>6
  <2> HIDE DEF T, ns
  <2>2. SumFunctionOnSet(ns, T \cup {k}) = ns[k] + SumFunctionOnSet(ns, T)
    BY <2>1, SumWith
  <2>3. SumFunctionOnSet(f, T) = SumFunctionOnSet(ns, T)
    BY <2>1, <1>6, SumSame
  <2>4. c.own[s] = SumFunctionOnSet(f, T)
    BY <1>3 DEF T
  <2> QED
    BY <1>3, <1>5, <1>6, <2>2, <2>3, <2>4
<1>8. c.own[s] <= c.bytes
  <2>1. PICK own : own = c.own
    OBVIOUS
  <2>2. own \in [Clients -> Nat] /\ \A r \in Clients : r # s => own[r] = c.own[r]
    BY <1>1, <2>1 DEF Caches
  <2> QED
    BY <2>2, OwnChanges
<1>9. Replaced(c, d, s, es, ns, m)
  <2>1. c.bytes + n = c.bytes - c.own[s] + m
    BY <1>3
  <2> HIDE DEF m
  <2>2. m = c.own[s] + n
    BY DEF m
  <2> QED
    BY <1>1, <1>2, <2>1, <2>2 DEF Caches, Replaced, Added
<1> HIDE DEF es, ns, m
<1>10. CC!IsInjective(es) /\ es \in Seq(Keys)
  BY <1>5
<1>11. Counted(d) /\ SameBut(c, d, s)
  BY <1>6, <1>7, <1>9, <1>10, EntriesCounted
<1>12. d.entries[s] = es
  BY <1>1, <1>9 DEF Replaced, Caches
<1> QED
  BY <1>5, <1>11, <1>12

PutsIn(c, d, s) ==
    /\ Counted(d) /\ s \in CC!ToSet(d.order)
    /\ Len(d.order) <= Len(c.order) + 1
    /\ s \in CC!ToSet(c.order) => Len(d.order) = Len(c.order)
    /\ d.entries[s] # <<>> /\ CC!ToSet(d.order) = CC!ToSet(c.order) \cup {s}
    /\ \A r \in Clients : r # s => d.entries[r] = c.entries[r] /\ d.own[r] = c.own[r]
    /\ \A u : Ascending(c.order, u, {s}) => Ascending(d.order, u, {s})

LEMMA EntryPut ==
  ASSUME NEW c, Counted(c), NEW s \in Clients, NEW k \in Keys, NEW n \in Nat,
         NEW d, d = CC!Put(c, s, k, n)
  PROVE  PutsIn(c, d, s)
<1>0. PICK e : e = IF CC!Known(c, s) THEN CC!RemoveEntry(c, s, k)
                   ELSE [c EXCEPT !.order = Append(@, s)]
  OBVIOUS
<1>1. CC!Known(c, s) <=> s \in CC!ToSet(c.order)
  BY PlacesOf DEF Counted, Caches, CC!Known
<1>2. /\ Counted(e)
      /\ \A r \in Clients : r # s => e.entries[r] = c.entries[r] /\ e.own[r] = c.own[r]
      /\ CC!ToSet(e.order) = CC!ToSet(c.order) \cup {s} /\ Len(e.order) <= Len(c.order) + 1
      /\ s \in CC!ToSet(c.order) => Len(e.order) = Len(c.order)
      /\ \A u : Ascending(c.order, u, {s}) => Ascending(e.order, u, {s})
      /\ k \notin CC!ToSet(e.entries[s])
  <2>1. CASE s \in CC!ToSet(c.order)
    <3>1. PICK f : f = CC!RemoveEntry(c, s, k)
      OBVIOUS
    <3>2. Counted(f) /\ SameBut(c, f, s) /\ k \notin CC!ToSet(f.entries[s])
      BY <3>1, EntryGone
    <3>3. e = f
      BY <1>0, <1>1, <2>1, <3>1
    <3>4. Len(c.order) \in Nat
      BY LenProperties DEF Counted, Caches
    <3> QED
      BY <2>1, <3>2, <3>3, <3>4 DEF SameBut
  <2>2. CASE s \notin CC!ToSet(c.order)
    <3>1. PICK f : f = [c EXCEPT !.order = Append(@, s)]
      OBVIOUS
    <3>2. Counted(f) /\ GainsSession(c, f, s)
      BY <2>2, <3>1, SessionAdded
    <3>3. e = f
      BY <1>0, <1>1, <2>2, <3>1
    <3>4. c.entries[s] = <<>>
      BY <2>2 DEF Counted
    <3>5. Len(c.order) \in Nat
      BY LenProperties DEF Counted, Caches
    <3>6. /\ CC!ToSet(e.order) = CC!ToSet(c.order) \cup {s} /\ Len(e.order) = Len(c.order) + 1
          /\ e.entries = c.entries /\ e.own = c.own
      BY <3>2, <3>3 DEF GainsSession
    <3>7. \A u : Ascending(c.order, u, {s}) => Ascending(e.order, u, {s})
      BY <3>2, <3>3 DEF GainsSession
    <3>8. k \notin CC!ToSet(e.entries[s])
      BY <3>4, <3>6, NothingKept
    <3>9. Counted(e)
      BY <3>2, <3>3
    <3>10. Len(e.order) <= Len(c.order) + 1
      BY <3>5, <3>6
    <3>11. \A r \in Clients : r # s => e.entries[r] = c.entries[r] /\ e.own[r] = c.own[r]
      BY <3>6
    <3> QED
      BY ONLY <2>2, <3>6, <3>7, <3>8, <3>9, <3>10, <3>11
  <2> QED
    BY <2>1, <2>2
<1>3. Added(e, d, s, k, n)
  BY <1>0 DEF CC!Put, Added
<1>4. s \in CC!ToSet(e.order)
  BY <1>2
<1>5. Counted(d) /\ SameBut(e, d, s) /\ d.entries[s] # <<>>
  BY <1>2, <1>3, <1>4, EntryAdded
<1> QED
  BY <1>2, <1>4, <1>5 DEF SameBut, PutsIn

UsedLast(u, v, s) == \A r \in Clients : r # s => v[r] = u[r] /\ v[r] <= v[s]

Touches(c, d, s) ==
    /\ Counted(d) /\ d.entries = c.entries /\ d.own = c.own /\ d.bytes = c.bytes
    /\ CC!ToSet(d.order) = CC!ToSet(c.order) /\ Len(d.order) = Len(c.order)
    /\ \A u, v : Ascending(c.order, u, {s}) /\ UsedLast(u, v, s) => Ascending(d.order, v, {})

LEMMA SessionTouched ==
  ASSUME NEW c, Counted(c), NEW s \in CC!ToSet(c.order), time \in Nat,
         NEW d, d = CC!TouchSession(c, s)
  PROVE  Touches(c, d, s)
<1>1. /\ c \in Caches /\ c.order \in Seq(Clients) /\ CC!IsInjective(c.order)
      /\ CC!ToSet(c.order) \subseteq Clients /\ s \in Clients
  BY PlacesOf DEF Counted, Caches
<1> DEFINE q == CC!RemoveFirst(c.order, s)
<1>2. /\ q \in Seq(Clients) /\ CC!IsInjective(q)
      /\ CC!ToSet(q) = CC!ToSet(c.order) \ {s}
      /\ Len(q) = Len(c.order) - 1
      /\ \A u, X : Ascending(c.order, u, X) => Ascending(q, u, X)
  BY <1>1, KeyRemoved
<1>3. /\ d.order = Append(q, s) /\ d.entries = c.entries /\ d.own = c.own
      /\ d.size = c.size /\ d.touched = [c.touched EXCEPT ![s] = time] /\ d.bytes = c.bytes
      /\ d = [order |-> d.order, entries |-> d.entries, size |-> d.size, own |-> d.own,
              touched |-> d.touched, bytes |-> d.bytes]
  BY <1>1 DEF Caches, CC!TouchSession
<1> HIDE DEF q
<1>4. /\ d.order \in Seq(Clients) /\ CC!IsInjective(d.order)
      /\ CC!ToSet(d.order) = CC!ToSet(q) \cup {s} /\ Len(d.order) = Len(q) + 1
      /\ \A u, X : Ascending(q, u, X) /\ (s \in X \/ (\A y \in CC!ToSet(q) \ X : u[y] <= u[s]))
                  => Ascending(d.order, u, X)
  BY <1>1, <1>2, <1>3, KeyAppended
<1>5. CC!ToSet(d.order) = CC!ToSet(c.order) /\ Len(d.order) = Len(c.order)
  BY <1>1, <1>2, <1>4, LenProperties
<1>6. d \in Caches
  <2>1. d.touched \in [Clients -> Nat]
    BY <1>1, <1>3 DEF Caches
  <2> QED
    BY <1>1, <1>3, <1>4, <2>1 DEF Caches
<1>7. Counted(d)
  BY <1>3, <1>4, <1>5, <1>6 DEF Counted
<1>8. ASSUME NEW u, NEW v, Ascending(c.order, u, {s}),
             UsedLast(u, v, s)
      PROVE  Ascending(d.order, v, {})
  <2>1. Ascending(q, u, {s})
    BY <1>2, <1>8
  <2>2. \A i \in DOMAIN q : q[i] \in Clients /\ q[i] # s
    BY <1>1, <1>2, PlacesOf
  <2>3. Ascending(q, v, {})
    BY <1>8, <2>1, <2>2 DEF Ascending, UsedLast
  <2>4. \A y \in CC!ToSet(q) \ {} : v[y] <= v[s]
    BY <1>1, <1>2, <1>8 DEF UsedLast
  <2> QED
    BY <1>4, <2>3, <2>4
<1> QED
  BY <1>3, <1>5, <1>7, <1>8 DEF Touches

MovesEntry(c, d, s, k) == d = [c EXCEPT !.entries[s] = Append(CC!RemoveFirst(@, k), k)]

UsesEntry(c, d, s) ==
    /\ Counted(d) /\ SameBut(c, d, s) /\ d.entries[s] # <<>> /\ d.own = c.own
    /\ d.bytes = c.bytes /\ s \in CC!ToSet(c.order) /\ Len(d.entries[s]) = Len(c.entries[s])

LEMMA EntryUsed ==
  ASSUME NEW c, Counted(c), NEW s \in Clients, NEW k \in Keys, k \in CC!ToSet(c.entries[s]),
         NEW d, MovesEntry(c, d, s, k)
  PROVE  UsesEntry(c, d, s)
<1>1. c \in Caches
  BY DEF Counted
<1>2. PICK q, f : q = c.entries[s] /\ f = c.size[s]
  OBVIOUS
<1>3. /\ q \in Seq(Keys) /\ CC!IsInjective(q) /\ f \in [Keys -> Nat]
      /\ c.own[s] = SumFunctionOnSet(f, CC!ToSet(q)) /\ c.own[s] \in Nat /\ c.bytes \in Nat
  BY <1>1, <1>2 DEF Counted, Caches
<1> DEFINE r == CC!RemoveFirst(q, k)
           es == Append(r, k)
<1>4. /\ r \in Seq(Keys) /\ CC!IsInjective(r) /\ CC!ToSet(r) = CC!ToSet(q) \ {k}
      /\ Len(r) = Len(q) - 1
  BY <1>2, <1>3, KeyRemoved
<1>5. Len(q) \in Nat
  BY <1>3, LenProperties
<1>6. /\ es \in Seq(Keys) /\ CC!IsInjective(es) /\ CC!ToSet(es) = CC!ToSet(r) \cup {k}
      /\ Len(es) = Len(r) + 1
  <2> HIDE DEF r
  <2> QED
    BY <1>4, KeyAppended
<1>7. CC!ToSet(es) = CC!ToSet(q) /\ es # <<>> /\ Len(es) = Len(q)
  BY <1>2, <1>4, <1>5, <1>6, NothingKept
<1>8. s \in CC!ToSet(c.order)
  <2>1. c.entries[s] # <<>>
    BY NothingKept
  <2> QED
    BY <2>1 DEF Counted
<1> HIDE DEF r
<1> DEFINE n == c.own[s]
<1>9. Replaced(c, d, s, es, f, n) /\ d.own = c.own /\ d.bytes = c.bytes
  <2>1. c.bytes = c.bytes - c.own[s] + n
    BY <1>3
  <2>2. d.order = c.order /\ d.touched = c.touched /\ d.size = c.size /\ d.own = c.own
        /\ d.bytes = c.bytes /\ d.entries = [c.entries EXCEPT ![s] = es]
        /\ d = [order |-> d.order, entries |-> d.entries, size |-> d.size, own |-> d.own,
                touched |-> d.touched, bytes |-> d.bytes]
    BY <1>1, <1>2 DEF Caches, r, MovesEntry
  <2>3. d.size = [c.size EXCEPT ![s] = f] /\ d.own = [c.own EXCEPT ![s] = n]
    BY <1>1, <1>2, <2>2 DEF Caches
  <2> QED
    BY <2>1, <2>2, <2>3 DEF Replaced
<1> HIDE DEF es, n
<1>10. CC!IsInjective(es) /\ es \in Seq(Keys) /\ n = SumFunctionOnSet(f, CC!ToSet(es))
  BY <1>3, <1>6, <1>7 DEF n
<1>11. Counted(d) /\ SameBut(c, d, s)
  BY <1>3, <1>8, <1>9, <1>10, EntriesCounted
<1>12. d.entries[s] = es
  BY <1>1, <1>9 DEF Replaced, Caches
<1> QED
  BY <1>2, <1>7, <1>8, <1>9, <1>11, <1>12 DEF UsesEntry

-----------------------------------------------------------------------------
(* No session is without an entry, none is over its limits, and the order  *)
(* is that of use; and all of them together are within theirs.             *)
Filled(c) == \A s \in CC!ToSet(c.order) : c.entries[s] # <<>>
InLimits(c, s) == Len(c.entries[s]) <= MaxKept /\ c.own[s] <= BytesPerSession

Tidy(c, u) ==
    Counted(c) /\ Filled(c) /\ (\A s \in Clients : InLimits(c, s)) /\ Ascending(c.order, u, {})

Fits(c) == c.bytes <= KeptBytes /\ Len(c.order) <= MaxSessions

LEMMA LimitsNatural ==
  /\ Sizes \subseteq Nat
  /\ MaxSessions \in Nat /\ MaxKept \in Nat /\ KeptBytes \in Nat /\ BytesPerSession \in Nat
BY ContinuationAssumption DEF CC!LimitsKnown

LEMMA TidyRemoval ==
  ASSUME NEW c, NEW u, Tidy(c, u), NEW s \in Clients, NEW d, d = CC!RemoveSession(c, s)
  PROVE  Tidy(d, u) /\ (Fits(c) => Fits(d))
<1>1. /\ Counted(d)
      /\ CC!ToSet(d.order) = CC!ToSet(c.order) \ {s}
      /\ Ascending(d.order, u, {})
      /\ \A r \in Clients : r # s => d.entries[r] = c.entries[r] /\ d.own[r] = c.own[r]
      /\ d.entries[s] = <<>> /\ d.own[s] = 0
      /\ d.bytes <= c.bytes /\ Len(d.order) <= Len(c.order)
  <2>1. Counted(c) /\ Ascending(c.order, u, {})
    BY DEF Tidy
  <2>2. LosesSession(c, d, s)
    BY <2>1, SessionGone
  <2> QED
    BY <2>1, <2>2 DEF LosesSession
<1>2. CC!ToSet(c.order) \subseteq Clients
  BY PlacesOf DEF Tidy, Counted, Caches
<1>3. Filled(d)
  BY <1>1, <1>2 DEF Tidy, Filled
<1>4. \A r \in Clients : InLimits(d, r)
  <2> SUFFICES ASSUME NEW r \in Clients PROVE InLimits(d, r)
    OBVIOUS
  <2>1. CASE r = s
    <3>1. Len(d.entries[r]) = 0 /\ d.own[r] = 0
      BY <1>1, <2>1, EmptySeq
    <3> QED
      BY <3>1, LimitsNatural DEF InLimits
  <2>2. CASE r # s
    BY <1>1, <2>2 DEF Tidy, InLimits
  <2> QED
    BY <2>1, <2>2
<1>5. c.bytes \in Nat /\ d.bytes \in Nat /\ Len(c.order) \in Nat /\ Len(d.order) \in Nat
  BY <1>1, LenProperties DEF Tidy, Counted, Caches
<1>6. Fits(c) => Fits(d)
  BY <1>1, <1>5, LimitsNatural DEF Fits
<1> QED
  BY <1>1, <1>3, <1>4, <1>6 DEF Tidy

LEMMA TidyPrune ==
  ASSUME NEW c, NEW u, Tidy(c, u), Fits(c), NEW d, d = CC!PruneExpired(c)
  PROVE  Tidy(d, u) /\ Fits(d)
<1> DEFINE D == {e \in Caches : Tidy(e, u) /\ Fits(e)}
<1>1. PICK n : n = Len(c.order)
  OBVIOUS
<1>2. n \in Nat /\ \A i \in 1..n : c.order[i] \in Clients
  BY <1>1, PlacesOf DEF Tidy, Counted, Caches
<1>3. ASSUME NEW f \in D, NEW i \in 1..n PROVE CC!PruneRound(f, c.order[i]) \in D
  <2>1. PICK s \in Clients : s = c.order[i]
    BY <1>2
  <2>2. PICK e : e = CC!RemoveSession(f, s)
    OBVIOUS
  <2>3. Tidy(e, u) /\ Fits(e)
    BY <2>2, TidyRemoval
  <2>4. e \in D
    BY <2>3 DEF Tidy, Counted
  <2>5. CC!PruneRound(f, s) = e \/ CC!PruneRound(f, s) = f
    BY <2>2 DEF CC!PruneRound
  <2> QED
    BY <2>1, <2>4, <2>5
<1>4. c \in D
  BY DEF Tidy, Counted
<1> HIDE DEF D
<1>5. \E g \in [0..n -> D] : d = g[n]
  BY <1>1, <1>2, <1>3, <1>4, PruneRuns
<1>6. d \in D
  BY <1>2, <1>5
<1> QED
  BY <1>6 DEF D

LEMMA SessionEvicted ==
  ASSUME NEW c, Counted(c), NEW s \in Clients, NEW d, d = CC!EvictSessionEntries(c, s)
  PROVE  Counted(d) /\ SameBut(c, d, s) /\ InLimits(d, s)
<1> DEFINE D == {e \in Caches : Counted(e) /\ SameBut(c, e, s)}
<1>1. PICK n : n = Len(c.entries[s])
  OBVIOUS
<1>2. n \in Nat
  BY <1>1, LenProperties DEF Counted, Caches
<1>3. c \in D
  BY DEF Counted, SameBut
<1>4. ASSUME NEW e \in D, NEW f, f = CC!EntryRound(e, s)
      PROVE  /\ f \in D
             /\ e.entries[s] = <<>> \/ InLimits(e, s) => f = e
             /\ ~(e.entries[s] = <<>> \/ InLimits(e, s)) =>
                  Len(f.entries[s]) = Len(e.entries[s]) - 1
  <2>1. PICK q : q = e.entries[s]
    OBVIOUS
  <2>2. q \in Seq(Keys) /\ Len(q) \in Nat /\ e.own[s] \in Nat
    BY <2>1, LenProperties DEF Counted, Caches
  <2>3. CASE q # <<>> /\ ~InLimits(e, s)
    <3>1. PICK k : k = Head(q)
      OBVIOUS
    <3>2. k \in Keys /\ k = q[1] /\ Len(q) > 0
      BY <2>2, <2>3, <3>1, HeadTailProperties, EmptySeq
    <3>3. k \in CC!ToSet(q)
      BY <2>2, <3>2, PlacesOf
    <3>4. f = CC!RemoveEntry(e, s, k)
      BY <1>4, <2>1, <2>2, <2>3, <3>1, LimitsNatural DEF CC!EntryRound, InLimits
    <3>5. Counted(f) /\ SameBut(e, f, s) /\ Len(f.entries[s]) = Len(q) - 1
      BY <2>1, <3>2, <3>3, <3>4, EntryGone
    <3>6. SameBut(c, f, s)
      BY <3>5 DEF SameBut
    <3> QED
      BY <2>1, <2>3, <3>5, <3>6 DEF Counted
  <2>4. CASE q = <<>> \/ InLimits(e, s)
    <3>1. f = e
      BY <1>4, <2>1, <2>2, <2>4, LimitsNatural DEF CC!EntryRound, InLimits
    <3> QED
      BY <2>1, <2>4, <3>1
  <2> QED
    BY <2>3, <2>4
<1>5. PICK g \in [0..n -> D] : /\ g[0] = c /\ \A i \in 1..n : g[i] = CC!EntryRound(g[i - 1], s)
                               /\ d = g[n]
  <2>1. \A e \in D : \A i \in 1..n : CC!EntryRound(e, s) \in D
    BY <1>4
  <2> HIDE DEF D
  <2> QED
    BY <1>1, <1>2, <1>3, <2>1, EntryRuns
<1> DEFINE T == {i \in 0..n : \/ g[i].entries[s] = <<>> \/ InLimits(g[i], s)
                              \/ Len(g[i].entries[s]) = n - i}
<1>6. 0 \in T
  BY <1>1, <1>2, <1>5
<1>7. ASSUME NEW i \in 1..n, i - 1 \in T PROVE i \in T
  <2>1. PICK e, f : e = g[i - 1] /\ f = g[i]
    OBVIOUS
  <2>2. i - 1 \in 0..n /\ e \in D /\ f = CC!EntryRound(e, s)
    <3> HIDE DEF D
    <3>1. i - 1 \in 0..n
      BY <1>2
    <3> QED
      BY <1>5, <2>1, <3>1
  <2>3. e.entries[s] = <<>> \/ InLimits(e, s) \/ Len(e.entries[s]) = n - (i - 1)
    BY <1>7, <2>1
  <2>4. /\ e.entries[s] = <<>> \/ InLimits(e, s) => f = e
        /\ ~(e.entries[s] = <<>> \/ InLimits(e, s)) => Len(f.entries[s]) = Len(e.entries[s]) - 1
    <3> HIDE DEF D
    <3> QED
      BY <1>4, <2>2
  <2>5. f.entries[s] = <<>> \/ InLimits(f, s) \/ Len(f.entries[s]) = n - i
    BY <1>2, <2>3, <2>4
  <2> QED
    BY <2>1, <2>5
<1>8. n \in T
  <2> HIDE DEF T
  <2>1. \A i \in 0..n : i \in T
    BY <1>2, <1>6, <1>7, CountUp
  <2> QED
    BY <1>2, <2>1
<1>9. d \in D /\ (d.entries[s] = <<>> \/ InLimits(d, s) \/ Len(d.entries[s]) = 0)
  BY <1>2, <1>5, <1>8
<1>10. d.entries[s] \in Seq(Keys)
  BY <1>9 DEF Caches
<1>11. InLimits(d, s)
  <2>1. CASE d.entries[s] = <<>>
    <3>1. Len(d.entries[s]) = 0 /\ d.own[s] = 0
      BY <1>9, <2>1, EmptySeq, NothingKept DEF Counted
    <3> QED
      BY <3>1, LimitsNatural DEF InLimits
  <2> QED
    BY <1>9, <1>10, <2>1, EmptySeq
<1> QED
  BY <1>9, <1>11

LEMMA AllEvicted ==
  ASSUME NEW c, NEW u, Tidy(c, u), NEW d, d = CC!EvictGlobal(c)
  PROVE  Tidy(d, u) /\ Fits(d)
<1> DEFINE D == {e \in Caches : Tidy(e, u)}
<1>1. PICK n : n = Len(c.order)
  OBVIOUS
<1>2. n \in Nat
  BY <1>1, LenProperties DEF Tidy, Counted, Caches
<1>3. c \in D
  BY DEF Tidy, Counted
<1>4. ASSUME NEW e \in D, NEW f, f = CC!GlobalRound(e)
      PROVE  /\ f \in D
             /\ e.order = <<>> \/ Fits(e) => f = e
             /\ ~(e.order = <<>> \/ Fits(e)) => Len(f.order) = Len(e.order) - 1
  <2>1. PICK q : q = e.order
    OBVIOUS
  <2>2. q \in Seq(Clients) /\ Len(q) \in Nat /\ e.bytes \in Nat
    BY <2>1, LenProperties DEF Caches
  <2>3. CASE q # <<>> /\ ~Fits(e)
    <3>1. PICK s : s = Head(q)
      OBVIOUS
    <3>2. s \in Clients /\ s = q[1] /\ Len(q) > 0
      BY <2>2, <2>3, <3>1, HeadTailProperties, EmptySeq
    <3>3. s \in CC!ToSet(q)
      BY <2>2, <3>2, PlacesOf
    <3>4. f = CC!RemoveSession(e, s)
      BY <1>4, <2>1, <2>2, <2>3, <3>1, LimitsNatural DEF CC!GlobalRound, Fits
    <3>5. Tidy(f, u)
      BY <3>2, <3>4, TidyRemoval
    <3>6. Len(f.order) = Len(q) - 1
      <4>1. LosesSession(e, f, s)
        BY <3>2, <3>4, SessionGone DEF Tidy
      <4> QED
        BY <2>1, <3>3, <4>1 DEF LosesSession
    <3> QED
      BY <2>1, <2>3, <3>5, <3>6 DEF Tidy, Counted
  <2>4. CASE q = <<>> \/ Fits(e)
    <3>1. f = e
      BY <1>4, <2>1, <2>2, <2>4, LimitsNatural DEF CC!GlobalRound, Fits
    <3> QED
      BY <2>1, <2>4, <3>1
  <2> QED
    BY <2>3, <2>4
<1>5. PICK g \in [0..n -> D] : /\ g[0] = c /\ \A i \in 1..n : g[i] = CC!GlobalRound(g[i - 1])
                               /\ d = g[n]
  <2>1. \A e \in D : \A i \in 1..n : CC!GlobalRound(e) \in D
    BY <1>4
  <2> HIDE DEF D
  <2> QED
    BY <1>1, <1>2, <1>3, <2>1, GlobalRuns
<1> DEFINE T == {i \in 0..n : g[i].order = <<>> \/ Fits(g[i]) \/ Len(g[i].order) = n - i}
<1>6. 0 \in T
  BY <1>1, <1>2, <1>5
<1>7. ASSUME NEW i \in 1..n, i - 1 \in T PROVE i \in T
  <2>1. PICK e, f : e = g[i - 1] /\ f = g[i]
    OBVIOUS
  <2>2. i - 1 \in 0..n /\ e \in D /\ f = CC!GlobalRound(e)
    <3> HIDE DEF D
    <3>1. i - 1 \in 0..n
      BY <1>2
    <3> QED
      BY <1>5, <2>1, <3>1
  <2>3. e.order = <<>> \/ Fits(e) \/ Len(e.order) = n - (i - 1)
    BY <1>7, <2>1
  <2>4. /\ e.order = <<>> \/ Fits(e) => f = e
        /\ ~(e.order = <<>> \/ Fits(e)) => Len(f.order) = Len(e.order) - 1
    <3> HIDE DEF D
    <3> QED
      BY <1>4, <2>2
  <2>5. f.order = <<>> \/ Fits(f) \/ Len(f.order) = n - i
    BY <1>2, <2>3, <2>4
  <2> QED
    BY <2>1, <2>5
<1>8. n \in T
  <2> HIDE DEF T
  <2>1. \A i \in 0..n : i \in T
    BY <1>2, <1>6, <1>7, CountUp
  <2> QED
    BY <1>2, <2>1
<1>9. d \in D /\ (d.order = <<>> \/ Fits(d) \/ Len(d.order) = 0)
  BY <1>2, <1>5, <1>8
<1>10. d.order \in Seq(Clients)
  BY <1>9 DEF Caches
<1>11. Fits(d)
  <2>1. CASE d.order = <<>>
    <3>1. Len(d.order) = 0 /\ d.bytes = 0
      BY <1>9, <2>1, EmptySeq, NothingKept DEF Tidy, Counted
    <3> QED
      BY <3>1, LimitsNatural DEF Fits
  <2> QED
    BY <1>9, <1>10, <2>1, EmptySeq
<1> QED
  BY <1>9, <1>11

-----------------------------------------------------------------------------
LEMMA TidyTouch ==
  ASSUME NEW c, Counted(c), Filled(c), \A r \in Clients : InLimits(c, r),
         NEW u, NEW s \in CC!ToSet(c.order), Ascending(c.order, u, {s}), time \in Nat,
         NEW v, UsedLast(u, v, s), NEW d, d = CC!TouchSession(c, s)
  PROVE  Tidy(d, v) /\ (Fits(c) => Fits(d))
<1>1. /\ Counted(d) /\ d.entries = c.entries /\ d.own = c.own /\ d.bytes = c.bytes
      /\ CC!ToSet(d.order) = CC!ToSet(c.order) /\ Len(d.order) = Len(c.order)
      /\ Ascending(d.order, v, {})
  BY SessionTouched DEF Touches
<1> QED
  BY <1>1 DEF Tidy, Filled, InLimits, Fits

LEMMA AscendingBut ==
  ASSUME NEW q, NEW u, Ascending(q, u, {}), NEW X
  PROVE  Ascending(q, u, X)
BY DEF Ascending

LEMMA TidyUse ==
  ASSUME NEW c, NEW u, Tidy(c, u), Fits(c), NEW s \in Clients, NEW k \in Keys,
         k \in CC!ToSet(c.entries[s]), time \in Nat, NEW v, UsedLast(u, v, s),
         NEW d, d = CC!UseEntry(c, s, k)
  PROVE  Tidy(d, v) /\ Fits(d)
<1>1. PICK e : e = [c EXCEPT !.entries[s] = Append(CC!RemoveFirst(@, k), k)]
  OBVIOUS
<1>2. d = CC!TouchSession(e, s)
  BY <1>1 DEF CC!UseEntry
<1>3. /\ Counted(e) /\ SameBut(c, e, s) /\ e.entries[s] # <<>> /\ e.own = c.own
      /\ e.bytes = c.bytes /\ s \in CC!ToSet(c.order) /\ Len(e.entries[s]) = Len(c.entries[s])
  <2>1. Counted(c) /\ MovesEntry(c, e, s, k)
    BY <1>1 DEF Tidy, MovesEntry
  <2>2. UsesEntry(c, e, s)
    BY <2>1, EntryUsed
  <2> QED
    BY <2>2 DEF UsesEntry
<1>4. e.order = c.order /\ \A r \in Clients : r # s => e.entries[r] = c.entries[r]
  BY <1>3 DEF SameBut
<1>5. CC!ToSet(c.order) \subseteq Clients
  BY PlacesOf DEF Tidy, Counted, Caches
<1>6. Filled(e)
  BY <1>3, <1>4, <1>5 DEF Tidy, Filled
<1>7. \A r \in Clients : InLimits(e, r)
  BY <1>3, <1>4 DEF Tidy, InLimits
<1>8. Ascending(e.order, u, {s})
  BY <1>4, AscendingBut DEF Tidy
<1>9. Fits(e)
  BY <1>3, <1>4 DEF Fits
<1>10. s \in CC!ToSet(e.order)
  BY <1>3, <1>4
<1> QED
  BY <1>2, <1>3, <1>6, <1>7, <1>8, <1>9, <1>10, TidyTouch

LEMMA TidyPut ==
  ASSUME NEW c, NEW u, Tidy(c, u), Fits(c), NEW s \in Clients, NEW k \in Keys,
         NEW n \in Nat, time \in Nat, NEW v, UsedLast(u, v, s),
         NEW p, p = CC!Put(c, s, k, n), NEW d, d = CC!Evict(p, s)
  PROVE  Tidy(d, v) /\ Fits(d)
<1>1. Counted(c) /\ Ascending(c.order, u, {s}) /\ CC!ToSet(c.order) \subseteq Clients
  BY AscendingBut, PlacesOf DEF Tidy, Counted, Caches
<1>2. /\ Counted(p) /\ s \in CC!ToSet(p.order)
      /\ Len(p.order) <= Len(c.order) + 1
      /\ CC!ToSet(p.order) = CC!ToSet(c.order) \cup {s}
      /\ \A r \in Clients : r # s => p.entries[r] = c.entries[r] /\ p.own[r] = c.own[r]
      /\ Ascending(p.order, u, {s})
  <2>1. PutsIn(c, p, s)
    BY <1>1, EntryPut
  <2> QED
    BY <1>1, <2>1 DEF PutsIn
<1>3. PICK e : e = CC!EvictSessionEntries(p, s)
  OBVIOUS
<1>4. Counted(e) /\ SameBut(p, e, s) /\ InLimits(e, s)
  BY <1>2, <1>3, SessionEvicted
<1>5. /\ e.order = p.order
      /\ \A r \in Clients : r # s => e.entries[r] = c.entries[r] /\ e.own[r] = c.own[r]
  BY <1>2, <1>4 DEF SameBut
<1>6. \A r \in CC!ToSet(e.order) : r # s => e.entries[r] # <<>>
  BY <1>1, <1>2, <1>5 DEF Tidy, Filled
<1>7. \A r \in Clients : InLimits(e, r)
  BY <1>4, <1>5 DEF Tidy, InLimits
<1>8. CASE e.entries[s] # <<>>
  <2>1. PICK t : t = CC!TouchSession(e, s)
    OBVIOUS
  <2>2. d = CC!EvictGlobal(t)
    BY <1>3, <1>8, <2>1 DEF CC!Evict
  <2>3. Filled(e) /\ s \in CC!ToSet(e.order) /\ Ascending(e.order, u, {s})
    BY <1>2, <1>5, <1>6, <1>8 DEF Filled
  <2>4. Tidy(t, v)
    BY <1>4, <1>7, <2>1, <2>3, TidyTouch
  <2> QED
    BY <2>2, <2>4, AllEvicted
<1>9. CASE e.entries[s] = <<>>
  <2>1. d = CC!RemoveSession(e, s)
    BY <1>3, <1>9 DEF CC!Evict
  <2>2. LosesSession(e, d, s)
    BY <1>4, <2>1, SessionGone
  <2>3. /\ Counted(d)
        /\ CC!ToSet(d.order) = CC!ToSet(e.order) \ {s}
        /\ Ascending(d.order, u, {s})
        /\ \A r \in Clients : r # s => d.entries[r] = e.entries[r] /\ d.own[r] = e.own[r]
        /\ d.entries[s] = <<>> /\ d.own[s] = 0
        /\ Len(d.order) = Len(e.order) - 1
    BY <1>2, <1>5, <2>2 DEF LosesSession
  <2> DEFINE R == CC!ToSet(c.order) \ {s}
  <2>4. CC!ToSet(d.order) = R
    BY <1>2, <1>5, <2>3
  <2>5. Filled(d)
    BY <1>5, <1>6, <2>3, <2>4, <1>1 DEF Filled
  <2>6. \A r \in Clients : InLimits(d, r)
    <3> SUFFICES ASSUME NEW r \in Clients PROVE InLimits(d, r)
      OBVIOUS
    <3>1. CASE r = s
      <4>1. Len(d.entries[r]) = 0 /\ d.own[r] = 0
        BY <2>3, <3>1, EmptySeq
      <4> QED
        BY <4>1, LimitsNatural DEF InLimits
    <3>2. CASE r # s
      BY <1>7, <2>3, <3>2 DEF InLimits
    <3> QED
      BY <3>1, <3>2
  <2>7. Ascending(d.order, v, {})
    <3>1. d.order \in Seq(Clients)
      BY <2>3 DEF Counted, Caches
    <3>2. \A i \in DOMAIN d.order : d.order[i] \in Clients /\ d.order[i] # s
      <4>1. /\ DOMAIN d.order = 1..Len(d.order)
            /\ CC!ToSet(d.order) = {d.order[i] : i \in 1..Len(d.order)}
            /\ CC!ToSet(d.order) \subseteq Clients
        BY <3>1, PlacesOf
      <4> QED
        BY <2>3, <4>1
    <3> QED
      BY <2>3, <3>2 DEF Ascending, UsedLast
  <2>8. d.bytes <= c.bytes /\ c.bytes \in Nat /\ d.bytes \in Nat
    <3>1. /\ IsFiniteSet(CC!ToSet(c.order)) /\ c.own \in [Clients -> Nat]
          /\ c.bytes = SumFunctionOnSet(c.own, CC!ToSet(c.order)) /\ c.bytes \in Nat
      BY <1>1, SetOfSequence DEF Counted, Caches
    <3>2. d.bytes = SumFunctionOnSet(d.own, R) /\ d.bytes \in Nat
      BY <2>3, <2>4 DEF Counted, Caches
    <3>3. IsFiniteSet(R) /\ \A r \in R : d.own[r] = c.own[r]
      BY <1>1, <1>5, <2>3, <3>1, FS_Subset
    <3> HIDE DEF R
    <3>4. SumFunctionOnSet(d.own, R) = SumFunctionOnSet(c.own, R)
      BY <3>3, SumSame
    <3>5. CASE s \in CC!ToSet(c.order)
      <4>1. PICK T : T = CC!ToSet(c.order)
        OBVIOUS
      <4>2. IsFiniteSet(T) /\ s \in T /\ \A r \in T : c.own[r] \in Nat
        BY <1>1, <3>1, <3>5, <4>1
      <4>3. SumFunctionOnSet(c.own, T) = c.own[s] + SumFunctionOnSet(c.own, T \ {s})
        BY <4>2, SumWithout
      <4>4. R = T \ {s}
        BY <4>1 DEF R
      <4> QED
        BY <3>1, <3>2, <3>4, <4>1, <4>2, <4>3, <4>4
    <3>6. CASE s \notin CC!ToSet(c.order)
      <4>1. R = CC!ToSet(c.order)
        BY <3>6 DEF R
      <4> QED
        BY <3>1, <3>2, <3>4, <4>1
    <3> QED
      BY <3>5, <3>6
  <2>9. Len(d.order) <= Len(c.order)
    <3>1. Len(c.order) \in Nat /\ Len(p.order) \in Nat
      BY <1>1, <1>2, LenProperties DEF Counted, Caches
    <3> QED
      BY <1>2, <1>5, <2>3, <3>1
  <2>10. Fits(d)
    <3>1. Len(c.order) \in Nat /\ Len(d.order) \in Nat
      BY <1>1, <2>3, LenProperties DEF Counted, Caches
    <3> QED
      BY <2>8, <2>9, <3>1, LimitsNatural DEF Fits
  <2> QED
    BY <2>3, <2>5, <2>6, <2>7, <2>10 DEF Tidy
<1> QED
  BY <1>8, <1>9
-----------------------------------------------------------------------------
(* The invariant of the continuation cache.                                *)
ContInv ==
    /\ Tidy(cache, used) /\ Fits(cache)
    /\ time \in Nat /\ used \in [Clients -> Nat]
    /\ \A s \in Clients : used[s] <= time

LEMMA ContStarts == CC!ContInit => ContInv
<1> SUFFICES ASSUME CC!ContInit PROVE ContInv
  OBVIOUS
<1>1. PICK c : c = cache
  OBVIOUS
<1>2. /\ c = [order |-> <<>>, entries |-> [s \in Clients |-> <<>>],
              size |-> [s \in Clients |-> CC!NoSizes], own |-> [s \in Clients |-> 0],
              touched |-> [s \in Clients |-> 0], bytes |-> 0]
      /\ time = 0 /\ used = [s \in Clients |-> 0]
  BY <1>1 DEF CC!ContInit
<1>3. /\ c.order = <<>> /\ c.bytes = 0
      /\ \A s \in Clients : c.entries[s] = <<>> /\ c.own[s] = 0
  BY <1>2
<1>4. c \in Caches
  <2>1. /\ [s \in Clients |-> <<>>] \in [Clients -> Seq(Keys)] /\ <<>> \in Seq(Clients)
    BY EmptySeq
  <2>2. [s \in Clients |-> CC!NoSizes] \in [Clients -> [Keys -> Nat]]
    BY NothingKept
  <2> QED
    BY <1>2, <2>1, <2>2 DEF Caches
<1>5. Counted(c)
  BY <1>3, <1>4, NothingKept DEF Counted
<1>6. Len(c.order) = 0 /\ \A s \in Clients : Len(c.entries[s]) = 0
  BY <1>3, EmptySeq
<1>7. Filled(c) /\ Ascending(c.order, used, {})
  <2>1. DOMAIN <<>> = {}
    BY EmptySeq, LenProperties
  <2> QED
    BY <1>3, <2>1, NothingKept DEF Filled, Ascending
<1>8. Tidy(c, used) /\ Fits(c)
  BY <1>3, <1>5, <1>6, <1>7, LimitsNatural DEF Tidy, Fits, InLimits
<1> QED
  BY <1>1, <1>2, <1>8 DEF ContInv

LEMMA ContStep == ASSUME ContInv, [CC!ContNext]_(CC!contVars) PROVE ContInv'
<1>1. PICK c, u : c = cache /\ u = used
  OBVIOUS
<1>2. Tidy(c, u) /\ Fits(c) /\ time \in Nat /\ u \in [Clients -> Nat]
      /\ \A s \in Clients : u[s] <= time
  BY <1>1 DEF ContInv
<1>3. ASSUME NEW d, NEW v, d = cache', v = used', Tidy(d, v), Fits(d), time' \in Nat,
             v \in [Clients -> Nat], \A s \in Clients : v[s] <= time'
      PROVE  ContInv'
  <2>1. Tidy(cache', used') /\ Fits(cache')
    BY <1>3
  <2>2. Tidy(cache, used)' /\ Fits(cache)'
    BY <2>1 DEF Tidy, Fits, Counted, Filled, InLimits, Ascending
  <2> QED
    BY <1>3, <2>2 DEF ContInv
<1>4. CASE cache' = cache /\ used' = used /\ time' \in Nat /\ time <= time'
  <2>1. Tidy(cache', used') /\ Fits(cache')
    BY <1>1, <1>2, <1>4
  <2> QED
    BY <1>1, <1>2, <1>3, <1>4, <2>1
<1>5. CASE UNCHANGED CC!contVars
  BY <1>2, <1>4, <1>5 DEF CC!contVars
<1>6. CASE CC!Wait
  BY <1>2, <1>4, <1>6 DEF CC!Wait
<1>7. ASSUME NEW s \in Clients, CC!ResetSession(s) PROVE ContInv'
  <2>1. PICK d : d = CC!RemoveSession(c, s)
    OBVIOUS
  <2>2. Tidy(d, u) /\ Fits(d)
    BY <1>2, <2>1, TidyRemoval
  <2>3. d = cache' /\ u = used' /\ time' = time
    BY <1>1, <1>7, <2>1 DEF CC!ResetSession
  <2> QED
    BY <1>2, <1>3, <2>2, <2>3
<1>8. PICK p : p = CC!PruneExpired(c)
  OBVIOUS
<1>9. Tidy(p, u) /\ Fits(p)
  BY <1>2, <1>8, TidyPrune
<1>10. ASSUME NEW s \in Clients, NEW v, v = [u EXCEPT ![s] = time]
       PROVE  UsedLast(u, v, s) /\ v \in [Clients -> Nat] /\ \A r \in Clients : v[r] <= time
  BY <1>2, <1>10 DEF UsedLast
<1>11. ASSUME NEW s \in Clients, NEW k \in Keys, CC!Get(s, k) PROVE ContInv'
  <2>1. /\ cache' = IF CC!Keeps(p, s, k) THEN CC!UseEntry(p, s, k) ELSE p
        /\ used' = IF CC!Keeps(p, s, k) THEN [u EXCEPT ![s] = time] ELSE u
        /\ time' = time
    BY <1>1, <1>8, <1>11 DEF CC!Get
  <2>2. CASE CC!Keeps(p, s, k)
    <3>1. k \in CC!ToSet(p.entries[s])
      BY <1>9, <2>2, PlacesOf DEF Tidy, Counted, Caches, CC!Keeps
    <3>2. PICK d, v : d = CC!UseEntry(p, s, k) /\ v = [u EXCEPT ![s] = time]
      OBVIOUS
    <3>3. UsedLast(u, v, s) /\ v \in [Clients -> Nat] /\ \A r \in Clients : v[r] <= time
      BY <1>10, <3>2
    <3>4. Tidy(d, v) /\ Fits(d)
      BY <1>2, <1>9, <3>1, <3>2, <3>3, TidyUse
    <3> QED
      BY <1>2, <1>3, <2>1, <2>2, <3>2, <3>3, <3>4
  <2>3. CASE ~CC!Keeps(p, s, k)
    BY <1>2, <1>3, <1>9, <2>1, <2>3
  <2> QED
    BY <2>2, <2>3
<1>12. ASSUME NEW s \in Clients, NEW k \in Keys, NEW n \in Sizes, CC!Set(s, k, n)
       PROVE  ContInv'
  <2>1. PICK e, d, v : /\ e = CC!Put(p, s, k, n) /\ d = CC!Evict(e, s)
                       /\ v = [u EXCEPT ![s] = time]
    OBVIOUS
  <2>2. cache' = d /\ used' = v /\ time' = time
    BY <1>1, <1>8, <1>12, <2>1 DEF CC!Set
  <2>3. UsedLast(u, v, s) /\ v \in [Clients -> Nat] /\ \A r \in Clients : v[r] <= time
    BY <1>10, <2>1
  <2>4. n \in Nat
    BY LimitsNatural
  <2>5. Tidy(d, v) /\ Fits(d)
    BY <1>2, <1>9, <2>1, <2>3, <2>4, TidyPut
  <2> QED
    BY <1>2, <1>3, <2>2, <2>3, <2>5
<1> QED
  BY <1>5, <1>6, <1>7, <1>11, <1>12 DEF CC!ContNext

LEMMA SumOfContinuation == ASSUME NEW f, NEW S
                           PROVE CC!SumFunctionOnSet(f, S) = SumFunctionOnSet(f, S)
BY DEF CC!SumFunctionOnSet, SumFunctionOnSet, CC!FoldFunctionOnSet, FoldFunctionOnSet,
       CC!MapThenFoldSet, MapThenFoldSet

LEMMA ContTells == ASSUME ContInv PROVE CC!CountsExact /\ CC!OrderIsUse
<1>1. /\ Counted(cache) /\ Filled(cache) /\ Fits(cache) /\ Ascending(cache.order, used, {})
      /\ \A s \in Clients : InLimits(cache, s)
  BY DEF ContInv, Tidy
<1>2. CC!OrderIsUse
  BY <1>1 DEF Ascending, CC!OrderIsUse
<1>3. /\ cache.bytes = SumFunctionOnSet(cache.own, CC!ToSet(cache.order))
      /\ \A s \in Clients :
            cache.own[s] = SumFunctionOnSet(cache.size[s], CC!ToSet(cache.entries[s]))
  BY <1>1 DEF Counted
<1>4. \A s \in Clients : cache.entries[s] # <<>> <=> CC!Known(cache, s)
  <2>1. \A s \in Clients : CC!Known(cache, s) <=> s \in CC!ToSet(cache.order)
    BY <1>1, PlacesOf DEF Counted, Caches, CC!Known
  <2> QED
    BY <1>1, <2>1 DEF Counted, Filled
<1>5. \A s \in Clients : CC!IsInjective(cache.entries[s])
  BY <1>1 DEF Counted
<1> QED
  BY <1>1, <1>2, <1>3, <1>4, <1>5, SumOfContinuation DEF CC!CountsExact, Fits, InLimits

-----------------------------------------------------------------------------
(* The source cache: the file of the reference is being written, or names  *)
(* a blob that exists; and so does a call that is about to write it.       *)
FileIs(f) ==
    /\ f = [file |-> f.file, src |-> f.src, time |-> f.time]
    /\ f.src \in blobs \cup {Torn}

CallIs(m) ==
    /\ m = [at |-> m.at, src |-> m.src, time |-> m.time, file |-> m.file, since |-> m.since]
    /\ m.at \in {"rename", "open", "write"} => m.src \in blobs

SourceInv ==
    /\ ref # None => FileIs(ref)
    /\ DOMAIN call = Calls
    /\ \A c \in Calls : CallIs(call[c])

LEMMA SourceStarts == DS!Init => SourceInv
BY DEF DS!Init, DS!New, SourceInv, CallIs

(* A call that goes on, and what it holds.                                 *)
LEMMA CallGoesOn ==
  ASSUME SourceInv, NEW c \in Calls, NEW m, call' = [call EXCEPT ![c] = m],
         m = [at |-> m.at, src |-> m.src, time |-> m.time, file |-> m.file, since |-> m.since],
         m.at \in {"rename", "open", "write"} => m.src \in blobs',
         blobs \subseteq blobs', ref' # None => FileIs(ref)'
  PROVE  SourceInv'
<1>1. DOMAIN call' = Calls
  BY DEF SourceInv
<1>2. \A d \in Calls : call'[d] = IF d = c THEN m ELSE call[d]
  BY DEF SourceInv
<1>3. \A d \in Calls : CallIs(call[d])'
  BY <1>2 DEF SourceInv, CallIs
<1> QED
  BY <1>1, <1>3 DEF SourceInv

LEMMA CallMoves ==
  ASSUME SourceInv, NEW c \in Calls, NEW from, NEW to, DS!Step(c, from, to),
         to \in {"rename", "open", "write"} => call[c].src \in blobs',
         blobs \subseteq blobs', ref' # None => FileIs(ref)'
  PROVE  SourceInv'
<1>1. PICK m : m = [call[c] EXCEPT !.at = to]
  OBVIOUS
<1>2. call' = [call EXCEPT ![c] = m]
  BY <1>1 DEF DS!Step
<1>3. CallIs(call[c])
  BY DEF SourceInv
<1>4. /\ m = [at |-> m.at, src |-> m.src, time |-> m.time, file |-> m.file, since |-> m.since]
      /\ m.at = to /\ m.src = call[c].src
  BY <1>1, <1>3 DEF CallIs
<1>5. m.at \in {"rename", "open", "write"} => m.src \in blobs'
  BY <1>4
<1> QED
  BY <1>2, <1>4, <1>5, CallGoesOn

LEMMA SourceStep == ASSUME SourceInv, [DS!Next]_(DS!vars) PROVE SourceInv'
<1>0. /\ ref # None => FileIs(ref)
      /\ \A c \in Calls : CallIs(call[c])
  BY DEF SourceInv
<1>1. UNCHANGED <<ref, blobs>> => (ref' # None => FileIs(ref)')
  BY <1>0 DEF FileIs
<1>2. CASE DS!Tick \/ UNCHANGED DS!vars
  BY <1>2 DEF DS!Tick, DS!vars, SourceInv, FileIs, CallIs
<1>3. CASE DS!Crash
  <2>1. /\ UNCHANGED <<ref, blobs>>
        /\ call' = [c \in Calls |-> IF call[c].at = "new" THEN DS!New
                                    ELSE [call[c] EXCEPT !.at = "done"]]
    BY <1>3 DEF DS!Crash
  <2>2. \A c \in Calls : CallIs(call[c])'
    <3> SUFFICES ASSUME NEW c \in Calls PROVE CallIs(call[c])'
      OBVIOUS
    <3>1. CASE call[c].at = "new"
      BY <2>1, <3>1 DEF DS!New, CallIs
    <3>2. CASE call[c].at # "new"
      <4>1. PICK m : m = [call[c] EXCEPT !.at = "done"]
        OBVIOUS
      <4>2. call'[c] = m
        BY <2>1, <3>2, <4>1
      <4>3. /\ m = [at |-> m.at, src |-> m.src, time |-> m.time, file |-> m.file,
                    since |-> m.since]
            /\ m.at = "done"
        <5>1. PICK n : n = call[c]
          OBVIOUS
        <5>2. n = [at |-> n.at, src |-> n.src, time |-> n.time, file |-> n.file,
                   since |-> n.since]
          BY <1>0, <5>1 DEF CallIs
        <5> QED
          BY <4>1, <5>1, <5>2
      <4> QED
        BY <4>2, <4>3 DEF CallIs
    <3> QED
      BY <3>1, <3>2
  <2>3. DOMAIN call' = Calls
    BY <2>1
  <2> QED
    BY <1>1, <2>1, <2>2, <2>3 DEF SourceInv
<1>4. ASSUME NEW c \in Calls, DS!BeginPut(c) PROVE SourceInv'
  <2>1. PICK s \in Values : call' = [call EXCEPT ![c] =
                                [DS!New EXCEPT !.at = "blob", !.src = s, !.time = clock2]]
    BY <1>4 DEF DS!BeginPut
  <2>2. PICK m : m = [DS!New EXCEPT !.at = "blob", !.src = s, !.time = clock2]
    OBVIOUS
  <2>3. /\ m = [at |-> m.at, src |-> m.src, time |-> m.time, file |-> m.file, since |-> m.since]
        /\ m.at = "blob"
    BY <2>2 DEF DS!New
  <2>4. UNCHANGED <<ref, blobs>>
    BY <1>4 DEF DS!BeginPut
  <2> QED
    BY <1>1, <2>1, <2>2, <2>3, <2>4, CallGoesOn
<1>5. ASSUME NEW c \in Calls, DS!PutBlob(c) PROVE SourceInv'
  <2>1. DS!Step(c, "blob", "rename") /\ blobs' = blobs \cup {call[c].src} /\ ref' = ref
    BY <1>5 DEF DS!PutBlob
  <2>2. ref' # None => FileIs(ref)'
    BY <1>0, <2>1 DEF FileIs
  <2> QED
    BY <2>1, <2>2, CallMoves
<1>6. ASSUME NEW c \in Calls, DS!PutRef(c) PROVE SourceInv'
  <2>1. /\ DS!Step(c, "rename", "done") /\ blobs' = blobs
        /\ ref' = [file |-> names', src |-> call[c].src, time |-> call[c].time]
    BY <1>6 DEF DS!PutRef
  <2>2. call[c].src \in blobs
    BY <1>0, <2>1 DEF DS!Step, CallIs
  <2>3. FileIs(ref)'
    BY <2>1, <2>2 DEF FileIs
  <2> QED
    BY <2>1, <2>3, CallMoves
<1>7. ASSUME NEW c \in Calls, DS!PutFails(c) \/ DS!NotFound(c) \/ DS!ResolveFails(c)
      PROVE  SourceInv'
  <2>1. UNCHANGED <<ref, blobs>>
    BY <1>7 DEF DS!PutFails, DS!NotFound, DS!ResolveFails
  <2>2. PICK from, to : DS!Step(c, from, to) /\ to \in {"done", "drop"}
    BY <1>7 DEF DS!PutFails, DS!NotFound, DS!ResolveFails, DS!Answer
  <2> QED
    BY <1>1, <2>1, <2>2, CallMoves
<1>8. ASSUME NEW c \in Calls, DS!ReadRef(c) PROVE SourceInv'
  <2>1. PICK m : m = [DS!New EXCEPT !.at = IF DS!Expired(ref.time) THEN "drop" ELSE "read",
                                    !.src = ref.src, !.since = current]
    OBVIOUS
  <2>2. call' = [call EXCEPT ![c] = m] /\ UNCHANGED <<ref, blobs>>
    BY <1>8, <2>1 DEF DS!ReadRef
  <2>3. /\ m = [at |-> m.at, src |-> m.src, time |-> m.time, file |-> m.file, since |-> m.since]
        /\ m.at \in {"drop", "read"}
    BY <2>1 DEF DS!New
  <2> QED
    BY <1>1, <2>2, <2>3, CallGoesOn
<1>9. ASSUME NEW c \in Calls, DS!ReadBlob(c) PROVE SourceInv'
  <2>1. PICK to : to = IF call[c].src \in blobs THEN "open" ELSE "drop"
    OBVIOUS
  <2>2. DS!Step(c, "read", to) /\ UNCHANGED <<ref, blobs>>
    BY <1>9, <2>1 DEF DS!ReadBlob
  <2> QED
    BY <1>1, <2>1, <2>2, CallMoves
<1>10. ASSUME NEW c \in Calls, DS!Open(c) PROVE SourceInv'
  <2>1. PICK m : m = [call[c] EXCEPT !.at = "write", !.file = ref'.file, !.time = clock2]
    OBVIOUS
  <2>2. /\ call[c].at = "open" /\ call' = [call EXCEPT ![c] = m] /\ blobs' = blobs
        /\ ref' = [file |-> IF ref = None THEN names' ELSE ref.file, src |-> Torn,
                   time |-> clock2]
    BY <1>10, <2>1 DEF DS!Open
  <2>3. /\ m = [at |-> m.at, src |-> m.src, time |-> m.time, file |-> m.file, since |-> m.since]
        /\ m.src \in blobs
    <3>1. PICK n : n = call[c]
      OBVIOUS
    <3>2. /\ n = [at |-> n.at, src |-> n.src, time |-> n.time, file |-> n.file,
                  since |-> n.since]
          /\ n.at = "open" => n.src \in blobs
      BY <1>0, <3>1 DEF CallIs
    <3> QED
      BY <2>1, <2>2, <3>1, <3>2
  <2>4. FileIs(ref)'
    BY <2>2 DEF FileIs
  <2> QED
    BY <2>2, <2>3, <2>4, CallGoesOn
<1>11. ASSUME NEW c \in Calls, DS!Write(c) PROVE SourceInv'
  <2>1. /\ DS!Step(c, "write", "done") /\ blobs' = blobs
        /\ ref' = IF ref = None THEN None
                  ELSE IF ref.file # call[c].file THEN ref
                  ELSE [ref EXCEPT !.src = call[c].src, !.time = call[c].time]
    BY <1>11 DEF DS!Write, DS!Answer
  <2>2. call[c].src \in blobs
    BY <1>0, <2>1 DEF DS!Step, CallIs
  <2>3. ref' # None => FileIs(ref)'
    <3>1. CASE ref' = ref
      BY <1>0, <2>1, <3>1 DEF FileIs
    <3>2. CASE ref # None /\ ref' = [ref EXCEPT !.src = call[c].src, !.time = call[c].time]
      <4>1. FileIs(ref)
        BY <1>0, <3>2
      <4>2. PICK f, g : f = ref /\ g = ref'
        OBVIOUS
      <4>3. g = [file |-> g.file, src |-> g.src, time |-> g.time] /\ g.src = call[c].src
        BY <3>2, <4>1, <4>2 DEF FileIs
      <4> QED
        BY <2>1, <2>2, <4>2, <4>3 DEF FileIs
    <3> QED
      BY <2>1, <3>1, <3>2
  <2> QED
    BY <2>1, <2>3, CallMoves
<1>12. ASSUME NEW c \in Calls, DS!Drop(c) PROVE SourceInv'
  <2>1. DS!Step(c, "drop", "done") /\ blobs' = blobs /\ ref' \in {None, ref}
    BY <1>12 DEF DS!Drop, DS!Answer
  <2>2. ref' # None => FileIs(ref)'
    BY <1>0, <2>1 DEF FileIs
  <2> QED
    BY <2>1, <2>2, CallMoves
<1> QED
  BY <1>2, <1>3, <1>4, <1>5, <1>6, <1>7, <1>8, <1>9, <1>10, <1>11, <1>12 DEF DS!Next

LEMMA SourceTells == SourceInv => DS!RefHasBlob
BY DEF SourceInv, FileIs, DS!RefHasBlob, DS!Whole

-----------------------------------------------------------------------------
(* A filter leaves no more than there was.                                 *)
LEMMA PartIsShorter ==
  ASSUME NEW S, NEW q \in Seq(S), NEW I \in SUBSET DOMAIN q
  PROVE  Subsequence(q, I) \in Seq(S) /\ Len(Subsequence(q, I)) <= Len(q)
<1>0. Len(q) \in Nat /\ DOMAIN q = 1..Len(q)
  BY LenProperties
<1>1. I \in SUBSET (1..Len(q)) /\ IsFiniteSet(1..Len(q))
  BY <1>0, FS_Interval
<1>2. Cardinality(I) <= Cardinality(1..Len(q)) /\ Cardinality(1..Len(q)) = Len(q)
  BY <1>0, <1>1, FS_Subset, IndicesCount
<1> QED
  BY <1>2, SubsequenceType

LEMMA SequenceIs ==
  ASSUME NEW S, NEW q \in Seq(S)
  PROVE  Len(q) \in Nat /\ q \in [1..Len(q) -> S]
BY LenProperties

LEMMA FunctionIs ==
  ASSUME NEW S, NEW n \in Nat, NEW f \in [1..n -> S]
  PROVE  f \in Seq(S) /\ Len(f) = n
OBVIOUS

LEMMA TrimFits ==
  ASSUME NEW S, NEW q \in Seq(S), NEW x \in S, NEW max \in Nat, Len(q) <= max
  PROVE  Trim(Append(q, x), max) \in Seq(S) /\ Len(Trim(Append(q, x), max)) <= max
<1> DEFINE r == Append(q, x)
<1>1. Len(q) \in Nat /\ r \in Seq(S) /\ Len(r) = Len(q) + 1
  BY LenProperties, AppendProperties
<1>2. r # <<>> /\ Tail(r) \in Seq(S) /\ Len(Tail(r)) = Len(r) - 1
  BY <1>1, HeadTailProperties, EmptySeq
<1> HIDE DEF r
<1>3. CASE Len(r) > max
  BY <1>1, <1>2, <1>3 DEF Trim, r
<1>4. CASE ~(Len(r) > max)
  BY <1>1, <1>4 DEF Trim, r
<1> QED
  BY <1>3, <1>4

(* The sizes of the Maps of sessions, and the ledgers that exist.          *)
EntryIn(n) == [session : Sessions, ledger : 1..n, expiresAt : Nat]

LedgerSizes ==
    /\ ledgers \in Seq(EntryIn(Len(size))) /\ Len(ledgers) <= MaxSessions
    /\ size \in Seq(0..MaxSize)
    /\ held \in [Requests -> 1..Len(size) \cup {Waiting, Refused}]
    /\ \A s \in Sessions : lastUse[s].ledger \in 0..Len(size)

MapSizes ==
    /\ ownerOrder \in Seq(Sessions) /\ Len(ownerOrder) <= MaxRemembered
    /\ Len(shown) <= MaxRemembered

LEMMA LimitsAre == MaxSessions \in Nat /\ MaxRemembered \in Nat /\ MaxSize \in Nat /\ TTL \in Nat
BY LimitsAssumption

LEMMA TypesAre == BannerInv /\ LedgerSizes /\ MapSizes => TypeOK
BY DEF TypeOK, BannerInv, BannerTypes, LedgerSizes, MapSizes, EntryIn

LEMMA SizesStart == Init => LedgerSizes /\ MapSizes
<1> SUFFICES ASSUME Init PROVE LedgerSizes /\ MapSizes
  OBVIOUS
<1>1. /\ ownerOrder = <<>> /\ shown = <<>> /\ ledgers = <<>> /\ size = <<>>
      /\ held = [r \in Requests |-> Waiting] /\ lastUse = [s \in Sessions |-> NeverUsed]
  BY DEF Init
<1>2. \A S : <<>> \in Seq(S)
  BY EmptySeq
<1>3. Len(<<>>) = 0
  BY EmptySeq
<1>4. NeverUsed.ledger = 0
  BY DEF NeverUsed
<1>5. LedgerSizes
  BY <1>1, <1>2, <1>3, <1>4, LimitsAre DEF LedgerSizes
<1>6. MapSizes
  BY <1>1, <1>2, <1>3, LimitsAre DEF MapSizes
<1> QED
  BY <1>5, <1>6

LEMMA MapSizesKept == ASSUME BannerInv, MapSizes, [Next]_vars PROVE MapSizes'
<1>1. shown \in Seq(Sessions) /\ session \in [Requests -> Sessions]
  BY DEF BannerInv, BannerTypes
<1>2. ASSUME NEW s \in Sessions, Unreserve(s)
      PROVE  ownerOrder' \in Seq(Sessions) /\ Len(ownerOrder') <= MaxRemembered
  <2> DEFINE I == {i \in DOMAIN ownerOrder : ownerOrder[i] # s}
  <2>1. ownerOrder' = Subsequence(ownerOrder, I) /\ I \in SUBSET DOMAIN ownerOrder
    BY <1>2 DEF Unreserve, Select
  <2>2. ownerOrder \in Seq(Sessions) /\ Len(ownerOrder) <= MaxRemembered
    BY DEF MapSizes
  <2> HIDE DEF I
  <2>3. ownerOrder' \in Seq(Sessions) /\ Len(ownerOrder') <= Len(ownerOrder)
    BY <2>1, <2>2, PartIsShorter
  <2> QED
    BY <2>2, <2>3, LimitsAre, LenProperties
<1>3. ASSUME NEW r \in Requests, Reserve(r) PROVE MapSizes'
  <2>1. ownerOrder' = Trim(Append(ownerOrder, session[r]), MaxRemembered) /\ shown' = shown
    BY <1>3 DEF Reserve
  <2>2. ownerOrder' \in Seq(Sessions) /\ Len(ownerOrder') <= MaxRemembered
    BY <1>1, <2>1, TrimFits, LimitsAre DEF MapSizes
  <2> QED
    BY <2>1, <2>2 DEF MapSizes
<1>4. ASSUME NEW r \in Requests, ReleaseBanner(r), shown' = shown PROVE MapSizes'
  <2>1. CASE Unreserve(session[r])
    BY <1>1, <1>2, <1>4, <2>1 DEF MapSizes
  <2>2. CASE UNCHANGED ownerOrder
    BY <1>4, <2>2 DEF MapSizes
  <2> QED
    BY <1>4, <2>1, <2>2 DEF ReleaseBanner
<1>5. ASSUME NEW r \in Requests, Commit(r) PROVE MapSizes'
  <2>1. CASE /\ Unreserve(session[r])
             /\ shown' = Trim(Append(shown, session[r]), MaxRemembered)
    <3>1. Len(shown') <= MaxRemembered
      BY <1>1, <2>1, TrimFits, LimitsAre DEF MapSizes
    <3> QED
      BY <1>1, <1>2, <2>1, <3>1 DEF MapSizes
  <2>2. CASE ReleaseBanner(r) /\ shown' = shown
    BY <1>4, <2>2
  <2> QED
    BY <1>5, <2>1, <2>2 DEF Commit
<1>6. CASE UNCHANGED <<ownerOrder, shown>>
  BY <1>6 DEF MapSizes
<1>7. CASE (\E r \in Requests : Skip(r) \/ Written(r)) \/ LedgerStep \/ UNCHANGED vars
  BY <1>6, <1>7 DEF Skip, Written, LedgerStep, Tick, TakeLedger, AddTool, vars, bannerVars
<1>8. ASSUME NEW r \in Requests, NotSent(r) PROVE MapSizes'
  BY <1>4, <1>8 DEF NotSent
<1> QED
  BY <1>3, <1>5, <1>7, <1>8 DEF Next, BannerStep

LEMMA MoreLedgers ==
  ASSUME NEW n \in Nat, NEW m \in Nat, n <= m, NEW q \in Seq(EntryIn(n))
  PROVE  q \in Seq(EntryIn(m))
<1>1. EntryIn(n) \subseteq EntryIn(m)
  BY DEF EntryIn
<1> HIDE DEF EntryIn
<1>2. Len(q) \in Nat /\ q \in [1..Len(q) -> EntryIn(n)]
  BY LenProperties
<1>3. q \in [1..Len(q) -> EntryIn(m)]
  BY <1>1, <1>2
<1> QED
  BY <1>2, <1>3

LEMMA TakeKeepsSizes ==
  ASSUME LedgerInv, LedgerSizes, NEW r \in Requests, TakeLedger(r)
  PROVE  LedgerSizes'
<1> DEFINE s == session[r]
           own == {e \in Range(Live) : e.session = s}
           sizes == IF own = {} THEN Append(size, 0) ELSE size
           ledger == IF own = {} THEN Len(sizes) ELSE (CHOOSE e \in own : TRUE).ledger
           got == IF sizes[ledger] >= MaxTools THEN Refused ELSE ledger
           I == {i \in DOMAIN ledgers : ledgers[i].expiresAt > now}
           J == {i \in DOMAIN Live : Live[i].session # s}
<1>1. /\ s \in Sessions /\ size \in Seq(0..MaxSize) /\ Len(size) \in Nat /\ now \in Nat
      /\ ledgers \in Seq(EntryIn(Len(size))) /\ Len(ledgers) <= MaxSessions
      /\ Len(ledgers) \in Nat
  BY LenProperties DEF LedgerInv, LedgerTypes, LedgerSizes
<1>2. /\ size' = sizes
      /\ ledgers' = Trim(Touched(s, ledger), MaxSessions)
      /\ held' = [held EXCEPT ![r] = got]
      /\ lastUse' = [lastUse EXCEPT ![s] = UseOf(ledger)]
  BY DEF TakeLedger, UseOf, Served
<1>3. Live = Subsequence(ledgers, I) /\ I \in SUBSET DOMAIN ledgers
  BY DEF Live, Select
<1>4. /\ Live \in Seq(EntryIn(Len(size))) /\ Len(Live) <= Len(ledgers) /\ Len(Live) \in Nat
  <2> HIDE DEF I
  <2>1. Live \in Seq(EntryIn(Len(size))) /\ Len(Live) <= Len(ledgers)
    BY <1>1, <1>3, PartIsShorter
  <2> QED
    BY <2>1, LenProperties
<1>5. Rest(s) = Subsequence(Live, J) /\ J \in SUBSET DOMAIN Live
  BY DEF Rest, Select
<1>6. /\ Rest(s) \in Seq(EntryIn(Len(size))) /\ Len(Rest(s)) <= Len(Live) /\ Len(Rest(s)) \in Nat
  <2> HIDE DEF J, s
  <2>1. Rest(s) \in Seq(EntryIn(Len(size))) /\ Len(Rest(s)) <= Len(Live)
    BY <1>4, <1>5, PartIsShorter
  <2> QED
    BY <2>1, LenProperties
<1>7. /\ sizes \in Seq(0..MaxSize) /\ Len(sizes) \in Nat /\ Len(size) <= Len(sizes)
      /\ own = {} => Len(sizes) = Len(size) + 1
      /\ own # {} => sizes = size
  <2>1. 0 \in 0..MaxSize
    BY LimitsAre
  <2>2. PICK more : /\ more = Append(size, 0) /\ more \in Seq(0..MaxSize)
                    /\ Len(more) = Len(size) + 1
    BY <1>1, <2>1, AppendProperties
  <2>3. own = {} => sizes = more
    BY <2>2
  <2>4. own # {} => sizes = size
    OBVIOUS
  <2> HIDE DEF own, sizes
  <2>5. CASE own = {}
    <3>1. sizes = more
      BY <2>3, <2>5
    <3>2. sizes \in Seq(0..MaxSize)
      BY <2>2, <3>1
    <3>3. Len(sizes) = Len(size) + 1
      BY <2>2, <3>1
    <3>4. Len(size) \in Nat
      BY <1>1
    <3> QED
      BY ONLY <2>5, <3>2, <3>3, <3>4
  <2>6. CASE own # {}
    BY <1>1, <2>4, <2>6
  <2> QED
    BY <2>5, <2>6
<1>8. ledger \in 1..Len(sizes)
  <2>1. CASE own = {}
    BY <1>1, <1>7, <2>1
  <2>2. CASE own # {}
    <3>1. \A e \in Range(Live) : e \in EntryIn(Len(size))
      BY <1>4 DEF Range
    <3>2. (CHOOSE e \in own : TRUE) \in EntryIn(Len(size))
      BY <2>2, <3>1
    <3>3. sizes = size
      BY <1>7, <2>2
    <3> HIDE DEF own, sizes
    <3> QED
      BY <2>2, <3>2, <3>3 DEF EntryIn
  <2> QED
    BY <2>1, <2>2
<1>9. Touched(s, ledger) = Append(Rest(s), EntryOf(s, ledger))
  BY DEF Touched, Rest, EntryOf
<1> HIDE DEF sizes, ledger, own, s, I, J
<1>10. ledgers' \in Seq(EntryIn(Len(sizes))) /\ Len(ledgers') <= MaxSessions
  <2>1. Rest(s) \in Seq(EntryIn(Len(sizes)))
    BY <1>1, <1>6, <1>7, MoreLedgers
  <2>2. EntryOf(s, ledger) \in EntryIn(Len(sizes))
    BY <1>1, <1>8, LimitsAre DEF EntryOf, EntryIn
  <2>3. Len(Rest(s)) <= MaxSessions
    BY <1>1, <1>4, <1>6, LimitsAre
  <2> QED
    BY <1>2, <1>9, <2>1, <2>2, <2>3, TrimFits, LimitsAre
<1>11. held' \in [Requests -> 1..Len(sizes) \cup {Waiting, Refused}]
  <2>1. got \in 1..Len(sizes) \cup {Waiting, Refused}
    BY <1>8
  <2>2. held \in [Requests -> 1..Len(sizes) \cup {Waiting, Refused}]
    <3>1. 1..Len(size) \subseteq 1..Len(sizes)
      BY <1>1, <1>7
    <3> QED
      BY <3>1 DEF LedgerSizes
  <2> HIDE DEF got
  <2> QED
    BY <1>2, <2>1, <2>2
<1>12. \A t \in Sessions : lastUse'[t].ledger \in 0..Len(sizes)
  <2> SUFFICES ASSUME NEW t \in Sessions PROVE lastUse'[t].ledger \in 0..Len(sizes)
    OBVIOUS
  <2>1. lastUse \in [Sessions -> [ledger : Nat, at : Nat, turn : Nat]]
    BY DEF LedgerInv, LedgerTypes
  <2>2. CASE t = s
    <3>1. lastUse'[t] = UseOf(ledger)
      BY <1>2, <2>1, <2>2
    <3> QED
      BY <1>7, <1>8, <3>1 DEF UseOf
  <2>3. CASE t # s
    <3>1. lastUse'[t] = lastUse[t] /\ lastUse[t].ledger \in 0..Len(size)
      BY <1>2, <2>1, <2>3 DEF LedgerSizes
    <3> QED
      BY <1>1, <1>7, <3>1
  <2> QED
    BY <2>2, <2>3
<1> QED
  BY <1>2, <1>7, <1>10, <1>11, <1>12 DEF LedgerSizes

LEMMA AddKeepsSizes ==
  ASSUME LedgerInv, LedgerSizes, NEW r \in Requests, AddTool(r)
  PROVE  LedgerSizes'
<1>1. /\ held[r] \notin {Waiting, Refused} /\ size[held[r]] < MaxSize
      /\ size' = [size EXCEPT ![held[r]] = @ + 1]
      /\ ledgers' = ledgers /\ held' = held /\ lastUse' = lastUse
  BY DEF AddTool
<1>2. size \in Seq(0..MaxSize) /\ held[r] \in 1..Len(size) /\ Len(size) \in Nat
  BY <1>1, LenProperties DEF LedgerSizes
<1>3. size \in [1..Len(size) -> 0..MaxSize]
  BY <1>2, SequenceIs
<1>4. size[held[r]] + 1 \in 0..MaxSize
  BY <1>1, <1>2, <1>3, LimitsAre
<1>5. size' \in [1..Len(size) -> 0..MaxSize]
  BY <1>1, <1>3, <1>4
<1>6. size' \in Seq(0..MaxSize) /\ Len(size') = Len(size)
  BY <1>2, <1>5, FunctionIs
<1> QED
  BY <1>1, <1>6 DEF LedgerSizes

LEMMA LedgerSizesKept == ASSUME LedgerInv, LedgerSizes, [Next]_vars PROVE LedgerSizes'
<1>1. CASE UNCHANGED <<ledgers, size, held, lastUse>>
  BY <1>1 DEF LedgerSizes
<1>2. CASE BannerStep \/ Tick \/ UNCHANGED vars
  BY <1>1, <1>2 DEF BannerStep, Reserve, Skip, Written, NotSent, Commit, Tick, vars, ledgerVars
<1> QED
  BY <1>2, TakeKeepsSizes, AddKeepsSizes DEF Next, LedgerStep
-----------------------------------------------------------------------------
(* Each of the stores takes its own steps, and rests while another one     *)
(* works.                                                                  *)
LEMMA PartsStep ==
  ASSUME [StoresNext]_<<part, vars, mediaVars, sourceVars, continuationVars, recoveryVars>>
  PROVE  /\ [Next]_vars
         /\ [MC!Next]_(MC!vars)
         /\ [DS!Next]_(DS!vars)
         /\ [CC!ContNext]_(CC!contVars)
         /\ [RS!Next]_(RS!vars)
<1>1. UNCHANGED mediaVars => UNCHANGED MC!vars
  BY DEF mediaVars, MC!vars, MC!disk, MC!memory, MC!calling, MC!world
<1>2. UNCHANGED sourceVars => UNCHANGED DS!vars
  BY DEF sourceVars, DS!vars
<1>3. UNCHANGED continuationVars => UNCHANGED CC!contVars
  BY DEF continuationVars, CC!contVars
<1>4. UNCHANGED recoveryVars => UNCHANGED RS!vars
  BY DEF recoveryVars, RS!vars
<1> QED
  BY <1>1, <1>2, <1>3, <1>4 DEF StoresNext, Next

(* What is proved of each store holds for all of them together.            *)
THEOREM StoresAreParts == StoresSpec => Spec /\ MC!Spec /\ DS!Spec /\ RS!Spec
<1>1. StoresInit => Init /\ MC!Init /\ DS!Init /\ RS!Init
  BY DEF StoresInit
<1> QED
  BY <1>1, PartsStep, PTL DEF StoresSpec, Spec, MC!Spec, DS!Spec, RS!Spec

StoresInv ==
    /\ BannerInv /\ LedgerInv /\ LedgerSizes /\ MapSizes
    /\ CacheInv /\ CountInv /\ SourceInv /\ ContInv

(* The counts of the media cache and of the continuation cache, by which   *)
(* they evict, are those of what they keep, through overwriting, expiry,   *)
(* eviction, failures and restarts; a session evicted is the one used      *)
(* longest ago; a document reference names a blob that exists; and the     *)
(* Maps of sessions are bounded (media-cache.js, proxy-server.js,          *)
(* media-continuation-cache.js, document-source-cache.js).                 *)
THEOREM StoresAreConsistent == StoresSpec => []StoresConsistent
<1>1. StoresInit => StoresInv
  <2> SUFFICES ASSUME StoresInit PROVE StoresInv
    OBVIOUS
  <2>1. Init /\ MC!Init /\ DS!Init /\ CC!ContInit
    BY DEF StoresInit
  <2>2. BannerInv /\ LedgerInv /\ LedgerSizes /\ MapSizes
    BY <2>1, BannerInit, LedgersInit, SizesStart
  <2>3. CacheInv /\ CountInv
    BY <2>1, CacheStarts, CountStarts, MediaAssumption
  <2> QED
    BY <2>1, <2>2, <2>3, SourceStarts, ContStarts DEF StoresInv
<1>2. StoresInv /\ [StoresNext]_<<part, vars, mediaVars, sourceVars, continuationVars,
                                   recoveryVars>> => StoresInv'
  <2> SUFFICES ASSUME StoresInv, [StoresNext]_<<part, vars, mediaVars, sourceVars,
                                                continuationVars, recoveryVars>>
               PROVE  StoresInv'
    OBVIOUS
  <2>1. /\ [Next]_vars /\ [MC!Next]_(MC!vars) /\ [DS!Next]_(DS!vars)
        /\ [CC!ContNext]_(CC!contVars)
    BY PartsStep
  <2>2. BannerInv' /\ LedgerInv'
    BY <2>1, BannerInvKept, LedgerInvKept DEF StoresInv
  <2>3. LedgerSizes' /\ MapSizes'
    BY <2>1, LedgerSizesKept, MapSizesKept DEF StoresInv
  <2>4. CacheInv' /\ CountInv'
    <3>1. CacheInv /\ CountInv /\ MC!NoneDistinct /\ MC!SizeAssumption
      BY MediaAssumption DEF StoresInv
    <3> QED
      BY <2>1, <3>1, CountStep, CacheStep DEF Shows
  <2>5. SourceInv' /\ ContInv'
    BY <2>1, SourceStep, ContStep DEF StoresInv
  <2> QED
    BY <2>2, <2>3, <2>4, <2>5 DEF StoresInv
<1>3. StoresInv => StoresConsistent
  BY TypesAre, CountsTell, SourceTells, ContTells DEF StoresInv, StoresConsistent
<1> QED
  BY <1>1, <1>2, <1>3, PTL DEF StoresSpec
=============================================================================

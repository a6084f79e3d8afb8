---------------------------- MODULE SessionState ----------------------------
(***************************************************************************)
(* What the proxy remembers of a client session between requests: whether  *)
(* the startup banner was shown (src/src/proxy/runtime-telemetry.js, as    *)
(* maybeShowStartupBanner of src/src/services/proxy-server.js uses it) and *)
(* the ledger of executed tool calls (getSessionToolLedger).  Both are     *)
(* JavaScript Maps bounded by evicting the entry inserted first.           *)
(*                                                                         *)
(* A request tries the banner once, before its loop or, when it declares   *)
(* no tools, from the hook of the first visible progress, while the loop   *)
(* runs; so the two are not ordered here.  Requests without a session id   *)
(* reach neither Map and are left out.                                     *)
(***************************************************************************)
EXTENDS Naturals, Sequences, FiniteSets, Functions, SequencesExt, Subsequence

CONSTANTS
    Requests, Sessions,
    Nobody,         \* no request
    Waiting,        \* no ledger was asked for yet
    Refused,        \* the session's ledger was full
    MaxRemembered,  \* maxRememberedSessions
    MaxSessions,    \* sessionLedgerMaxSessions
    MaxTools,       \* sessionLedgerMaxTools
    TTL,            \* sessionLedgerTtlMs
    MaxNow,         \* bound: the clock stops here
    MaxSize         \* bound: ids added to one ledger

ASSUME NobodyAssumption == Nobody \notin Requests
ASSUME FiniteAssumption == IsFiniteSet(Requests) /\ IsFiniteSet(Sessions)
ASSUME MarksAssumption == Waiting \notin Nat \cup {Refused}
ASSUME LimitsAssumption ==
    /\ {MaxRemembered, MaxSessions, TTL} \subseteq Nat \ {0}
    /\ {MaxTools, MaxNow, MaxSize} \subseteq Nat

VARIABLES
    session,        \* the session a request names
    banner,         \* what maybeShowStartupBanner of a request has done
    owner,          \* bannerReservations: who holds a session's reservation
    ownerOrder,     \* the insertion order of bannerReservations
    shown,          \* bannerSessions, in insertion order
    epoch,          \* history: how often a session's banner entry was evicted
    since,          \* history: the epoch in which a request's reservation was made
    now,            \* Date.now()
    ledgers,        \* sessionToolLedgers, in insertion order
    size,           \* the number of ids in each ledger ever created
    held,           \* the ledger a request's loop was given
    lastUse         \* history: the last time a session took its ledger

bannerVars == <<banner, owner, ownerOrder, shown, epoch, since>>
ledgerVars == <<now, ledgers, size, held, lastUse>>
vars == <<session, bannerVars, ledgerVars>>

NeverUsed == [ledger |-> 0, at |-> 0, turn |-> 0]

TypeOK ==
    /\ session \in [Requests -> Sessions]
    /\ banner \in [Requests -> {"none", "sending", "written", "finished", "skipped"}]
    /\ owner \in [Sessions -> Requests \cup {Nobody}]
    /\ ownerOrder \in Seq(Sessions) /\ Len(ownerOrder) <= MaxRemembered
    /\ shown \in Seq(Sessions) /\ Len(shown) <= MaxRemembered
    /\ epoch \in [Sessions -> Nat]
    /\ since \in [Requests -> Nat]
    /\ ledgers \in Seq([session : Sessions, ledger : 1..Len(size), expiresAt : Nat])
    /\ Len(ledgers) <= MaxSessions
    /\ size \in Seq(0..MaxSize)
    /\ held \in [Requests -> 1..Len(size) \cup {Waiting, Refused}]
    /\ \A s \in Sessions : lastUse[s].ledger \in 0..Len(size)

Init ==
    /\ session \in [Requests -> Sessions]
    /\ banner = [r \in Requests |-> "none"]
    /\ owner = [s \in Sessions |-> Nobody]
    /\ ownerOrder = <<>>
    /\ shown = <<>>
    /\ epoch = [s \in Sessions |-> 0]
    /\ since = [r \in Requests |-> 0]
    /\ now = 0
    /\ ledgers = <<>>
    /\ size = <<>>
    /\ held = [r \in Requests |-> Waiting]
    /\ lastUse = [s \in Sessions |-> NeverUsed]
-----------------------------------------------------------------------------
\* Mutant: the Map grows with the sessions.
TrimMutUnbounded(q, max) == q

(* The Map loop `while (size > max) delete the first key`: one insertion   *)
(* makes a Map exceed its limit by one entry at most.                      *)
Trim(q, max) == IF Len(q) > max THEN Tail(q) ELSE q
Evicted(q, max) == IF Len(q) > max THEN {Head(q)} ELSE {}

Has(q, s) == \E i \in 1..Len(q) : q[i] = s

NextEpoch(gone) == [s \in Sessions |-> epoch[s] + IF s \in gone THEN 1 ELSE 0]

\* Mutant: the cards already shown are not looked at.
MayReserveMutForgetful(s) == owner[s] = Nobody

\* Mutant: a reservation of another request does not count.
MayReserveMutShared(s) == ~Has(shown, s)

MayReserve(s) == ~Has(shown, s) /\ owner[s] = Nobody

(* reserveBanner returned true: formatStartupBanner and showStartupBanner  *)
(* follow without a check in between.                                      *)
Reserve(r) ==
    LET s == session[r]
        order == Append(ownerOrder, s)
        gone == Evicted(order, MaxRemembered)
    IN  /\ banner[r] = "none"
        /\ MayReserve(s)
        /\ owner' = [t \in Sessions |-> IF t \in gone THEN Nobody
                                      ELSE IF t = s THEN r ELSE owner[t]]
        /\ ownerOrder' = Trim(order, MaxRemembered)
        /\ banner' = [banner EXCEPT ![r] = "sending"]
        /\ epoch' = NextEpoch(gone)
        /\ since' = [since EXCEPT ![r] = epoch[s]]
        /\ UNCHANGED <<session, shown, ledgerVars>>

(* already_shown_or_reserved *)
Skip(r) ==
    /\ banner[r] = "none"
    /\ ~MayReserve(session[r])
    /\ banner' = [banner EXCEPT ![r] = "skipped"]
    /\ UNCHANGED <<session, owner, ownerOrder, shown, epoch, since, ledgerVars>>

(* The reservation of session s leaves the Map. *)
Unreserve(s) ==
    /\ owner' = [owner EXCEPT ![s] = Nobody]
    /\ ownerOrder' = Select(ownerOrder, LAMBDA t : t # s)

\* Mutant: whoever holds the reservation, it is released.
ReleaseBannerMutAnyOwner(r) == Unreserve(session[r])

\* Mutant: a failed delivery keeps the reservation.
ReleaseBannerMutKeep(r) == UNCHANGED <<owner, ownerOrder>>

(* releaseBanner(): only a reservation of this very request is given back. *)
ReleaseBanner(r) ==
    \/ owner[session[r]] = r /\ Unreserve(session[r])
    \/ owner[session[r]] # r /\ UNCHANGED <<owner, ownerOrder>>

(* showStartupBanner wrote the whole card; its promise is settled, and the *)
(* handler goes on in a later microtask.                                   *)
Written(r) ==
    /\ banner[r] = "sending"
    /\ banner' = [banner EXCEPT ![r] = "written"]
    /\ UNCHANGED <<session, owner, ownerOrder, shown, epoch, since, ledgerVars>>

(* showStartupBanner returned false or threw: the stream is closed, is     *)
(* already visible, or the write failed.                                   *)
NotSent(r) ==
    /\ banner[r] = "sending"
    /\ ReleaseBanner(r)
    /\ banner' = [banner EXCEPT ![r] = "skipped"]
    /\ since' = [since EXCEPT ![r] = 0]
    /\ UNCHANGED <<session, shown, epoch, ledgerVars>>

CanCommit(r) == owner[session[r]] = r /\ ~Has(shown, session[r])

(* commitBanner(), and releaseBanner() when it returns false. *)
Commit(r) ==
    LET order == Append(shown, session[r])
    IN  /\ banner[r] = "written"
        /\ \/ /\ CanCommit(r)
              /\ Unreserve(session[r])
              /\ shown' = Trim(order, MaxRemembered)
              /\ epoch' = NextEpoch(Evicted(order, MaxRemembered))
           \/ /\ ~CanCommit(r)
              /\ ReleaseBanner(r)
              /\ UNCHANGED <<shown, epoch>>
        /\ banner' = [banner EXCEPT ![r] = "finished"]
        /\ UNCHANGED <<session, since, ledgerVars>>
-----------------------------------------------------------------------------
(* The entries of sessionToolLedgers that the sweep for expired ones leaves. *)
Live == Select(ledgers, LAMBDA e : e.expiresAt > now)

\* Mutant: a ledger that is found keeps its place in the Map, which then
\* evicts by age and not by use.
TouchedMutInPlace(s, ledger) ==
    LET entry == [session |-> s, ledger |-> ledger, expiresAt |-> now + TTL]
    IN  IF \E e \in Range(Live) : e.session = s
        THEN [i \in 1..Len(Live) |-> IF Live[i].session = s THEN entry ELSE Live[i]]
        ELSE Append(Live, entry)

(* The Map once the entry of s, found or new, is deleted and set again. *)
Touched(s, ledger) ==
    Append(Select(Live, LAMBDA e : e.session # s),
           [session |-> s, ledger |-> ledger, expiresAt |-> now + TTL])

(* getSessionToolLedger() as the managed loop starts.  A full ledger makes *)
(* it throw, after the Map was changed.                                    *)
TakeLedger(r) ==
    LET s == session[r]
        found == {e \in Range(Live) : e.session = s}
        sizes == IF found = {} THEN Append(size, 0) ELSE size
        ledger == IF found = {} THEN Len(sizes) ELSE (CHOOSE e \in found : TRUE).ledger
    IN  /\ held[r] = Waiting
        /\ size' = sizes
        /\ ledgers' = Trim(Touched(s, ledger), MaxSessions)
        /\ held' = [held EXCEPT ![r] = IF sizes[ledger] >= MaxTools THEN Refused ELSE ledger]
        /\ lastUse' = [lastUse EXCEPT ![s] =
                         [ledger |-> ledger, at |-> now,
                          turn |-> 1 + Cardinality({q \in Requests : held[q] # Waiting})]]
        /\ UNCHANGED <<session, bannerVars, now>>

(* executeToolOnce() adds an id to the ledger the request was given, be it *)
(* still in the Map or not, and looks at no limit.                         *)
AddTool(r) ==
    /\ held[r] \notin {Waiting, Refused}
    /\ size[held[r]] < MaxSize
    /\ size' = [size EXCEPT ![held[r]] = @ + 1]
    /\ UNCHANGED <<session, bannerVars, now, ledgers, held, lastUse>>

Tick ==
    /\ now < MaxNow
    /\ now' = now + 1
    /\ UNCHANGED <<session, bannerVars, ledgers, size, held, lastUse>>
-----------------------------------------------------------------------------
BannerStep == \E r \in Requests :
    Reserve(r) \/ Skip(r) \/ Written(r) \/ NotSent(r) \/ Commit(r)

LedgerStep == Tick \/ \E r \in Requests : TakeLedger(r) \/ AddTool(r)

Next == BannerStep \/ LedgerStep

Spec == Init /\ [][Next]_vars
-----------------------------------------------------------------------------
(* The card is shown once per session: of two requests of one session that *)
(* both sent it, the second reserved after the session's entry had been    *)
(* evicted for want of room.  A send may be overtaken by that eviction, so *)
(* the order of reserve, send and commit alone does not give this.         *)
BannerOnce ==
    \A r, q \in Requests :
      /\ r # q
      /\ session[r] = session[q]
      /\ {banner[r], banner[q]} \subseteq {"written", "finished"}
      => since[r] # since[q]

(* A reservation is never left behind: who holds one is still sending, and *)
(* the session's card is not shown yet.  A leaked reservation would keep   *)
(* the card from every later request of the session.                       *)
ReservationsOwned ==
    \A s \in Sessions : owner[s] # Nobody =>
      /\ session[owner[s]] = s
      /\ banner[owner[s]] \in {"sending", "written"}
      /\ ~Has(shown, s)

(* A session keeps its ledger, and with it the promise that an id runs     *)
(* once, for TTL after its last request and as long as fewer than          *)
(* MaxSessions other sessions came since.                                  *)
SameLedger ==
    \A s \in Sessions :
      /\ lastUse[s] # NeverUsed
      /\ now < lastUse[s].at + TTL
      /\ Cardinality({t \in Sessions : lastUse[t].turn > lastUse[s].turn}) < MaxSessions
      => \E e \in Range(ledgers) : e.session = s /\ e.ledger = lastUse[s].ledger
=============================================================================

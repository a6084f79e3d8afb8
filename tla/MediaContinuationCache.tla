----------------------- MODULE MediaContinuationCache -----------------------
(***************************************************************************)
(* The evidence a session may use again within a workflow                  *)
(* (src/src/cache/media-continuation-cache.js): entries of sessions, both  *)
(* in the order of their last use, limited in number, bytes and age.  All  *)
(* of it is synchronous, so an operation is one step; the methods are      *)
(* functions of the cache's fields.                                        *)
(***************************************************************************)
EXTENDS Integers, Sequences, SequencesExt

CONSTANTS
    Sessions, Keys,
    Sizes,                                  \* the estimated bytes of an entry
    MaxSessions, MaxEntries,                \* maxSessions, maxEntriesPerSession
    MaxBytes, MaxBytesPerSession,
    Retention,
    MaxTime                                 \* bound: the clock stops here

VARIABLES
    cache,  \* order: this.sessions, least recently used first; entries: the keys of a
            \* session's, least recently used first; size: their bytes; own: session.bytes;
            \* touched: session.touchedAt; bytes: this.bytes
    time,
    stored, \* what the last set answered, of which entry
    used    \* history: when a session was last told or given an entry

contVars == <<cache, time, stored, used>>

(* The sizes of values and the constructor's limits are whole numbers.     *)
LimitsKnown ==
    /\ Sizes \subseteq Nat
    /\ {MaxSessions, MaxEntries, MaxBytes, MaxBytesPerSession, Retention} \subseteq Nat

NoSizes == [k \in Keys |-> 0]

ContInit ==
    /\ cache = [order |-> <<>>, entries |-> [s \in Sessions |-> <<>>],
                size |-> [s \in Sessions |-> NoSizes], own |-> [s \in Sessions |-> 0],
                touched |-> [s \in Sessions |-> 0], bytes |-> 0]
    /\ time = 0 /\ stored = <<>> /\ used = [s \in Sessions |-> 0]

Known(c, s) == Contains(c.order, s)
Keeps(c, s, k) == Contains(c.entries[s], k)
Less(n, m) == IF n < m THEN 0 ELSE n - m

RemoveSession(c, s) ==
    IF ~Known(c, s) THEN c
    ELSE [c EXCEPT !.bytes = Less(@, c.own[s]), !.order = RemoveFirst(@, s),
                   !.entries[s] = <<>>, !.size[s] = NoSizes, !.own[s] = 0]

RemoveEntry(c, s, k) ==
    IF ~Keeps(c, s, k) THEN c
    ELSE [c EXCEPT !.entries[s] = RemoveFirst(@, k), !.size[s][k] = 0,
                   !.own[s] = Less(@, c.size[s][k]), !.bytes = Less(@, c.size[s][k])]

(* The cache after n rounds of a loop. *)
Rounds(Round(_, _), c, n) ==
    LET after[i \in 0..n] == IF i = 0 THEN c ELSE Round(after[i - 1], i)
    IN  after[n]

PruneRound(c, s) == IF time - c.touched[s] > Retention THEN RemoveSession(c, s) ELSE c
PruneExpired(c) == Rounds(LAMBDA d, i : PruneRound(d, c.order[i]), c, Len(c.order))

TouchSession(c, s) == [c EXCEPT !.touched[s] = time, !.order = Append(RemoveFirst(@, s), s)]

EntryRound(c, s) ==
    IF c.entries[s] # <<>> /\ (Len(c.entries[s]) > MaxEntries \/ c.own[s] > MaxBytesPerSession)
    THEN RemoveEntry(c, s, Head(c.entries[s])) ELSE c
EvictSessionEntries(c, s) == Rounds(LAMBDA d, i : EntryRound(d, s), c, Len(c.entries[s]))

GlobalRound(c) ==
    IF c.order # <<>> /\ (Len(c.order) > MaxSessions \/ c.bytes > MaxBytes)
    THEN RemoveSession(c, Head(c.order)) ELSE c
EvictGlobal(c) == Rounds(LAMBDA d, i : GlobalRound(d), c, Len(c.order))

\* Mutant: the entry under the key is replaced without being removed first.
PutMutReplace(c, s, k, n) ==
    LET d == IF Known(c, s) THEN c ELSE [c EXCEPT !.order = Append(@, s)]
    IN  [d EXCEPT !.entries[s] = Append(RemoveFirst(@, k), k), !.size[s][k] = n,
                  !.own[s] = @ + n, !.bytes = @ + n]

Put(c, s, k, n) ==
    LET d == IF Known(c, s) THEN RemoveEntry(c, s, k) ELSE [c EXCEPT !.order = Append(@, s)]
    IN  [d EXCEPT !.entries[s] = Append(@, k), !.size[s][k] = n,
                  !.own[s] = @ + n, !.bytes = @ + n]

(* The limits are kept; a session that lost all of its entries goes as well. *)
Evict(c, s) ==
    LET d == EvictSessionEntries(c, s)
    IN  IF d.entries[s] = <<>> THEN RemoveSession(d, s) ELSE EvictGlobal(TouchSession(d, s))

UseEntry(c, s, k) ==
    TouchSession([c EXCEPT !.entries[s] = Append(RemoveFirst(@, k), k)], s)

Get(s, k) ==
    LET c == PruneExpired(cache) IN
    /\ cache' = IF Keeps(c, s, k) THEN UseEntry(c, s, k) ELSE c
    /\ used' = IF Keeps(c, s, k) THEN [used EXCEPT ![s] = time] ELSE used
    /\ UNCHANGED <<time, stored>>

Set(s, k, n) ==
    /\ n <= MaxBytes /\ n <= MaxBytesPerSession
    /\ cache' = Evict(Put(PruneExpired(cache), s, k, n), s)
    /\ stored' = <<s, k, Keeps(cache', s, k)>>
    /\ used' = [used EXCEPT ![s] = time]
    /\ UNCHANGED time

ResetSession(s) == cache' = RemoveSession(cache, s) /\ UNCHANGED <<time, stored, used>>

Wait == time < MaxTime /\ time' = time + 1 /\ UNCHANGED <<cache, stored, used>>

ContNext ==
    \/ Wait
    \/ \E s \in Sessions : ResetSession(s) \/ \E k \in Keys :
           Get(s, k) \/ \E size \in Sizes : Set(s, k, size)

-----------------------------------------------------------------------------
\* The counts are those of what is kept, so no limit is exceeded and none is reached
\* by entries that are gone, whatever the order of replacing, evicting, expiring and
\* resetting; and a set says whether its entry is there.
CountsExact ==
    /\ \A s \in Sessions :
           cache.own[s] = SumFunctionOnSet(cache.size[s], ToSet(cache.entries[s]))
    /\ cache.bytes = SumFunctionOnSet(cache.own, ToSet(cache.order))
    /\ cache.bytes <= MaxBytes /\ Len(cache.order) <= MaxSessions
    /\ \A s \in Sessions :
           /\ Len(cache.entries[s]) <= MaxEntries /\ cache.own[s] <= MaxBytesPerSession
           /\ cache.entries[s] # <<>> <=> Known(cache, s)
           /\ IsInjective(cache.entries[s])

\* The session evicted first is the one used longest ago, whatever gets and sets
\* came in between: the Map's order is the order of use.
OrderIsUse ==
    \A i, j \in DOMAIN cache.order :
        i < j => used[cache.order[i]] <= used[cache.order[j]]
=============================================================================

----------------------------- MODULE MediaCache -----------------------------
(***************************************************************************)
(* The persistent cache of analyses (src/src/cache/media-cache.js): one    *)
(* file per key, written to a temporary file and renamed, an index in      *)
(* memory with sizes and last uses, a limit on the bytes, expiry, and what *)
(* a restart finds on disk.  Operations run one at a time on a promise     *)
(* chain; every await of one is a step here, so that the process may end   *)
(* in between.  Without a directory the same class keeps the values in     *)
(* memory: `files` is then the contents of this.memory.                    *)
(***************************************************************************)
EXTENDS Integers, Sequences, FiniteSets, FiniteSetsExt

CONSTANTS
    Callers, Keys, Values, None,
    Size,           \* the bytes of each value's file
    MaxBytes,       \* maxBytes; 0 is no limit
    Retention,      \* retentionMs
    MaxNow,         \* bound: the clock stops here
    MaxCrashes,     \* bound: how often the process ends
    MaxCalls        \* bound: how many operations are called

\* None is told from a file, from an entry of the index and from the names in a
\* directory; a temporary file has another name than any entry's file.
NoneDistinct ==
    /\ None \notin [val : Values, used : Nat] \cup [size : Nat, used : Nat]
    /\ \A names \in SUBSET (Keys \cup Callers) : names # None
SizeAssumption ==
    /\ IsFiniteSet(Keys) /\ Keys \cap Callers = {}
    /\ Size \in [Values -> Nat] /\ MaxBytes \in Nat

VARIABLES
    persistent,     \* rootDir is set
    files,          \* what storage holds under each key: value and last use
    tmp,            \* callers whose temporary file exists
    stuck,          \* history: files whose removal failed
    index,          \* the index: size and last use, or None
    bytes,
    chain,          \* operations queued on the promise chain, the first runs
    op,             \* what each caller has called
    answer,         \* what each caller was last told
    now, crashes, calls,
    found           \* names a restart has not looked at yet, or None when running

disk == <<files, tmp, stuck>>
memory == <<index, bytes>>
calling == <<chain, op, answer>>
world == <<persistent, now, crashes, calls, found>>
vars == <<disk, memory, calling, world>>

Idle == [kind |-> "none", key |-> None, val |-> None, at |-> "none", time |-> 0]
Call(kind, k, v) == [kind |-> kind, key |-> k, val |-> v, at |-> "queued", time |-> 0]

Running == found = None
\* Mutant: operations are not queued behind one another.
TurnMutUnordered(c, at) == Running /\ chain # <<>> /\ op[c].at = at

Turn(c, at) == Running /\ chain # <<>> /\ Head(chain) = c /\ op[c].at = at

Init ==
    /\ persistent \in BOOLEAN
    /\ files = [k \in Keys |-> None] /\ index = [k \in Keys |-> None]
    /\ tmp = {} /\ stuck = {} /\ bytes = 0 /\ chain = <<>>
    /\ op = [c \in Callers |-> Idle] /\ answer = [c \in Callers |-> None]
    /\ now = 0 /\ crashes = 0 /\ calls = 0 /\ found = None

\* clock() - lastUsedAt > retentionMs
Expired(entry) == Retention > 0 /\ now - entry.used > Retention

Live(k) == IF index[k] = None THEN FALSE ELSE ~Expired(index[k])
SizeOf(k) == IF index[k] = None THEN 0 ELSE index[k].size
Indexed == {k \in Keys : index[k] # None}
Oldest == {k \in Indexed : \A j \in Indexed : index[k].used <= index[j].used}
TooMany == MaxBytes > 0 /\ bytes > MaxBytes

-----------------------------------------------------------------------------
\* Removing the entry forgets it and then removes its file; an error of fs.rm
\* is swallowed, so the file may stay.
RemoveEntry(k) ==
    /\ index' = [index EXCEPT ![k] = None]
    /\ bytes' = Max({0, bytes - SizeOf(k)})
    /\ IF index[k] = None
       THEN UNCHANGED <<files, stuck>>
       ELSE \/ files' = [files EXCEPT ![k] = None] /\ stuck' = stuck \ {k}
            \/ persistent /\ files' = files /\ stuck' = stuck \cup {k}

\* The promise of the head of the chain settles and the next operation runs.
Return(c, x) ==
    /\ answer' = [answer EXCEPT ![c] = x]
    /\ op' = [op EXCEPT ![c] = Idle]
    /\ chain' = Tail(chain)

Goto(c, at) == op' = [op EXCEPT ![c].at = at] /\ UNCHANGED <<chain, answer>>

Start(c) ==
    /\ op[c] = Idle /\ Running /\ calls < MaxCalls
    /\ \/ \E k \in Keys : op' = [op EXCEPT ![c] = Call("get", k, None)]
       \/ \E k \in Keys, v \in Values : op' = [op EXCEPT ![c] = Call("set", k, v)]
       \/ \E k \in Keys : op' = [op EXCEPT ![c] = Call("delete", k, None)]
    /\ chain' = Append(chain, c)
    /\ calls' = calls + 1
    /\ UNCHANGED <<persistent, disk, memory, answer, now, crashes, found>>

\* get: no entry, an expired one, or a file that cannot be read or parsed.
Missing(c) ==
    LET k == op[c].key IN
    /\ Turn(c, "queued") /\ op[c].kind = "get"
    /\ persistent \/ ~Live(k)
    /\ RemoveEntry(k)
    /\ Return(c, <<k, None>>)
    /\ UNCHANGED <<world, tmp>>

\* get: the file is read, and written again with the new last use.
Read(c) ==
    LET k == op[c].key IN
    /\ persistent /\ Turn(c, "queued") /\ op[c].kind = "get"
    /\ Live(k) /\ files[k] # None
    /\ op' = [op EXCEPT ![c].val = files[k].val, ![c].at = "temp", ![c].time = now]
    /\ UNCHANGED <<world, disk, memory, chain, answer>>

\* set: the clock is read, and then expired entries go, one await each (and
\* synchronously in memory).
BeginSet(c) ==
    /\ Turn(c, "queued") /\ op[c].kind = "set"
    /\ op' = [op EXCEPT ![c].at = "sweep", ![c].time = now]
    /\ UNCHANGED <<world, disk, memory, chain, answer>>

Sweep(c) ==
    /\ Turn(c, "sweep")
    /\ \E k \in Indexed : Expired(index[k]) /\ RemoveEntry(k)
    /\ UNCHANGED <<world, tmp, calling>>

Swept(c) ==
    /\ persistent /\ Turn(c, "sweep")
    /\ \A k \in Indexed : ~Expired(index[k])
    /\ Goto(c, "temp")
    /\ UNCHANGED <<world, disk, memory>>

WriteTemp(c) ==
    /\ Turn(c, "temp")
    /\ tmp' = tmp \cup {c}
    /\ Goto(c, "rename")
    /\ UNCHANGED <<world, files, stuck, memory>>

Rename(c) ==
    LET k == op[c].key IN
    /\ Turn(c, "rename")
    /\ files' = [files EXCEPT ![k] = [val |-> op[c].val, used |-> op[c].time]]
    /\ tmp' = tmp \ {c} /\ stuck' = stuck \ {k}
    /\ Goto(c, "record")
    /\ UNCHANGED <<world, memory>>

\* Either call failed: the temporary file is removed, or stays if that fails too.
\* A get then remembers the use in the index only; a set answers false.
WriteFails(c) ==
    LET k == op[c].key IN
    /\ Turn(c, "temp") \/ Turn(c, "rename")
    /\ tmp' \in {tmp \ {c}, tmp \cup {c}}
    /\ \/ /\ op[c].kind = "get"
          /\ index' = [index EXCEPT ![k].used = op[c].time]
          /\ Return(c, <<k, op[c].val>>)
       \/ /\ op[c].kind = "set"
          /\ UNCHANGED index
          /\ Return(c, <<k, None>>)
    /\ UNCHANGED <<world, files, stuck, bytes>>

\* Mutant: the size of the replaced file is not subtracted.
RecordMutTwice(c) ==
    LET k == op[c].key IN
    /\ Turn(c, "record")
    /\ bytes' = bytes + Size[op[c].val]
    /\ index' = [index EXCEPT ![k] = [size |-> Size[op[c].val], used |-> op[c].time]]
    /\ \/ op[c].kind = "get" /\ Return(c, <<k, op[c].val>>)
       \/ op[c].kind = "set" /\ Goto(c, "evict")
    /\ UNCHANGED <<world, disk>>

Record(c) ==
    LET k == op[c].key IN
    /\ Turn(c, "record")
    /\ bytes' = bytes - SizeOf(k) + Size[op[c].val]
    /\ index' = [index EXCEPT ![k] = [size |-> Size[op[c].val], used |-> op[c].time]]
    /\ \/ op[c].kind = "get" /\ Return(c, <<k, op[c].val>>)
       \/ op[c].kind = "set" /\ Goto(c, "evict")
    /\ UNCHANGED <<world, disk>>

Evict(c) ==
    /\ Turn(c, "evict") /\ TooMany
    /\ \E k \in Oldest : RemoveEntry(k)
    /\ UNCHANGED <<world, tmp, calling>>

\* set answers whether the index still has the key.
SetReturns(c) ==
    LET k == op[c].key IN
    /\ Turn(c, "evict") /\ ~TooMany
    /\ Return(c, <<k, IF index[k] = None THEN None ELSE op[c].val>>)
    /\ UNCHANGED <<world, disk, memory>>

Delete(c) ==
    /\ Turn(c, "queued") /\ op[c].kind = "delete"
    /\ RemoveEntry(op[c].key)
    /\ Return(c, <<op[c].key, None>>)
    /\ UNCHANGED <<world, tmp>>

\* Without a directory the value is kept in this.memory.  The call is synchronous:
\* that it sweeps and evicts in steps of its own is seen by nobody.
MemoryGet(c) ==
    LET k == op[c].key IN
    /\ ~persistent /\ Turn(c, "queued") /\ op[c].kind = "get"
    /\ Live(k)
    /\ index' = [index EXCEPT ![k].used = now]
    /\ Return(c, <<k, files[k].val>>)
    /\ UNCHANGED <<world, disk, bytes>>

MemorySet(c) ==
    LET k == op[c].key IN
    /\ ~persistent /\ Turn(c, "sweep")
    /\ \A j \in Indexed : ~Expired(index[j])
    /\ files' = [files EXCEPT ![k] = [val |-> op[c].val, used |-> op[c].time]]
    /\ index' = [index EXCEPT ![k] = [size |-> Size[op[c].val], used |-> op[c].time]]
    /\ bytes' = bytes - SizeOf(k) + Size[op[c].val]
    /\ Goto(c, "evict")
    /\ UNCHANGED <<world, tmp, stuck>>

-----------------------------------------------------------------------------
\* The process ends between two steps; what is in memory is gone.
Crash ==
    /\ Running /\ crashes < MaxCrashes
    /\ crashes' = crashes + 1
    /\ files' = IF persistent THEN files ELSE [k \in Keys |-> None]
    /\ found' = {k \in Keys : files'[k] # None} \cup tmp
    /\ index' = [k \in Keys |-> None] /\ bytes' = 0
    /\ chain' = <<>> /\ op' = [c \in Callers |-> Idle]
    /\ UNCHANGED <<persistent, tmp, stuck, answer, now, calls>>

\* initialize, one name of readdir after the other.  Requests wait for it.
FindTemp(c) ==
    /\ ~Running /\ c \in found \cap tmp
    /\ tmp' \in {tmp, tmp \ {c}}
    /\ found' = found \ {c}
    /\ UNCHANGED <<persistent, files, stuck, memory, calling, now, crashes, calls>>

FindFile(k) ==
    /\ ~Running /\ k \in found
    /\ found' = found \ {k}
    /\ \/ /\ ~Expired(files[k])
          /\ index' = [index EXCEPT ![k] = [size |-> Size[files[k].val], used |-> files[k].used]]
          /\ bytes' = bytes + Size[files[k].val]
          /\ stuck' = stuck \ {k}
          /\ UNCHANGED files
       \/ \* expired, or it could not be read
          /\ UNCHANGED memory
          /\ \/ files' = [files EXCEPT ![k] = None] /\ stuck' = stuck \ {k}
             \/ files' = files /\ stuck' = stuck \cup {k}
    /\ UNCHANGED <<persistent, tmp, calling, now, crashes, calls>>

Ready ==
    /\ found = {}
    /\ \/ TooMany /\ (\E k \in Oldest : RemoveEntry(k)) /\ UNCHANGED found
       \/ ~TooMany /\ found' = None /\ UNCHANGED <<files, stuck, memory>>
    /\ UNCHANGED <<persistent, tmp, calling, now, crashes, calls>>

Tick ==
    /\ now < MaxNow /\ now' = now + 1
    /\ UNCHANGED <<persistent, disk, memory, calling, crashes, calls, found>>

Next ==
    \/ Crash \/ Ready \/ Tick
    \/ \E k \in Keys : FindFile(k)
    \/ \E c \in Callers :
        \/ Start(c) \/ Missing(c) \/ Read(c) \/ BeginSet(c) \/ Sweep(c) \/ Swept(c)
        \/ WriteTemp(c) \/ Rename(c) \/ WriteFails(c) \/ Record(c) \/ Evict(c) \/ SetReturns(c) \/ Delete(c)
        \/ MemoryGet(c) \/ MemorySet(c) \/ FindTemp(c)

Spec == Init /\ [][Next]_vars

-----------------------------------------------------------------------------
\* What callers are told implements a map that may forget: through rewrites by
\* readers, evictions, failed writes and removals, and restarts in the middle of
\* any of them, nobody is told a value that is not the one stored last.
Forgetful == INSTANCE ForgetfulMap WITH
    map <- [k \in Keys |-> IF files[k] = None THEN None ELSE files[k].val],
    pending <- [c \in Callers |->
                   IF op[c].kind = "set" THEN <<op[c].key, op[c].val>> ELSE None]

CacheForgets == Forgetful!Spec

\* Between operations the index, the byte count and the disk agree, also after a
\* restart: no file takes room the limit does not count, unless its removal failed
\* (fs.rm errors are swallowed at media-cache.js:87), and the limit is kept.
NothingUncounted ==
    Running /\ chain = <<>> =>
        /\ \A k \in Keys : files[k] # None <=> (k \in Indexed \/ k \in stuck)
        /\ \A k \in Indexed : index[k].size = Size[files[k].val]
        /\ bytes = SumFunction([k \in Keys |-> SizeOf(k)])
        /\ ~TooMany
=============================================================================

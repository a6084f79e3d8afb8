------------------------- MODULE VisualRecoveryStore -------------------------
(***************************************************************************)
(* The store of image sources and their recoveries, kept in memory and, in *)
(* the directory of a session, on disk.  Operations run one at a time      *)
(* (#exclusive); one is a list of steps, each a synchronous change of the  *)
(* memory or one file operation, and the process may crash or a file       *)
(* operation fail between any two.  A blob counts as one byte.             *)
(***************************************************************************)
EXTENDS Naturals, Sequences, FiniteSets

CONSTANTS
    Sources,     \* asset ids: a source has metadata and bytes
    Recoveries,  \* recovery ids: metadata alone
    Saved,       \* the ids whose session is persistent
    Values,      \* evidence of a source, content of a recovery
    None,
    MaxEntries, MaxBytes,
    Retention,   \* retentionMs; with 0 nothing expires
    MaxNow, MaxCrashes

(* The ids are finite, and None is no content and no record.               *)
StoreAssumption ==
    /\ IsFiniteSet(Sources \cup Recoveries) /\ Saved \subseteq Sources \cup Recoveries
    /\ {MaxEntries, MaxNow} \subseteq Nat
    /\ None \notin Values /\ None \notin [at : 0..MaxNow, value : Values \cup {None}]

VARIABLES
    entries,     \* sources and recoveries in memory: id -> [at, value] or None
    blobs,       \* bytes known in memory: id -> when they were touched, or None
    meta,        \* .json files: id -> [at, value] or None
    blobFiles,   \* ids that have a .blob file
    temps,       \* a temporary file was left behind
    op,          \* the steps the running operation has left
    ready,       \* initialize has succeeded
    now, crashes

vars == <<entries, blobs, meta, blobFiles, temps, op, ready, now, crashes>>
files == <<meta, blobFiles, temps>>
memory == <<entries, blobs>>
world == <<ready, now, crashes>>

Ids == Sources \cup Recoveries
Present(f) == {k \in DOMAIN f : f[k] # None}
Nothing == [k \in Ids |-> None]
Record(value) == [at |-> now, value |-> value]
Expired(k) == Retention > 0 /\ entries[k].at + Retention < now

\* A step, of the source or recovery k, with the record or fallback it needs.
Step(do, k, x) == [do |-> do, k |-> k, x |-> x]
On(k, steps) == IF k \in Saved THEN steps ELSE <<>>

TypeOK ==
    /\ \A k \in Present(entries) : entries[k].at \in 0..MaxNow
    /\ Present(blobs) \subseteq Sources /\ blobFiles \subseteq Sources \cap Saved
    /\ Present(meta) \subseteq Saved
    /\ {temps, ready} \subseteq BOOLEAN

Init ==
    /\ entries = Nothing /\ blobs = Nothing
    /\ meta = Nothing /\ blobFiles = {} /\ temps = FALSE
    /\ op = <<>> /\ ready = FALSE
    /\ now = 0 /\ crashes = 0
-----------------------------------------------------------------------------
(* The operations: what they do, as steps *)

Prune == <<Step("entries", None, None), Step("blobs", None, None)>>
Expire == <<Step("expired", None, None)>>
WriteMeta(k, rec) == On(k, <<Step("temp", k, None), Step("meta", k, rec)>>)

(* Every operation that finds the store not initialized loads it first. *)
Begin(steps) ==
    /\ op = <<>>
    /\ op' = (IF ready THEN <<>>
              ELSE <<Step("load", None, None)>> \o Expire
                   \o <<Step("entries", None, None), Step("load_blobs", None, None),
                        Step("blobs", None, None), Step("ready", None, None)>>)
             \o Expire \o steps
    /\ UNCHANGED <<memory, files, world>>

(* A new blob is removed again when its metadata cannot be written. *)
PutSource(k) == Begin(<<Step("put", k, None)>>)
SetEvidence(k, v) == Begin(<<Step("evidence", k, v)>>)
SaveRecovery(k, v) == Begin(<<Step("save", k, v)>>)
GetBytes(k) == Begin(<<Step("get", k, None)>>)
List == Begin(<<>>)

Doing(do) == op # <<>> /\ Head(op).do = do
Next_ == op' = Tail(op)
Then(steps) == op' = steps \o Tail(op)
K == Head(op).k

\* Mutant: the evidence of a source is lost when it is put again.
PutMutForgets ==
    /\ Doing("put")
    /\ LET rec == Record(None)
           new == blobs[K] = None IN
       Then(On(K, <<Step("temp", K, None), Step("blob", K, None),
                    Step(IF new THEN "new_temp" ELSE "temp", K, None),
                    Step(IF new THEN "new_meta" ELSE "meta", K, rec)>>)
            \o <<Step("commit", K, rec), Step("set_blob", K, None)>> \o Prune)
    /\ UNCHANGED <<memory, files, world>>

(* A source keeps the evidence it had. *)
Put ==
    /\ Doing("put")
    /\ LET rec == Record(IF entries[K] = None THEN None ELSE entries[K].value)
           new == blobs[K] = None IN
       Then(On(K, <<Step("temp", K, None), Step("blob", K, None),
                    Step(IF new THEN "new_temp" ELSE "temp", K, None),
                    Step(IF new THEN "new_meta" ELSE "meta", K, rec)>>)
            \o <<Step("commit", K, rec), Step("set_blob", K, None)>> \o Prune)
    /\ UNCHANGED <<memory, files, world>>

\* Mutant: the memory takes the evidence before its file is written.
EvidenceMutEarly ==
    /\ Doing("evidence")
    /\ IF entries[K] = None THEN Next_
       ELSE Then(<<Step("commit", K, Record(Head(op).x))>> \o WriteMeta(K, Record(Head(op).x))
                 \o <<Step("entries", None, None)>>)
    /\ UNCHANGED <<memory, files, world>>

Evidence ==
    /\ Doing("evidence")
    /\ IF entries[K] = None THEN Next_
       ELSE Then(WriteMeta(K, Record(Head(op).x))
                 \o <<Step("commit", K, Record(Head(op).x)), Step("entries", None, None)>>)
    /\ UNCHANGED <<memory, files, world>>

Save ==
    /\ Doing("save")
    /\ Then(WriteMeta(K, Record(Head(op).x))
            \o <<Step("commit", K, Record(Head(op).x)), Step("entries", None, None)>>)
    /\ UNCHANGED <<memory, files, world>>

(* getBytes: bytes whose digest is wrong are dropped, the file too. *)
Get ==
    /\ Doing("get")
    /\ IF K \notin Present(blobs) \cap Present(entries) THEN Next_ /\ UNCHANGED blobs
       ELSE \/ blobs' = [blobs EXCEPT ![K] = now] /\ Next_
            \/ /\ blobs' = [blobs EXCEPT ![K] = None]
               /\ Then(On(K, <<Step("unlink_blob", K, None)>>))
    /\ UNCHANGED <<entries, files, world>>
-----------------------------------------------------------------------------
(* The steps *)

(* The memory takes a record once its file is in place. *)
Commit ==
    /\ Doing("commit") /\ Next_
    /\ entries' = [entries EXCEPT ![K] = Head(op).x]
    /\ UNCHANGED <<blobs, files, world>>

SetBlob ==
    /\ Doing("set_blob") /\ Next_
    /\ blobs' = [blobs EXCEPT ![K] = now]
    /\ UNCHANGED <<entries, files, world>>

\* Mutant: a blob stays when its source goes.
ForgetMutKeepsBlob(k, rest) ==
    /\ entries' = [entries EXCEPT ![k] = None] /\ UNCHANGED blobs
    /\ op' = On(k, <<Step("unlink_meta", k, None)>>) \o rest

(* #removeSource, #removeRecovery: the memory first, then the files. *)
Forget(k, rest) ==
    /\ entries' = [entries EXCEPT ![k] = None] /\ blobs' = [blobs EXCEPT ![k] = None]
    /\ op' = On(k, <<Step("unlink_meta", k, None)>>
                   \o IF k \in Sources THEN <<Step("unlink_blob", k, None)>> ELSE <<>>)
             \o rest

(* What is too old when the sweep starts goes, one entry at a time. *)
PruneExpired ==
    /\ Doing("expired")
    /\ Then(<<Step("forget", None, {k \in Present(entries) : Expired(k)})>>)
    /\ UNCHANGED <<memory, files, world>>

ForgetOld ==
    /\ Doing("forget")
    /\ IF Head(op).x = {} THEN Next_ /\ UNCHANGED memory
       ELSE \E k \in Head(op).x :
              Forget(k, <<Step("forget", None, Head(op).x \ {k})>> \o Tail(op))
    /\ UNCHANGED <<files, world>>

(* The oldest by time; which of two of the same time is a matter of order. *)
PruneEntries ==
    /\ Doing("entries")
    /\ IF Cardinality(Present(entries)) <= MaxEntries THEN Next_ /\ UNCHANGED memory
       ELSE \E k \in Present(entries) :
              /\ \A j \in Present(entries) : entries[k].at <= entries[j].at
              /\ Forget(k, op)
    /\ UNCHANGED <<files, world>>

PruneBlobs ==
    /\ Doing("blobs")
    /\ IF Cardinality(Present(blobs)) <= MaxBytes THEN Next_ /\ UNCHANGED blobs
       ELSE \E k \in Present(blobs) :
              /\ \A j \in Present(blobs) : blobs[k] <= blobs[j]
              /\ blobs' = [blobs EXCEPT ![k] = None]
              /\ op' = On(k, <<Step("unlink_blob", k, None)>>) \o op
    /\ UNCHANGED <<entries, files, world>>

(* The file operations. *)
Temp ==
    /\ Doing("temp") \/ Doing("new_temp")
    /\ Next_ /\ temps' = TRUE
    /\ UNCHANGED <<memory, meta, blobFiles, world>>

RenameBlob ==
    /\ Doing("blob") /\ Next_
    /\ blobFiles' = blobFiles \cup {K} /\ temps' = FALSE
    /\ UNCHANGED <<memory, meta, world>>

RenameMeta ==
    /\ Doing("meta") \/ Doing("new_meta")
    /\ Next_
    /\ meta' = [meta EXCEPT ![K] = Head(op).x] /\ temps' = FALSE
    /\ UNCHANGED <<memory, blobFiles, world>>

UnlinkMeta ==
    /\ Doing("unlink_meta") /\ Next_
    /\ meta' = [meta EXCEPT ![K] = None]
    /\ UNCHANGED <<memory, blobFiles, temps, world>>

UnlinkBlob ==
    /\ Doing("unlink_blob") /\ Next_
    /\ blobFiles' = blobFiles \ {K}
    /\ UNCHANGED <<memory, meta, temps, world>>

(* A file operation throws: the temporary file is removed, a blob without  *)
(* metadata too, and the operation has failed.                             *)
FileFails ==
    /\ op # <<>> /\ Head(op).do \in {"temp", "blob", "meta", "new_temp", "new_meta",
                                   "unlink_meta", "unlink_blob", "load", "load_blobs"}
    /\ temps' = (temps /\ Head(op).do \in {"unlink_meta", "unlink_blob", "load", "load_blobs"})
    /\ op' = IF Head(op).do \in {"new_temp", "new_meta"}
               THEN <<Step("unlink_blob", K, None)>> ELSE <<>>
    /\ UNCHANGED <<memory, meta, blobFiles, world>>
-----------------------------------------------------------------------------
(* initialize: everything foreign and temporary is removed, the metadata   *)
(* of before is taken over.                                                *)
Load ==
    /\ Doing("load") /\ Next_
    /\ entries' = [k \in Ids |-> IF meta[k] # None THEN meta[k] ELSE entries[k]]
    /\ temps' \in {temps, FALSE}
    /\ UNCHANGED <<blobs, meta, blobFiles, world>>

\* Mutant: a blob nobody refers to is left on disk.
LoadBlobsMutKeeps ==
    /\ Doing("load_blobs") /\ Next_
    /\ \E touched \in [blobFiles -> 0..now] :
         blobs' = [k \in Ids |-> IF k \in blobFiles /\ entries[k] # None THEN touched[k] ELSE blobs[k]]
    /\ UNCHANGED <<entries, files, world>>

(* A blob is kept with its source and removed without; its time is that of *)
(* the file.                                                               *)
LoadBlobs ==
    /\ Doing("load_blobs") /\ Next_
    /\ \E touched \in [blobFiles -> 0..now] :
         blobs' = [k \in Ids |-> IF k \in blobFiles /\ entries[k] # None THEN touched[k] ELSE blobs[k]]
    /\ blobFiles' = {k \in blobFiles : entries[k] # None}
    /\ temps' = FALSE
    /\ UNCHANGED <<entries, meta, world>>

Ready ==
    /\ Doing("ready") /\ Next_
    /\ ready' = TRUE
    /\ UNCHANGED <<memory, files, now, crashes>>

Crash ==
    /\ crashes < MaxCrashes /\ crashes' = crashes + 1
    /\ entries' = Nothing /\ blobs' = Nothing
    /\ op' = <<>> /\ ready' = FALSE
    /\ UNCHANGED <<files, now>>

Tick ==
    /\ now < MaxNow /\ now' = now + 1
    /\ UNCHANGED <<memory, files, op, ready, crashes>>

Operation ==
    \/ \E k \in Sources : PutSource(k) \/ GetBytes(k) \/ (\E v \in Values : SetEvidence(k, v))
    \/ \E k \in Recoveries, v \in Values : SaveRecovery(k, v)
    \/ List

Running ==
    \/ Put \/ Evidence \/ Save \/ Get \/ Commit \/ SetBlob
    \/ PruneExpired \/ ForgetOld \/ PruneEntries \/ PruneBlobs
    \/ Temp \/ RenameBlob \/ RenameMeta \/ UnlinkMeta \/ UnlinkBlob \/ FileFails
    \/ Load \/ LoadBlobs \/ Ready

Next == Operation \/ Running \/ Crash \/ Tick

Spec == Init /\ [][Next]_vars
-----------------------------------------------------------------------------
(* What memory holds of a persistent session is on disk: a crash at any    *)
(* step loses nothing that an operation has reported (files are written    *)
(* before the Map is set and removed after).                               *)
MemoryOnDisk ==
    /\ \A k \in Present(entries) \cap Saved :
          \/ meta[k] = entries[k]
          \/ \E j \in DOMAIN op : op[j].do = "commit" /\ op[j].x = meta[k]
    /\ Present(blobs) \cap Saved \subseteq blobFiles

(* The bytes of a source go with it, an idle store is within its number of *)
(* entries, and when it becomes ready after a crash no temporary file and  *)
(* no blob of a missing source is left on disk (initialize).               *)
NothingOrphaned ==
    /\ Present(blobs) \subseteq Present(entries)
    /\ ready /\ op = <<>> => Cardinality(Present(entries)) <= MaxEntries
    /\ Doing("ready") => ~temps /\ \A k \in blobFiles : entries[k] # None

(* Evidence is replaced by newer evidence or goes with its source; putting *)
(* the source again does not reset it (existing.evidence).                 *)
EvidenceKept ==
    [][\A k \in Sources :
          entries[k] # None /\ entries'[k] # None =>
              (entries[k].value # None => entries'[k].value # None)]_entries
=============================================================================

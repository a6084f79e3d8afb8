------------------------------- MODULE Stores -------------------------------
(***************************************************************************)
(* What outlives a request: banner and ledgers of the sessions, the three  *)
(* caches and the recovery store.  They share no state, and each is        *)
(* explored while the others rest.  Which requests share a session is      *)
(* chosen at the start.                                                    *)
(***************************************************************************)
EXTENDS SessionState

CONSTANTS
    Sharing,                   \* the sessions of the requests, up to their names
    None, Retention, MaxClock, MaxCrashes,
    Callers, Keys, Values, Torn, MaxCalls, ValueSize, CacheBytes,         \* media
    Calls,                                                                \* source
    Clients, Sizes, MaxKept, KeptBytes, BytesPerSession, MaxTime,         \* continuation
    Assets, Recoveries, Saved, Contents, MaxEntries, BlobBytes            \* recovery

VARIABLES
    part,
    persistent, files, tmp, stuck, index, bytes, chain, op, answer, clock, crashes,
    calls, found,                                                 \* media
    ref, blobs, call, current, names, clock2, crashes2, replies,  \* source
    cache, time, stored, used,                                    \* continuation
    entries, known, meta, blobFiles, temps, steps, ready, clock3, crashes3 \* recovery

MC == INSTANCE MediaCache WITH
          Size <- ValueSize, MaxBytes <- CacheBytes, MaxNow <- MaxClock, now <- clock
DS == INSTANCE DocumentSourceCache WITH
          Sources <- Values, MaxNow <- MaxClock,
          files <- names, now <- clock2, crashes <- crashes2, answer <- replies
CC == INSTANCE MediaContinuationCache WITH
          Sessions <- Clients, MaxEntries <- MaxKept, MaxBytes <- KeptBytes,
          MaxBytesPerSession <- BytesPerSession
RS == INSTANCE VisualRecoveryStore WITH
          Sources <- Assets, Values <- Contents, MaxBytes <- BlobBytes, MaxNow <- MaxClock,
          blobs <- known, op <- steps, now <- clock3, crashes <- crashes3

ASSUME MediaAssumption == MC!NoneDistinct /\ MC!SizeAssumption
ASSUME ContinuationAssumption == CC!LimitsKnown
ASSUME RecoveryAssumption == RS!StoreAssumption

mediaVars == <<persistent, files, tmp, stuck, index, bytes, chain, op, answer, clock,
               crashes, calls, found>>
sourceVars == <<ref, blobs, call, current, names, clock2, crashes2, replies>>
continuationVars == <<cache, time, stored, used>>
recoveryVars == <<entries, known, meta, blobFiles, temps, steps, ready, clock3, crashes3>>

StoresInit ==
    /\ part \in {"banner", "ledgers", "media", "source", "continuation", "recovery"}
    /\ Init /\ MC!Init /\ DS!Init /\ CC!ContInit /\ RS!Init
    /\ part # "media" => persistent
    /\ part \in {"banner", "ledgers"} => session \in Sharing
    /\ part \notin {"banner", "ledgers"} => session = CHOOSE s \in Sharing : TRUE

StoresNext ==
    /\ \/ part = "banner" /\ BannerStep
          /\ UNCHANGED <<mediaVars, sourceVars, continuationVars, recoveryVars>>
       \/ part = "ledgers" /\ LedgerStep
          /\ UNCHANGED <<mediaVars, sourceVars, continuationVars, recoveryVars>>
       \/ part = "media" /\ MC!Next
          /\ UNCHANGED <<vars, sourceVars, continuationVars, recoveryVars>>
       \/ part = "source" /\ DS!Next
          /\ UNCHANGED <<vars, mediaVars, continuationVars, recoveryVars>>
       \/ part = "continuation" /\ CC!ContNext
          /\ UNCHANGED <<vars, mediaVars, sourceVars, recoveryVars>>
       \/ part = "recovery" /\ RS!Next
          /\ UNCHANGED <<vars, mediaVars, sourceVars, continuationVars>>
    /\ UNCHANGED part

StoresSpec ==
    StoresInit /\ [][StoresNext]_<<part, vars, mediaVars, sourceVars, continuationVars, recoveryVars>>

(* The byte and entry counts of the caches are those of what they keep,    *)
(* and a document reference names a blob that exists.                      *)
StoresConsistent ==
    TypeOK /\ MC!NothingUncounted /\ DS!RefHasBlob /\ CC!CountsExact /\ CC!OrderIsUse

(* The media cache implements a map that may forget.                       *)
CacheForgets == MC!CacheForgets

(* The last put of a document decides what its reference names.            *)
LastPutWins == DS!LastPutWins

(* A crash between any two steps of the recovery store loses nothing that  *)
(* was reported and leaves nothing behind that a restart does not remove.  *)
RecoverySound == RS!TypeOK /\ RS!MemoryOnDisk /\ RS!NothingOrphaned

(* Evidence in the recovery store is never reset.                          *)
EvidenceKept == RS!EvidenceKept
=============================================================================

------------------------ MODULE DocumentSourceCache ------------------------
(***************************************************************************)
(* The store of original documents (src/src/cache/document-source-cache.js):*)
(* a reference, the hash of the path a read tool was given, names a blob,  *)
(* the hash of what was read there.  A whole document that is analysed is  *)
(* put under its reference, and a later request for single pages resolves  *)
(* it (media-adapters.js).  Nothing serialises the calls.  There is one    *)
(* reference here: others have other files.                                *)
(*                                                                         *)
(* A put renames a finished file over the reference; a resolve writes the  *)
(* renewed time into the file in place, in two steps here: the truncation, *)
(* which reaches the file that has the name at that time, and the contents,*)
(* which reach that file also when it has lost its name.                   *)
(***************************************************************************)
EXTENDS Naturals

CONSTANTS
    Calls,          \* calls of put and resolve
    Sources,        \* contents the document at the path has had
    None, Torn,
    Retention, MaxNow, MaxCrashes

VARIABLES
    ref,            \* the reference's file: its number, source and time; or None
    blobs,          \* sources whose blob exists
    call,           \* what a call does next, and what it holds
    answer,         \* what a resolve has answered
    current,        \* history: the source of the put that renamed last
    files,          \* how many files the reference has had
    now, crashes

vars == <<ref, blobs, call, answer, current, files, now, crashes>>

New == [at |-> "new", src |-> None, time |-> 0, file |-> 0, since |-> None]

Init ==
    /\ ref = None /\ blobs = {} /\ current = None /\ files = 0 /\ now = 0 /\ crashes = 0
    /\ call = [c \in Calls |-> New] /\ answer = [c \in Calls |-> Torn]

Step(c, from, to) == call[c].at = from /\ call' = [call EXCEPT ![c].at = to]

Answer(c, from, x) ==
    /\ Step(c, from, "done")
    /\ answer' = [answer EXCEPT ![c] = x]

-----------------------------------------------------------------------------
BeginPut(c) ==
    /\ call[c].at = "new"
    /\ \E s \in Sources :
           call' = [call EXCEPT ![c] = [New EXCEPT !.at = "blob", !.src = s, !.time = now]]
    /\ UNCHANGED <<ref, blobs, answer, current, files, now, crashes>>

\* The blob exists already, or its finished file is renamed to its name.
PutBlob(c) ==
    /\ Step(c, "blob", "rename")
    /\ blobs' = blobs \cup {call[c].src}
    /\ UNCHANGED <<ref, answer, current, files, now, crashes>>

\* Mutant: the reference is written before the blob.
PutRefMutFirst(c) ==
    /\ call[c].at = "blob" /\ call' = [call EXCEPT ![c].at = "blob"]
    /\ files' = files + 1 /\ files < 4
    /\ ref' = [file |-> files', src |-> call[c].src, time |-> call[c].time]
    /\ current' = call[c].src
    /\ UNCHANGED <<blobs, answer, now, crashes>>

PutRef(c) ==
    /\ Step(c, "rename", "done")
    /\ files' = files + 1
    /\ ref' = [file |-> files', src |-> call[c].src, time |-> call[c].time]
    /\ current' = call[c].src
    /\ UNCHANGED <<blobs, answer, now, crashes>>

\* Any file operation of a put may fail; the caller logs it and goes on.
PutFails(c) ==
    /\ Step(c, "blob", "done") \/ Step(c, "rename", "done")
    /\ UNCHANGED <<ref, blobs, answer, current, files, now, crashes>>

-----------------------------------------------------------------------------
Expired(time) == Retention > 0 /\ now - time > Retention
Whole == IF ref = None THEN FALSE ELSE ref.src # Torn

NotFound(c) ==
    /\ ~Whole /\ Answer(c, "new", None)
    /\ UNCHANGED <<ref, blobs, current, files, now, crashes>>

ReadRef(c) ==
    /\ Whole /\ call[c].at = "new"
    /\ call' = [call EXCEPT ![c] = [New EXCEPT !.at = IF Expired(ref.time) THEN "drop" ELSE "read",
                                               !.src = ref.src, !.since = current]]
    /\ UNCHANGED <<ref, blobs, answer, current, files, now, crashes>>

ReadBlob(c) ==
    /\ Step(c, "read", IF call[c].src \in blobs THEN "open" ELSE "drop")
    /\ UNCHANGED <<ref, blobs, answer, current, files, now, crashes>>

\* fs.writeFile: the name is opened and truncated, or created anew.
Open(c) ==
    /\ call[c].at = "open"
    /\ files' = IF ref = None THEN files + 1 ELSE files
    /\ ref' = [file |-> IF ref = None THEN files' ELSE ref.file, src |-> Torn, time |-> now]
    /\ call' = [call EXCEPT ![c].at = "write", ![c].file = ref'.file, ![c].time = now]
    /\ UNCHANGED <<blobs, answer, current, now, crashes>>

Write(c) ==
    /\ Answer(c, "write", call[c].src)
    /\ ref' = IF ref = None THEN None
              ELSE IF ref.file # call[c].file THEN ref
              ELSE [ref EXCEPT !.src = call[c].src, !.time = call[c].time]
    /\ UNCHANGED <<blobs, current, files, now, crashes>>

\* The blob cannot be read, or the file not be written: the reference is removed,
\* whichever it is by then, or stays if that fails as well.
ResolveFails(c) ==
    /\ Step(c, "read", "drop") \/ Step(c, "open", "drop") \/ Step(c, "write", "drop")
    /\ UNCHANGED <<ref, blobs, answer, current, files, now, crashes>>

Drop(c) ==
    /\ Answer(c, "drop", None)
    /\ ref' \in {None, ref}
    /\ UNCHANGED <<blobs, current, files, now, crashes>>

-----------------------------------------------------------------------------
Tick == now < MaxNow /\ now' = now + 1
        /\ UNCHANGED <<ref, blobs, call, answer, current, files, crashes>>

\* The process ends: calls are gone where they are; the files stay.
Crash ==
    /\ crashes < MaxCrashes /\ crashes' = crashes + 1
    /\ call' = [c \in Calls |-> IF call[c].at = "new" THEN New ELSE [call[c] EXCEPT !.at = "done"]]
    /\ UNCHANGED <<ref, blobs, answer, current, files, now>>

Next ==
    \/ Tick \/ Crash
    \/ \E c \in Calls :
        \/ BeginPut(c) \/ PutBlob(c) \/ PutRef(c) \/ PutFails(c)
        \/ NotFound(c) \/ ReadRef(c) \/ ReadBlob(c) \/ Open(c) \/ Write(c)
        \/ ResolveFails(c) \/ Drop(c)

Spec == Init /\ [][Next]_vars

-----------------------------------------------------------------------------
\* A reference that can be read names a blob that is there, whatever order the
\* files are written in, whoever fails and wherever the process ends; so a request
\* for pages never loses a document it has found.
RefHasBlob == Whole => ref.src \in blobs

\* A file that has changed since is resolved to what was put last, which a test
\* asks for (document-source-cache.test.js:29): a call is told the source that was
\* the last one put when it read the reference.
LastPutWins ==
    \A c \in Calls : answer[c] \in Sources => answer[c] = call[c].since
=============================================================================

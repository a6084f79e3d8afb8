--------------------------- MODULE RequestHandler ---------------------------
(***************************************************************************)
(* The request listener of createProxyServer: how one HTTP request is      *)
(* authenticated, routed, answered and cleaned up, with a client that may  *)
(* leave at every await.  An action is the code from one await to the next *)
(* one that another event can interleave with; what is awaited (a base     *)
(* call, the analysis of the media, a write to the client) may fail.       *)
(* The managed loop, the progress stream, the media analysis and a model   *)
(* call have modules of their own and are one step each here.              *)
(***************************************************************************)
EXTENDS Naturals

(* What decides the route of a request: its endpoint and body (kind), the  *)
(* stream flag, the media its messages hold, its managed or search tools,  *)
(* and the configuration of the compaction and of the backend.  Nothing    *)
(* refuses a count_tokens request with a stream flag.                      *)
Kinds == {"local", "chat", "tokenize", "unmanaged", "garbled", "child",
          "compact", "count", "messages"}
Requests ==
    {q \in [kind : Kinds, stream : BOOLEAN, loop : BOOLEAN, rewritten : BOOLEAN,
            media : {"none", "cached", "fresh", "native", "directed"},
            compactor : {"none", "external"}, openai : BOOLEAN] :
        /\ q.stream => q.kind \in {"chat", "child", "compact", "messages", "count"}
        /\ q.loop => q.kind = "messages"
        /\ q.media # "none" => q.kind \in {"messages", "count"}
        /\ q.rewritten => q.kind = "count" /\ q.media = "none"
        /\ q.compactor = "external" \/ q.openai => q.kind = "compact"}

VARIABLES
    at,         \* where the handler is
    req,        \* the request
    head,       \* the response head that was written: none, json, sse or raw
    verdict,    \* how the handler ended the response
    left,       \* res 'close' was emitted
    completed,  \* what keeps the close listener from aborting
    aborted,    \* abortController.signal
    progress,   \* the ProgressStream: none, open, or broken by a failed write
    held,       \* what must be given back when the handler returns
    native,     \* raw images are still in the request for the base model
    fellBack,   \* nativeVisionRuntimeFallbackUsed
    refused,    \* the base model has refused its images
    clash,      \* a head was written twice (ERR_HTTP_HEADERS_SENT)
    escaped     \* the async listener rejected: nobody handles that

vars == <<at, req, head, verdict, left, completed, aborted, progress, held,
          native, fellBack, refused, clash, escaped>>

response == <<head, verdict, clash>>
client == <<left, aborted>>
vision == <<native, fellBack, refused>>
same == <<req, client, vision, escaped>>

Resources == {"telemetry", "liveness", "progress", "media", "assets"}
Messages == {"child", "compact", "messages"}   \* POST /v1/messages

TypeOK ==
    /\ req \in Requests
    /\ head \in {"none", "json", "sse", "raw"}
    /\ verdict \in {"none", "ok", "error", "cut"}
    /\ progress \in {"none", "open", "broken"}
    /\ held \subseteq Resources
    /\ {left, completed, aborted, native, fellBack, refused, clash, escaped} \subseteq BOOLEAN

Init ==
    /\ at = "idle"
    /\ req \in Requests
    /\ head = "none" /\ verdict = "none" /\ clash = FALSE
    /\ left = FALSE /\ completed = FALSE /\ aborted = FALSE
    /\ progress = "none" /\ held = {}
    /\ native = (req.media = "native") /\ fellBack = FALSE /\ refused = FALSE
    /\ escaped = FALSE
-----------------------------------------------------------------------------
(* What the steps are made of *)

Go(l) == at' = l
Hold(x) == held' = held \cup x
Drop(x) == held' = held \ x
Throw == Go("catch") /\ UNCHANGED <<response, completed, progress>>

(* sendJson: a head after a head throws, the rest ends the response.  The  *)
(* request counts as completed either way.                                 *)
SendJson(v) ==
    /\ completed' = TRUE
    /\ IF head # "none"
         THEN clash' = TRUE /\ Go("catch") /\ UNCHANGED <<head, verdict>>
         ELSE head' = "json" /\ verdict' = v /\ Go("finally") /\ UNCHANGED clash
    /\ UNCHANGED progress

(* The stream is opened, if it is not, and answered by l. *)
OpenProgress(l) ==
    \/ /\ ~left /\ head = "none"
       /\ head' = "sse" /\ progress' = "open" /\ Go(l)
       /\ UNCHANGED <<verdict, clash, completed>>
    \/ /\ head' = IF head = "none" THEN "sse" ELSE head
       /\ clash' = (clash \/ head # "none")
       /\ progress' = "broken" /\ Go("catch")
       /\ UNCHANGED <<verdict, completed>>

(* A write to the open stream can fail at any time; the chain is broken.   *)
WriteFails ==
    /\ progress = "open"
    /\ progress' = "broken" /\ Go("catch")
    /\ UNCHANGED <<response, completed>>

(* The answer: the final events, which end the stream, or a JSON body. *)
Answer ==
    IF req.stream
      THEN \/ /\ progress = "open" /\ ~left
              /\ verdict' = "ok" /\ completed' = TRUE /\ Go("finally")
              /\ UNCHANGED <<head, clash, progress>>
           \/ WriteFails
      ELSE SendJson("ok")

(* An awaited operation that takes the signal fails once that is aborted. *)
Await(l) ==
    \/ ~aborted /\ Go(l) /\ UNCHANGED <<response, completed, progress>>
    \/ Throw
-----------------------------------------------------------------------------
(* Authentication, the local routes, the OpenAI client *)

\* Mutant: the request is registered before it is authenticated.
ReceiveMutRegistersFirst ==
    /\ at = "idle"
    /\ held' = IF req.kind \in Messages THEN {"telemetry"} ELSE {}
    /\ \/ Go("route") /\ UNCHANGED response
       \/ head' = "json" /\ verdict' = "error" /\ Go("returned") /\ UNCHANGED clash
    /\ UNCHANGED <<same, completed, progress>>

(* A rejected request is answered before the try statement: nothing of it  *)
(* was registered and nothing is cleaned up.                               *)
Receive ==
    /\ at = "idle"
    /\ \/ Go("route") /\ UNCHANGED response
       \/ head' = "json" /\ verdict' = "error" /\ Go("returned") /\ UNCHANGED clash
    /\ UNCHANGED <<same, completed, progress, held>>

\* The startup probes, /health, the status line and the routed models.
Local ==
    /\ at = "route" /\ req.kind = "local"
    /\ \E v \in {"ok", "error"} : SendJson(v)
    /\ UNCHANGED <<same, held>>

Tokenize ==
    /\ at = "route" /\ req.kind = "tokenize"
    /\ (~aborted /\ SendJson("ok")) \/ Throw
    /\ UNCHANGED <<same, held>>

(* forwardChatCompletions and the catch of its own. *)
ChatOpens ==
    /\ at = "route" /\ req.kind = "chat" /\ req.stream /\ ~aborted
    /\ head' = "sse" /\ Go("chat")
    /\ UNCHANGED <<same, verdict, clash, completed, progress, held>>

ChatEnds ==
    /\ at = "chat" \/ (at = "route" /\ req.kind = "chat" /\ ~req.stream)
    /\ ~aborted
    /\ IF req.stream
         THEN verdict' = "ok" /\ completed' = TRUE /\ Go("finally")
              /\ UNCHANGED <<head, clash, progress>>
         ELSE SendJson("ok")
    /\ UNCHANGED <<same, held>>

(* An error after the head is an event of the stream, or cuts it. *)
ChatFails ==
    /\ at = "chat" \/ (at = "route" /\ req.kind = "chat")
    /\ \/ aborted /\ UNCHANGED <<head, verdict>>
       \/ ~aborted /\ head = "none" /\ head' = "json" /\ verdict' = "error"
       \/ ~aborted /\ head = "sse" /\ verdict' \in {"error", "cut"} /\ UNCHANGED head
    /\ completed' = TRUE /\ Go("finally")
    /\ UNCHANGED <<same, clash, progress, held>>
-----------------------------------------------------------------------------
(* The body, and what is forwarded as it is *)

ReadBody ==
    /\ at = "route" /\ req.kind \notin {"local", "tokenize", "chat"}
    /\ Await(CASE req.kind = "garbled" -> "forward"
               [] req.kind = "unmanaged" -> "traced"
               [] OTHER -> "begin")
    /\ UNCHANGED <<same, held>>

(* writeWebToolTrace fails silently and knows no signal. *)
Traced ==
    /\ at = "traced" /\ Go("forward")
    /\ UNCHANGED <<same, response, completed, progress, held>>

(* forwardTransparent with a signal that is already aborted destroys the   *)
(* upstream request before its error has a listener: the error that it     *)
(* emits is handled by nobody and ends the process.                        *)
Forward ==
    /\ at = "forward"
    /\ Go(IF aborted THEN "crashed" ELSE "forwarding")
    /\ UNCHANGED <<same, response, completed, progress, held>>

(* The upstream answers, its body is piped and ends, or it fails.          *)
ForwardHead ==
    /\ at = "forwarding" /\ ~aborted
    /\ head' = IF head = "none" THEN "raw" ELSE head
    /\ Go("piping")
    /\ UNCHANGED <<same, verdict, clash, completed, progress, held>>

ForwardEnds ==
    /\ at = "piping" /\ ~aborted /\ Go("draining")
    /\ UNCHANGED <<same, response, completed, progress, held>>

\* Mutant: an abort destroys the upstream and the promise stays.
ForwardFailsMutDestroyed ==
    /\ at \in {"forwarding", "piping"}
    /\ ~aborted /\ Throw
    /\ UNCHANGED <<same, held>>

ForwardFails ==
    /\ at \in {"forwarding", "piping"}
    /\ Throw
    /\ UNCHANGED <<same, held>>

(* Only the finish of the response settles a forward whose upstream has    *)
(* ended: a client that leaves with the tail unread may leave it pending.  *)
(* The close of an answered response may come before the trace of it.      *)
ForwardFinish ==
    /\ at = "draining"
    /\ \/ verdict' = "ok" /\ Go("forwarded")
       \/ left /\ Go("stuck") /\ UNCHANGED verdict
    /\ UNCHANGED <<same, head, clash, completed, progress, held>>

Forwarded ==
    /\ at = "forwarded"
    /\ completed' = TRUE /\ Go("finally")
    /\ UNCHANGED <<same, response, progress, held>>
-----------------------------------------------------------------------------
(* A message request is registered; a WebFetch child is answered *)

Begin ==
    /\ at = "begin"
    /\ Hold(IF req.kind \in Messages THEN {"telemetry"} ELSE {})
    /\ Go(IF req.kind = "child" THEN "child" ELSE "enrich")
    /\ UNCHANGED <<same, response, completed, progress>>

(* processWebFetchContent has a fallback of its own: only an abort throws. *)
Child ==
    /\ at = "child"
    /\ IF aborted THEN Throw
       ELSE IF req.stream THEN OpenProgress("emit") ELSE SendJson("ok")
    /\ held' = held \cup (IF progress' # "none" THEN {"progress"} ELSE {})
    /\ UNCHANGED same

\* Which of the request's paths is its own.
Classified ==
    CASE req.kind = "compact" -> "compact"
      [] req.kind = "count" /\ req.media = "none" -> "count"
      [] req.media = "none" /\ ~req.loop -> "open"
      [] OTHER -> "managed"

(* The returned WebFetch results are fetched again where they are empty;   *)
(* every failure is swallowed, the abort included.                         *)
Enrich ==
    /\ at = "enrich"
    /\ Go(Classified)
    /\ UNCHANGED <<same, response, completed, progress, held>>

(* A count without media: forwarded, or asked of the base model when the   *)
(* history was rewritten, the backend routed or its web tools native.      *)
CountPlain ==
    /\ at = "count"
    /\ IF ~req.rewritten
         THEN Go("forward") /\ UNCHANGED <<response, completed, progress>>
         ELSE (~aborted /\ SendJson("ok")) \/ Throw
    /\ UNCHANGED <<same, held>>
-----------------------------------------------------------------------------
(* The compaction of a context *)

External == req.compactor = "external"

CompactRoute ==
    /\ at = "compact" /\ ~External
    /\ Go(IF req.openai THEN "selected" ELSE "forward")
    /\ UNCHANGED <<same, response, completed, progress, held>>

(* openContextCompactLiveness: the head and a first ping, whose write may  *)
(* fail, then a timer.  The ping to a client that left is skipped.         *)
OpenLiveness ==
    /\ at = "compact" /\ External
    /\ IF ~req.stream
         THEN Go("external") /\ UNCHANGED <<head, held>>
         ELSE /\ head' = "sse"
              /\ \/ Go("external") /\ Hold({"liveness"})
                 \/ Go("catch") /\ UNCHANGED held
    /\ UNCHANGED <<same, verdict, clash, completed, progress>>

RunContextCompact ==
    /\ at = "external"
    /\ \/ ~aborted /\ Go("summary")
       \/ ~aborted /\ Go("fallback")
       \/ aborted /\ Go("catch")
    /\ UNCHANGED <<same, response, completed, progress, held>>

(* sendContextCompactResult after stop has waited for the pings. *)
SendContextCompactResult ==
    /\ at = "summary"
    /\ Drop({"liveness"})
    /\ \/ ~left /\ req.stream /\ verdict' = "ok" /\ completed' = TRUE /\ Go("finally")
          /\ UNCHANGED <<head, clash, progress>>
       \/ req.stream /\ Throw
       \/ ~req.stream /\ SendJson("ok")
    /\ UNCHANGED same

CompactFallback ==
    /\ at = "fallback"
    /\ Drop({"liveness"})
    /\ Go(IF req.openai THEN "selected" ELSE "forward")
    /\ UNCHANGED <<same, response, completed, progress>>

\* Mutant: the stream is opened also when the pings have opened it.
OpenSelectedMutAlways ==
    /\ at = "selected" /\ req.stream
    /\ OpenProgress("relay") /\ Hold({"progress"})
    /\ UNCHANGED same

(* forwardSelectedCompact: the stream may have been opened for the pings,  *)
(* then the message alone is started.                                      *)
OpenSelected ==
    /\ at = "selected" /\ req.stream
    /\ Hold({"progress"})
    /\ IF head = "none" THEN OpenProgress("relay")
       ELSE /\ \/ ~left /\ progress' = "open" /\ Go("relay")
               \/ progress' = "broken" /\ Go("catch")
            /\ UNCHANGED <<response, completed>>
    /\ UNCHANGED same

RelaySelected ==
    /\ at = "relay" \/ (at = "selected" /\ ~req.stream)
    /\ (~aborted /\ Answer) \/ Throw
    /\ UNCHANGED <<same, held>>
-----------------------------------------------------------------------------
(* The media of a managed request *)

Validate ==
    /\ at = "managed"
    /\ \/ Throw
       \/ Go(IF req.media = "none" THEN "preflight" ELSE "prepare")
          /\ UNCHANGED <<response, completed, progress>>
    /\ UNCHANGED <<same, held>>

\* The assets of a directed request are created before its files.
Assets == IF req.media = "directed" THEN {"assets"} ELSE {}

PrepareMedia ==
    /\ at = "prepare" /\ ~aborted
    /\ Go("lookup") /\ Hold({"media"} \cup Assets)
    /\ UNCHANGED <<same, response, completed, progress>>

(* prepareMediaHandles removes what it wrote when it fails itself. *)
PrepareFails ==
    /\ at = "prepare"
    /\ Throw /\ Hold(Assets)
    /\ UNCHANGED same

(* The caches are read without the signal; a cached request needs no       *)
(* managed work unless it has tools.                                       *)
LookUp ==
    /\ at = "lookup"
    /\ Go(IF req.media = "cached" /\ ~req.loop THEN "cached"
          ELSE IF req.stream /\ req.media # "cached" THEN "early" ELSE "transform")
    /\ UNCHANGED <<same, response, completed, progress, held>>

(* adaptMessages from the caches; the files go before the base call. *)
CachedTransform ==
    /\ at = "cached"
    /\ \/ Go(IF req.kind = "count" THEN "count_answer" ELSE "open")
          /\ Drop({"media"}) /\ UNCHANGED <<response, completed, progress>>
       \/ Throw /\ UNCHANGED held
    /\ UNCHANGED same

(* The bootstrap count swallows every failure but an abort; the stream     *)
(* opens before the media are read, unless they are raw images only.       *)
OpenEarly ==
    /\ at = "early"
    /\ \/ aborted /\ Throw /\ UNCHANGED held
       \/ native /\ Go("transform") /\ UNCHANGED <<response, completed, progress, held>>
       \/ ~native /\ OpenProgress("transform") /\ Hold({"progress"})
    /\ UNCHANGED same

(* adaptMessages with every analysis it needs, and its progress. *)
Transform ==
    /\ at = "transform"
    /\ \/ Await(CASE req.media = "directed" /\ req.kind = "messages" -> "plan"
                  [] native /\ req.kind = "count" -> "probe"
                  [] OTHER -> "clean")
       \/ WriteFails
    /\ UNCHANGED <<same, held>>

(* Directed perception: a plan that fails fails the request, a perception  *)
(* that fails becomes evidence; then the assets go.                        *)
Plan ==
    /\ at = "plan"
    /\ Await("perceive") \/ WriteFails
    /\ UNCHANGED <<same, held>>

Perceive ==
    /\ at = "perceive"
    /\ \/ Go("clean") /\ Drop({"assets"}) /\ UNCHANGED <<response, completed, progress>>
       \/ WriteFails /\ UNCHANGED held
    /\ UNCHANGED same

(* A count of raw images is the probe of the base model's eyes. *)
Probe ==
    /\ at = "probe"
    /\ \/ Go("clean") /\ UNCHANGED <<response, vision, completed, progress>>
       \/ ~aborted /\ Go("clean") /\ native' = FALSE /\ refused' = TRUE
          /\ UNCHANGED <<response, completed, progress, fellBack>>
       \/ Throw /\ UNCHANGED <<native, fellBack>> /\ refused' = TRUE
    /\ UNCHANGED <<req, client, escaped, held>>

\* Mutant: the files of a directed request are left to the end.
CleanMutNoCleanup ==
    /\ at = "clean" /\ Go("preflight")
    /\ UNCHANGED <<same, response, completed, progress, held>>

Clean ==
    /\ at = "clean" /\ Go("preflight") /\ Drop({"media", "assets"})
    /\ UNCHANGED <<same, response, completed, progress>>
-----------------------------------------------------------------------------
(* The base model and the answer *)

(* The usage preflight, where it is made, throws on an abort alone; the    *)
(* stream opens now at the latest, that of a count too.                    *)
Preflight ==
    /\ at = "preflight"
    /\ LET next == IF req.kind = "count" THEN "count_answer" ELSE "model" IN
       \/ aborted /\ req.stream /\ Throw /\ UNCHANGED held
       \/ req.stream /\ progress = "none" /\ OpenProgress(next) /\ Hold({"progress"})
       \/ /\ ~(req.stream /\ progress = "none")
          /\ \/ Go(next) /\ UNCHANGED <<response, completed, progress, held>>
             \/ WriteFails /\ UNCHANGED held
    /\ UNCHANGED same

(* The count is a JSON answer, whatever the response has become; that of   *)
(* raw images is the probe's and asks nothing.                             *)
CountAnswer ==
    /\ at = "count_answer"
    /\ ((~aborted \/ native) /\ SendJson("ok")) \/ Throw
    /\ UNCHANGED <<same, held>>

(* The paths without managed work open their stream here. *)
OpenDirect ==
    /\ at = "open"
    /\ IF req.stream THEN OpenProgress("model") /\ Hold({"progress"})
       ELSE Go("model") /\ UNCHANGED <<response, completed, progress, held>>
    /\ UNCHANGED same

\* What the base model is asked for comes, or fails.
Asked ==
    /\ (~(refused /\ native) /\ Await("language")) \/ WriteFails
    /\ UNCHANGED <<same, held>>

RunLoop == at = "model" /\ req.loop /\ Asked
CollectBase == at = "model" /\ ~req.loop /\ Asked

(* The base model rejects the raw images in the request. *)
BaseRefuses ==
    /\ at = "model" /\ native /\ ~aborted
    /\ refused' = TRUE
    /\ IF fellBack THEN Throw /\ UNCHANGED fellBack
       ELSE /\ Go("adapt") /\ fellBack' = TRUE
            /\ UNCHANGED <<response, completed, progress>>
    /\ UNCHANGED <<req, client, native, escaped, held>>

\* Mutant: the adapted messages are not put into the request.
MaterializeMutForgets ==
    /\ at = "adapt"
    /\ Await("model") \/ WriteFails
    /\ UNCHANGED <<same, held>>

(* materializeRuntimeNativeVisionFallback, once per request. *)
Materialize ==
    /\ at = "adapt"
    /\ \/ ~aborted /\ Go("model") /\ native' = FALSE
          /\ UNCHANGED <<response, completed, progress>>
       \/ Throw /\ UNCHANGED native
       \/ WriteFails /\ UNCHANGED native
    /\ UNCHANGED <<req, client, fellBack, refused, escaped, held>>

(* applyFinalPresentationLanguage keeps the original on every failure; its *)
(* progress may be what fails.                                             *)
Language ==
    /\ at = "language"
    /\ \/ Go("emit") /\ UNCHANGED <<response, completed, progress>>
       \/ WriteFails
    /\ UNCHANGED <<same, held>>

Emit ==
    /\ at = "emit"
    /\ Answer
    /\ UNCHANGED <<same, held>>
-----------------------------------------------------------------------------
(* The catch and the finally *)

\* Mutant: the JSON error does not look at the head.
CatchMutBlind ==
    /\ at = "catch"
    /\ IF aborted /\ left
         THEN Go("finally") /\ UNCHANGED <<response, completed, escaped>>
       ELSE IF progress # "none"
         THEN \/ /\ progress = "open" /\ ~left
                 /\ verdict' = "error" /\ completed' = TRUE /\ Go("finally")
                 /\ UNCHANGED <<head, clash, escaped>>
              \/ escaped' = TRUE /\ Go("finally") /\ UNCHANGED <<response, completed>>
       ELSE /\ verdict' = "error" /\ head' = "json" /\ clash' = (clash \/ head # "none")
            /\ completed' = TRUE /\ Go("finally") /\ UNCHANGED escaped
    /\ UNCHANGED <<req, client, vision, progress, held>>

\* Mutant: a response that has begun without the stream is left open.
CatchMutLeftOpen ==
    /\ at = "catch"
    /\ Go("finally")
    /\ \/ aborted /\ left /\ UNCHANGED <<response, completed, escaped>>
       \/ /\ ~(aborted /\ left) /\ progress = "open" /\ ~left
          /\ verdict' = "error" /\ completed' = TRUE
          /\ UNCHANGED <<head, clash, escaped>>
       \/ /\ ~(aborted /\ left) /\ progress # "none"
          /\ escaped' = TRUE
          /\ UNCHANGED <<response, completed>>
       \/ /\ ~(aborted /\ left) /\ progress = "none"
          /\ IF head = "none" THEN head' = "json" /\ verdict' = "error"
             ELSE UNCHANGED <<head, verdict>>
          /\ completed' = TRUE
          /\ UNCHANGED <<clash, escaped>>
    /\ UNCHANGED <<req, client, vision, progress, held>>

(* A client that left is not answered; a stream gets an error event, which *)
(* rejects on a broken chain; a fresh response an error body; any other is *)
(* destroyed.                                                              *)
Catch ==
    /\ at = "catch"
    /\ Go("finally")
    /\ \/ aborted /\ left /\ UNCHANGED <<response, completed, escaped>>
       \/ /\ ~(aborted /\ left) /\ progress = "open" /\ ~left
          /\ verdict' = "error" /\ completed' = TRUE
          /\ UNCHANGED <<head, clash, escaped>>
       \/ /\ ~(aborted /\ left) /\ progress # "none"
          /\ escaped' = TRUE
          /\ UNCHANGED <<response, completed>>
       \/ /\ ~(aborted /\ left) /\ progress = "none"
          /\ IF head = "none" THEN head' = "json" /\ verdict' = "error"
             ELSE verdict' = "cut" /\ UNCHANGED head
          /\ completed' = TRUE
          /\ UNCHANGED <<clash, escaped>>
    /\ UNCHANGED <<req, client, vision, progress, held>>

\* Mutant: a request whose client left is not released.
FinallyMutOnlyAnswered ==
    /\ at = "finally"
    /\ Go("cleanup")
    /\ Drop({"liveness", "progress", "assets"} \cup (IF aborted THEN {} ELSE {"telemetry"}))
    /\ UNCHANGED <<same, response, completed, progress>>

(* The pings and the timers are stopped, the request is no longer busy or  *)
(* active, the assets are forgotten.                                       *)
Finally ==
    /\ at = "finally"
    /\ Go("cleanup")
    /\ Drop({"liveness", "progress", "telemetry", "assets"})
    /\ UNCHANGED <<same, response, completed, progress>>

Cleanup ==
    /\ at = "cleanup"
    /\ Go("returned")
    /\ Drop({"media"})
    /\ UNCHANGED <<same, response, completed, progress>>

(* res 'close': the client left, or the response is over. *)
Close ==
    /\ at \notin {"idle", "returned", "crashed"} /\ ~left
    /\ left' = TRUE
    /\ aborted' = (aborted \/ ~completed)
    /\ UNCHANGED <<at, req, response, completed, progress, held, vision, escaped>>
-----------------------------------------------------------------------------
Step ==
    \/ Receive \/ Local \/ Tokenize \/ ChatOpens \/ ChatEnds \/ ChatFails
    \/ ReadBody \/ Traced \/ Forward \/ ForwardHead \/ ForwardEnds
    \/ ForwardFails \/ ForwardFinish \/ Forwarded
    \/ Begin \/ Child \/ Enrich \/ CountPlain
    \/ CompactRoute \/ OpenLiveness \/ RunContextCompact
    \/ SendContextCompactResult \/ CompactFallback \/ OpenSelected \/ RelaySelected
    \/ Validate \/ PrepareMedia \/ PrepareFails \/ LookUp \/ CachedTransform \/ OpenEarly
    \/ Transform \/ Plan \/ Perceive \/ Probe \/ Clean
    \/ Preflight \/ CountAnswer \/ OpenDirect \/ RunLoop \/ CollectBase
    \/ BaseRefuses \/ Materialize
    \/ Language \/ Emit \/ Catch \/ Finally \/ Cleanup

Next == Step \/ Close

(* Every call has a timeout, and a busy base model accepts in the end; a   *)
(* client reads what it is sent or leaves.                                 *)
Spec == Init /\ [][Next]_vars /\ WF_vars(Step)
-----------------------------------------------------------------------------
(* What the listener promises *)

(* When the handler returns it holds no timer, no active request, no file  *)
(* and no asset, on whatever path and wherever it failed or the client     *)
(* left (the finally block and the cleanups before it).                    *)
NothingHeld == at = "returned" => held = {}

(* The temporary files and the assets of the media are gone before the     *)
(* base model is asked for the answer (cleanup, directedVisualStore.clear). *)
MediaGoneBeforeModel ==
    at \in {"model", "count_answer"} => held \cap {"media", "assets"} = {}

(* A client that stays gets an answer, an error or a closed connection,    *)
(* unless the error event itself was rejected (the catch block).           *)
StayingIsAnswered == at = "returned" /\ ~left /\ ~escaped => verdict # "none"

(* A head is written onto a response that has one in one case only: the    *)
(* count of a streaming request whose media are not all cached, for which  *)
(* the progress stream was opened (headersSent).                           *)
StreamedCount ==
    req.kind = "count" /\ req.stream /\ req.media \in {"fresh", "native", "directed"}
OneHead == clash => StreamedCount

(* The base model is not sent images it has refused, and a request falls   *)
(* back once (materializeRuntimeNativeVisionFallback).                     *)
RefusedImagesGone == at \in {"model", "count_answer"} /\ refused => ~native

(* What the handler took it gives back in time, and it says of a request   *)
(* one thing.                                                              *)
ResourcesReleased == NothingHeld /\ MediaGoneBeforeModel /\ RefusedImagesGone
AnsweredOnce == OneHead /\ StayingIsAnswered

(* Every handler returns and cleans up, except a forward that was aborted  *)
(* before it began, which ends the process, or whose client left with the  *)
(* tail unread, which nothing need settle.                                 *)
HandlerReturns == at # "idle" ~> at \in {"returned", "stuck", "crashed"}

(* The disconnect of a client ends its own request and not the process     *)
(* ("Client disconnect removes a waiting job or aborts active ... base-vLLM *)
(* work", README.md).                                                      *)
DisconnectIsContained == left => at # "crashed"
=============================================================================

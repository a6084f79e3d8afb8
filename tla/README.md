# vllm-cc-tools-proxy in TLA+

The program is a Node.js proxy between Claude Code, which speaks the Anthropic
Messages protocol, and a vLLM server.  For a request it may turn attachments into
text (PDF and image analysis by a vision model), execute the web tools the model
asks for itself, ask the model again with their results, and stream progress and
the answer to the client.  Everything runs in one process on one event loop, so
what is hard is not parallelism but what may happen between two awaits: other
requests of the same session, an aborted signal, a client that stops reading, a
promise that several requests share, a queue whose first element failed.

This directory holds the modules that model those parts, the TLC configurations
that check them on small instances, and proofs of the properties that matter most.

## 1. The parts of the system

Paths are relative to `src/src/` of the repository.

| part | state it keeps | operations | talks to |
|---|---|---|---|
| HTTP server, routing (`services/proxy-server.js` and its selectors) | session table, tool ledgers per session, one AbortController per request | request listener, `res` close, `openManagedProgress`, catch block, busy retry of `fetchUpstream` | everything |
| Managed tool loop (`proxy/managed-loop.js`) | tool execution ledger (shared by the requests of a session), rounds, previous action signature, probe candidate | model round, classification, tool execution, deferral and continuation, completion probe | upstream, web tools, client stream |
| Client response stream (`proxy/progress.js`, `proxy/anthropic-sse.js`, `lib/http.js`) | promise queue, pending updates, timer, block indices, flags | update, flush, banner, close, raw writes, server tool bridge, final and error emitters, stop | the client's socket |
| Media analysis (`media/analysis-registry.js`, `proxy/media-adapters.js`) | in-flight entries with waiter counts and a shared AbortController | cached analysis, join, leave, settle | media cache, semaphore, vision pipeline, client stream |
| Concurrency limits (`concurrency/semaphore.js`, `admission-controller.js`) | permits, queue of waiting acquires | acquire, abort, release, drain | media analysis, WebFetch processor |
| Media caches (`cache/*.js`) | files on disk, index, write chain, document references, continuation entries per session | get, set, evict, expire, restart, put, resolve, reset | media analysis, loop |
| Visual recovery store (`visual/visual-recovery-store.js`) | sources, bytes and recoveries in memory and in files | put, get, evidence, save, list, initialize | only its tests |
| Runtime telemetry (`proxy/runtime-telemetry.js`) | counters, banner reservations per session | record, reserve, commit, release | server, client stream |
| Upstream client (`services/base-upstream.js`, `base-busy-retry.js`) | none beyond a request | send, retry while busy | vLLM |
| Upstream stream collector (`proxy/anthropic-sse-collector.js`, `lib/structure-guard.js`) | the message under construction | one event at a time | loop |
| Web tools, tool search (`proxy/web-tools.js`, `native-web-tools.js`, `tool-search.js`, `client-web-tool-lifecycle.js`, `services/web-fetch-processor.js`) | none beyond a call | search, fetch, translate | external services |
| Visual perception (`visual/*.js`) | state of one analysis, asset registry of an attachment | ask, recover, crop, tile, zoom, query, merge | semaphore, vision model |
| Parsers (`parsers/*.js`, `lib/process.js`) | child processes of one analysis | parse, render | operating system |
| Protocol adapters (`services/openai-*.js`, `chat-*.js`, `token-count.js`) | one stream's translation state | translate | server |
| Language, sanitizer, evidence (`i18n/`, `proxy/final-language-gate.js`, ...) | none | classify, rewrite | server, loop |
| Diagnostics (`proxy/protocol-diagnostic*.js`, `web-tool-diagnostic*.js`) | capped trace stores | append, read | operator |

`concurrency/managed-queue.js`, `visual/visual-recovery-{coordinator,context}.js` and
`proxy/subagent-display-registry.js` are imported by no file of the program except one
another; they have no reachable state and no model.  `visual-recovery-store.js` is
imported by its tests only and modelled all the same: it is the one store that promises
to survive a crash between several files.

What makes each part correct:

* **Semaphore** – no permit lost, doubled or idle; first come first served among
  the callers that are still there; a caller that leaves leaves no trace.
* **Managed loop** – a tool call with side effects and cost runs once per id; what
  the model is shown pairs every call with its own result; the client sees a result
  block for every call block; a valid answer in hand is not lost; every request ends.
* **Client stream** – one well-formed Anthropic message whatever interleaves; the
  progress text is a gapless beginning of the timeline; every handler ends, and with
  a verdict unless the client is gone.
* **Media analysis** – one analysis per attachment at a time; it lives as long as
  somebody waits for it and no longer; permits come back; waiters are answered.
* **Request handler** – whatever a request takes it gives back on every way out; one head
  is written and a client that stays is answered; a base model is not sent images it
  has refused; the handler returns.
* **Caches** – a value that is read is the one stored last or nothing; counts, index and
  files agree, also after a restart; a reference resolves to what it named.
* **Recovery store** – what memory holds is on disk; bytes go with their source; evidence
  is never reset.
* **Translators** – nothing is committed that the backend has not confirmed; a translated
  stream is legal; a history keeps its content and its calls their results.
* **Visual evidence** – every crop call is answered, the dialogue ends within its quotas;
  only complete evidence is kept; each page of a PDF that needs it is in one visual batch.
* **Language gate** – the answer that goes out is the original or one whole rewriting.
* **Session state** – one banner per session, none lost to a failed send; a session in
  use keeps its tool ledger.

The list of hazards with their lines is `hazards` in `PROJECT.json`.

## 2. The modules

| module | models | uses |
|---|---|---|
| `Semaphore` | `concurrency/semaphore.js` | |
| `ManagedLoop` | `runManagedLoop` and `executeToolOnce` for the requests of a session | |
| `ModelCall` | one model call of the loop: `containedUpstream` and `recoverInvalidResponse` over the upstream request, its busy retry and the collector | |
| `RequestHandler` | the request listener of `proxy-server.js` with its forwards, compaction, media, answer, catch and finally | |
| `AnthropicStream` | *abstract*: what a client of the protocol may be sent | |
| `ClientStream` | `ProgressStream`, the bridge, the emitters, the drain timeout | implements `AnthropicStream` |
| `MediaAnalysis` | registry, `cachedAnalysis`, `analyzeWithAdmission` | its permits implement `Semaphore` |
| `VisionContract` | what one answer of the visual model is worth, what one analysis may return | |
| `VisionAnalysis` | `analyzeVisualAssets` over the `VisualAssetRegistry` | keeps the promise of `VisionContract` |
| `VisualEvidence` | image, PDF and directed query: from analyses to stored evidence | relies on the promise of `VisionContract` |
| `SessionState` | what outlives a request of a session: startup banner and tool ledgers | |
| `ForgetfulMap` | *abstract*: a map that may lose entries but never invents one | |
| `MediaCache` | `cache/media-cache.js`, await by await | implements `ForgetfulMap` |
| `DocumentSourceCache`, `MediaContinuationCache` | the other two caches | |
| `VisualRecoveryStore` | the recovery store, file operation by file operation | |
| `ChatRelay`, `OpenAIUpstream`, `OpenAIClient`, `ChatMessages` | the translators between the two protocols | `OpenAIClient` finishes legally by `AnthropicStream` |
| `LanguageGate` | `applyFinalLanguageGate` with its backends | |
| `MCGateway` | `Semaphore`, `RequestHandler`, `LanguageGate` | |
| `MCManagedLoop`, `MCModelCall` | the loop in three scenarios; a model call | |
| `Streams`, `MCStreams` | `ClientStream` and the four translators | |
| `Media`, `MCMedia` (with `MCMediaAnalysis`) | `MediaAnalysis`, `VisionAnalysis`, `VisualEvidence` | |
| `Stores`, `MCStores` | `SessionState`, the caches, the recovery store | |
| `MCClientStream` | two calls in one round | |
| `Subsequence` | `Array.prototype.filter`, used by the loop, the model call, the session, the stream and the language gate | |
| `Subsequence_proofs` | what a filter keeps | `TLAPS` |
| `Semaphore_proofs`, `Gateway_proofs`, `ManagedLoop_proofs`, `ModelCall_proofs`, `Media_proofs`, `Stores_proofs`, `Streams_proofs` | theorems | `TLAPS` |

Each component module has its state as VARIABLES named after the fields of the
source, one action per handler or per stretch of code between two awaits whose
outcome matters, and its properties at the end.  A definition whose comment begins
with "Mutant:", or whose name has `Mut`, is a plausible bug of the operation that follows it; it is used by
nothing and shows that a property can fail (`mutants` in `PROJECT.json`).

### Semaphore

A caller is one `acquire()` at a time.  A release runs to completion in JavaScript,
but an abort does not: `signal.aborted` is true while its listeners still run one
by one, and an earlier listener may release a permit.  So the flag (`Abort`) and the
semaphore's listener (`OnAbort`) are two steps, and the drain loop, one step per
iteration under `draining`, may run between them.  `draining` blocks everything
else, as run-to-completion does.

### ManagedLoop

The state of a request is where it awaits (`pc`), its calls, the last pair of
messages it pushed (`turn`), and the probe's variables; `ledger` is the
`toolExecutionLedger` of the session, and `execs` counts runs of `executeTool`.
A model answer with its whole classification is one action per branch of the loop
(`AnswerCut`, `AnswerFinal`, `AnswerSearch`, `AnswerHandoff`, `AnswerClientTools`,
`AnswerRefused`, `AnswerManaged`) in the order of the code's tests.  `Promise.all`
dispatches all calls of a round; a call goes through `StartCall` or `JoinCall` or
`ConflictCall` (the ledger), `Settle` (the execution), and `DeliverCall` or
`RethrowCall`.  When a request fails, its other calls go on, as in the code.
`StartContinuation` is a request whose last assistant message is a mixed turn that
an earlier request returned; clients may send it twice, also concurrently.

The loop's helper that races every wait against the task deadline exists only when
`taskTimeoutMs > 0` (`TaskDeadline`); without it an abort reaches a call only through
the signal of the request that started it (`Reason`).

### ModelCall

What `ManagedLoop` sees as one answer or one failure.  `pc` follows an attempt:
`ready` (top of the loop in `containedUpstream`), `starting` (deadline and listener are
armed, `onRoundState` is awaited), `asking` (no response yet), `busy`
(`waitForRetry`), `adapting` (the images are being replaced after a refusal),
`reading`, then `caught` (in the `catch`) or `inspect` (in `recoverInvalidResponse`).
The collector is modelled block by block: `stream` holds the blocks with their state,
`check` the completed blocks of the last checkpoint of this attempt, `preserved`
what all failed attempts leave.  `tries` are the budgets of the four recoverable
failures; the second call of `recoverInvalidResponse` (`stage` 2) starts with fresh
ones.  A failure and its handling are two steps (`Throw`, then `Recover` or
`GiveUp`), because the code awaits `onRoundState` in between and the client may
leave there.  For the same reason `Begin`, which looks at the signal, and `Started`, which
asks the model, are two steps: an abort between them rejects a promise that has no handler
yet, and so does one after the start has failed (`StartFails`), which leaves the listener
armed (`leaked`); `crashed` is the end of the process.  Deadlines are steps that may happen whenever their timer is armed;
`Streaming` is the test by which the code chooses between stall and first byte
deadline.  A block carries the number of the attempt it is from; `from` and `whole`
are history and decide nothing.  Texts are compared by value, as the code does.

### ClientStream

`queue` is the promise chain, `writing` what its first operation still has to write,
`poisoned` a rejected chain: after it every `enqueue` rejects.  `main` is where the
handler awaits, `script` the events it or a tool call will still enqueue.  Updates
are numbered fragments of the timeline, so that an event can say from which to which
fragment it shows.  `late` is the visibility threshold.  A write that fails may or may not
have reached the client (`WriteFails`).

`AnthropicStream` says which event may follow which.  The refinement is the
identity on `wire`: every step of `ClientStream` writes at most one event, and a legal
one, until two results of a round are emitted at the same time.  `crossed`
is history: it is set by the step after which that has happened, or after which a result is
emitted while the handler writes the error of another call (`Serial`), and nothing reads it
but the properties.  A usage `message_delta` is legal between and inside blocks before the final
one; the repository documents it for streams opened early for media.

### MediaAnalysis

A request looks up the cache, loads its attachment, enters the registry and creates
or joins an entry.  The producer checks the cache again, makes vision calls under the
semaphore with the entry's shared signal, reports progress **through the stream of
the request that created the entry**, stores and settles.  `V` is the instance of
`Semaphore` with the entries as callers; `AdmissionIsSemaphore` is its `Spec`, so
what is proved of `Semaphore` holds of the vision permits (`AdmissionRefines`).

### SessionState

Four JavaScript Maps bounded by deleting the key inserted first: `bannerReservations`
(`owner` with its insertion order), `bannerSessions` (`shown`), and
`sessionToolLedgers` (`ledgers`, whose entries are deleted and set again when used, so
that the first key is the one used longest ago).  `Reserve`, `Written` or `NotSent`, and
`Commit` are the stretches of `maybeShowStartupBanner` between its awaits.  `TakeLedger`
is `getSessionToolLedger`: sweep, lookup, renewal, eviction, and only then the test of
the capacity.  `epoch`, `since` and `lastUse` are history and decide nothing.  A ledger is
a number here; what it holds is `ManagedLoop`, which has one session whose ledger lives,
and `SameLedger` says when that is so.

### RequestHandler

`at` is where the listener awaits, `req` the kind of request, chosen at the start from the
kinds that the routing predicates tell apart; `held` are the timers, marks, files and assets
the finally block and the cleanups must give back; `head` and `verdict` are what the client
was sent.  Any await may fail, and the client may leave at any step (`Close`).  A forward
ends in `crashed` when its client has already left, and in `stuck` when the client leaves
with the tail of the upstream's body unread, since nothing need settle it then.  What the
handler calls (the loop, the media, the gate) is a step that answers, throws or is aborted;
`ManagedLoop`, `MediaAnalysis` and `LanguageGate` open these steps.  `Catch` has its four
outcomes in the order of the code, `Finally` and `Cleanup` the two stretches after it.

### Translators

`ChatRelay` is the native stream with several completions, `OpenAIUpstream` the stream of
an OpenAI backend as an Anthropic one, `OpenAIClient` the message of an Anthropic
backend as a completion, `ChatMessages` the two functions on histories, written as folds.
A frame of the relay has any set of choices, each with a fragment of one call (the code joins
several fragments of a delta one by one, as if each had a frame); a call whose type is other than `function` is skipped by the validation (`chat-stream.js:85`)
and committed as it came.  In a history the turn after calls starts with their results, as
the protocols demand; text follows the group and is not generated inside it.  An empty user
message is accepted, and the round trip may drop it.
A tool input is `none`, `part`, `whole` or `bad`; text is told apart by the frame or the
message it came with.

### VisionContract, VisionAnalysis, VisualEvidence

One answer of the visual model is the lines the parser looks for.  `VisionAnalysis` is the
dialogue: `opts` is the caller, `retries`, `round` and `exhausted` its budgets, `owed` the
calls in the history without a result.  The analyses of an attachment run one after the
other over one registry, whose `used` is counted before the crop is made.  `VisualEvidence`
takes an analysis as one step that returns anything in `Promised`; that `VisionAnalysis`
keeps this promise is its `PromiseKept`, so the two compose.  A PDF goes through the four loops
of `parsePdf` one after the other (`turn`), each over the pages of one route in fixed slices
(`next`); the loops end where the code's do, and what they covered is counted page by page.

### Caches and recovery store

Every await of an operation of `MediaCache` is a step (a set reads the clock, then sweeps what
has expired, then writes its temporary file), the process may end at any of them,
and a restart reads the directory name by name.  The refinement maps the files to the
abstract map and the queued sets to pending writes.  `DocumentSourceCache` has no queue: a
put renames, a resolve truncates and writes the file that has the name at that time.
`VisualRecoveryStore` runs one operation at a time as a list of steps, each of which may be
the last before a crash or may fail.

### LanguageGate

An answer is a sequence of text and other blocks; the classification of a text is a choice.
`attempt` counts the tries of a backend, `rewritten` what a backend returned for each segment.

## 3. What is checked

All passing runs use two workers and end within about two minutes.  A run explores several
parts that share no state, each while the others rest at one initial state; this is the
same as a run for each part and keeps their product out.

| run | instance | properties |
|---|---|---|
| `gateway` | 4 callers, limit 2; one request of every kind; an answer of up to 3 blocks | `PermitsBounded`, `QueueIsWaiters`, `NoIdlePermit`, `GrantsInOrder`, `ResourcesReleased`, `AnsweredOnce`, `DeliveredWhole`, `GatewayEnds` |
| `loop` | *shared*: 2 requests, turns that reuse an id with the same and another input in one turn, in two rounds and beside a search, 2 rounds; *probe*: 2 requests, one hands web tools to the client, 1 probe attempt and 1 retry, 4 rounds, task deadline; *resume*: 3 requests, mixed turns with one and two web calls | `AtMostOnce`, `HistoryPaired`, `ClientSeesPairs`, `CandidateKept`, `EveryRequestEnds` |
| `model_call` | a thought, a text, a tool call; 2 blocks per message; 1 recovery of each kind; busy, refused images, task deadline, disconnect | `BlocksKept`, `MergedOnceInOrder`, `AbortStopsAttempts`, `CallEnds` |
| `streams` | 2 managed calls that may return together, 3 timeline fragments, 2 final blocks, hook or no hook; 2 completions or calls, 3 frames of a function, a custom or no call per choice; 8 events of 2 blocks; histories of 5 messages with 2 ids | `TimelineIsPrefix`, `EndsWithVerdict`, `StreamWellFormed`, `StreamEnds`, `StreamsTranslated`, `HistoriesTranslated` |
| `media` | 2 requests share an attachment, a third has its own, limit 1, 1 and 2 vision calls, the first two clients may leave or stop reading; 2 analyses over 2 images, 2 rounds, 2 retries, batches of 2, 3 crops per image; a PDF of 3 pages in batches of 2, 2 tiles per frame | `SingleFlight`, `WaitersCounted`, `PermitsReturned`, `AdmissionIsSemaphore`, `CancelledByTheLast`, `VisionBounded`, `PromiseKept`, `OnlyCompleteKept`, `PagesCovered`, `MediaEnds` |
| `stores` | 4 requests of up to 3 sessions, 1 banner entry, 2 ledgers; media cache: 2 callers, 2 keys, 2 values of 1 and 2 bytes, limit 3, 3 calls, 1 crash; source cache: 3 calls, 2 contents; continuation: 3 sessions, 2 entries each; recovery: 2 sources, 1 recovery, 2 entries, 1 blob | `BannerOnce`, `ReservationsOwned`, `SameLedger`, `StoresConsistent`, `CacheForgets`, `RecoverySound`, `EvidenceKept` |

What they show is said above each property in its module.  In short: the
semaphore is exact under aborts; an id runs once whatever requests, rounds and
replays do; the histories and the client's blocks are paired; a probed reply is
kept; an answer put together from several attempts has every completed block once, in
order, and nothing partial; an abort stops the attempts; whatever updates, timer, banner, tool calls
and failures do, the client is sent one legal message until two results cross; a session is shown
its card once and keeps its ledger while it is in use; analyses are shared, cancelled by the last waiter, and give
their permits back; the caches never answer with anything but what was stored last; a
handler gives back what it took; and apart from PDFs only complete evidence is kept.

### Disagreements found

Six runs are expected to fail; each checks one property.

* `client_stream_parallel` (`NoIndexReuse`): with **two** calls in a round, both
  may read `nextIndex` (`anthropic-sse.js:175`) before either has written its
  result block and incremented it (179).  Two blocks with one index, interleaved,
  are sent.  The repository's README.md:529 promises that index reuse is prevented.
  `streams` has two calls as well: `StreamWellFormed` promises a legal message until results
  cross, and `EndsWithVerdict` a verdict in any case, though not as the last event.
* `media_foreign_abort` (`NoForeignAbort`): a request may join an entry whose last
  waiter has aborted it and whose promise has not settled
  (`analysis-registry.js:13`); it then fails with an `AbortError` of others.  The
  test at `analysis-registry.test.js:21` states the contrary for the simpler order.
* `source_lost` (`LastPutWins`): `resolve` writes the reference it has read back to renew its
  time (`document-source-cache.js:85`); a put in between is overwritten, and page requests of
  a changed document get the old one.  The test at `document-source-cache.test.js:29` states
  that a changed file updates the reference.
* `request_forward` (`DisconnectIsContained`): a forward whose signal is already aborted
  destroys its upstream request with an error (`bypass.js:103`) before the request has an
  `error` listener (106).  Nobody handles the event that follows, and the process ends for all
  clients; README.md:2896 of the repository says what a disconnect cancels.
* `partial_persisted` (`NothingPartialPersisted`): the result of `parsePdf` says nothing of
  cacheability (`pdf.js:674`), so a PDF with failed or partial tiles is stored for good,
  which README.md:1028 of the repository excludes.
* `model_call_fallback` (`StallNeedsResponse`): whether a response has begun is read
  off the bytes received in the round (`managed-loop.js:540`), and the body of a 400
  by which the base model refuses images counts.  The stall timer then runs while
  the images are converted and while the second request waits for its first byte,
  which README.md:1751 of the repository excludes ("not armed during TTFT"); with the
  default 90 s a slow vision model is enough to fail the request.

Other observations are part of the models:

* `openManagedProgress` opens a stream when `stream` is true (`proxy-server.js:2640`), also for
  a token count whose media have to be prepared, and the count is then sent as JSON onto the
  open stream (2666).  The second `writeHead` throws and the client is sent an error event.
  `AnsweredOnce` excepts this request by name (`StreamedCount`).
* The abort listener of an attempt is armed before the await of `onRoundState`
  (`managed-loop.js:619`) and its promise gets a handler after it (622).  A client that leaves
  during that write, or after it has failed, causes an unhandled rejection, which ends the
  process (`Unhandled`; `CallEnds` counts it as an end).
* A merged answer that holds a preserved tool call and a continuation keeps the
  continuation's `stop_reason`, which may be `end_turn` (`MergedStop`).
* README.md:813 of the repository says the merge deduplicates tool calls "by tool
  id/signature"; the code uses the signature only for a call without an id, so a model
  that repeats a completed call under a new id gets it twice.  `MergedOnceInOrder` is
  about keys, which is what the code promises.
* While the busy flag is set the first byte deadline is put off, and the flag stays
  until a request is accepted; a retried request that hangs is ended by the headers
  timeout alone, which the fairness of `ModelCall` therefore relies on.
* The expiry of a session's ledger is renewed when a request takes it and not while its
  loop runs, and a loop has no deadline by default.  A request that runs longer than
  30 minutes keeps a ledger that the next request of its session no longer finds, so an
  id may then run twice; the comment at `proxy-server.js:677` rules that out for single
  ids only.  A refused request (429) renews the expiry of the full ledger as well.
* The shared producer of an analysis awaits writes to the stream of the request that created
  it (`media-adapters.js:182`, `316`); if they fail, every waiter fails with them.
* Media cache: a value larger than the limit first evicts everything else and then itself;
  a file whose removal failed is found again at the next start; a failed rewrite of a read
  leaves the older last use on disk.
* Parallel tool calls of an OpenAI backend open overlapping blocks (the comment at
  `openai-upstream-adapter.js:195` says so); a call that turns out bad at the end fails the
  stream after the blocks of earlier calls were closed.
* Request handler: when an external compaction fails after its stream was opened, the answer
  of the base model is piped into it, its error status included; a rejected enrichment of
  returned web results swallows an abort; a client that leaves between `finish` and the end
  of the handler is logged as a disconnect.
* Vision: the refusal by round limit cannot be reached, nor can a tile that is
  `unresolved`; a batch may go on cropping after one of its calls hit the depth limit; a
  completeness line above the detail line is ignored; `classifyPdfPage` answers an abort with
  `DENSE_PAGE`, and the next await fails.
* The language gate delivers the original answer when a backend is aborted.
* After a rejected write, `emitSseError` (`proxy-server.js:3029`) rejects too, and
  its rejection leaves the `async` request listener, which nobody awaits, without
  `res.end()`.  `StreamEnds` names that end `"escaped"`.

### Bounds and why they are enough

* Semaphore: with limit 2 and 4 callers two hold and two queue, so aborts of the
  first, the last and both queued entries meet a release; callers come back for ever.
* Loop: ids and inputs matter only by equality, so two ids and two inputs (plus one
  for client tools) tell every branch apart; three rounds of the same id are covered
  by two requests with two rounds on one ledger.  `MaxRounds` is the code's own
  constant at a small value, not a cut.  The proofs cover every value.
* Model call: two blocks give one that is complete beside one that is open or did not
  parse; one recovery of each kind gives up to four attempts in one call, in any
  order of the failures.  The code's limit for stalls is 2; `StallLimit` is 1 in the
  run.  `MaxBlocks` is a cut named in the guard.
* Session state: room for one banner entry and two ledgers makes every Map overflow with
  three sessions, and the fourth request brings an evicted or a recently used session
  back.  The clock stops at 3 with a TTL of 2, so ledgers expire before and after being
  renewed.  The two parts share only the requests' sessions, which never change, and
  `MCStores` explores each while the others rest.  `MCSharing` lists the ways four requests can
  share sessions up to names, which is the symmetry of requests and sessions by hand.
* Stream: two calls give every order of two results, crossing or not; three fragments suffice for one shown, one held back and one racing the
  close; two final blocks for the numbering; `MaxUpdates` is a cut named in the guard.
* Request handler: no bound; a request is one of the finitely many kinds the code tells apart.
* Translators: three frames give a call that is begun, continued and confirmed or broken
  next to another; `MCDeltas` has a function's first fragment, its last one, a custom call and
  no call, with and without text; eight events two blocks with a delta each and an end; five messages a call,
  two results in either order and text around them.  `MaxFrames`, `MaxEvents` and
  `MaxMessages` are cuts named in the guards.
* Vision: three crops for two analyses, so that the second meets what the first used up; two
  retries and two rounds, so that either can run out first; a PDF of three pages has a full and
  a partial batch and every mixture of routes.
* Caches: one crash at any step is enough because a restart forgets everything but the files;
  sizes 1 and 2 under a limit of 3 evict one entry, two, or the new one alone; the clock passes
  the retention once.  `MaxCalls`, `MaxNow`, `MaxCrashes` are cuts named in the guards.
* Media: two waiters of one key and one competitor are the smallest instance in which
  joining, leaving, cancelling and queueing meet; `MaxCalls` is a cut named in the guard.

Deadlock checking is off in all runs: requests are finite in number and the system
really stops when they are done; the liveness properties say what must not stall.
The runs that are expected to fail violate invariants or action properties and need no
fairness.

### Fairness

* `Semaphore`: drain steps and abort listeners run in the same turn of the event
  loop; holders release, because both users of the controllers release in `finally`
  and their calls have timeouts.  Nothing forces a caller to call or to abort.
* `ManagedLoop`: the steps of a request together are weakly fair, and so is the end
  of each execution: a model call answers, fails or is ended by the stall watchdog,
  `fetch` has a timeout, the rest is the event loop.  No action by itself is fair, so
  the model may always choose the most inconvenient answer.
* `ModelCall`: the proxy's own steps, and the timeouts that `config.js` always sets:
  headers (`Unavailable`), body (`BodyFails`), the retry timer, the deadlines of an
  image conversion (`AdaptFails`).  The model server need not do anything, and
  neither the stall nor the hard deadline is fair.  `CallEnds` leaves out one thing on
  purpose: a base model that is busy for ever is asked for ever.
* `ClientStream`: one fairness over the queue, the handler and the release of
  updates: a write drains or is ended by `drainTimeoutMs`, model and tools answer or
  fail.  Updates, the threshold and disconnects are not fair.
* `MediaAnalysis`: producers, deliveries and the semaphore's own steps; not the
  clients and not the eviction.
* `RequestHandler`: its steps together: every call it makes has a timeout, a busy base model
  accepts in the end, a client reads or leaves.  The client's leaving is not fair.
* `VisionAnalysis`: an answer, a failure or `visionTimeoutMs`, and the handling of a batch;
  nothing makes the model stop asking for crops.
* `LanguageGate`: its backends answer or fail.
* The stores and the translators promise safety only.

## 4. What is proved

`tlapm` checks the eight proof modules from nothing.  The constants are arbitrary under
the named assumptions of the component modules, which TLC evaluates on the instances of
the runs.  Every theorem about a behaviour has the same shape: an inductive invariant,
stated as a conjunction of named parts, one lemma per action or group of actions, and a
last step that combines them with PTL.

| theorem | states | proved of |
|---|---|---|
| `PermitsAreBounded`, `QueueHoldsTheWaiters`, `NoPermitIdles`, `GrantsAreInOrder`, `TypeCorrect` | `PermitsBounded`, `QueueIsWaiters`, `NoIdlePermit`, `GrantsInOrder`, `TypeOK` | `Semaphore` |
| `ResourcesAreReleased`, `EachIsAnsweredOnce` | `ResourcesReleased`, `AnsweredOnce` | `RequestHandler` |
| `WholeIsDelivered` | `DeliveredWhole` | `LanguageGate` |
| `RunsAtMostOnce`, `HistoryIsPaired`, `ClientGetsPairs`, `CandidateIsKept`, `LoopIsTyped` | `AtMostOnce`, `HistoryPaired`, `ClientSeesPairs`, `CandidateKept`, `TypeOK` | `ManagedLoop` |
| `WholeBlocksAreKept`, `MergeIsOnceInOrder`, `AbortEndsAttempts` | `BlocksKept`, `MergedOnceInOrder`, `AbortStopsAttempts` | `ModelCall` |
| `AdmissionRefines`, `FlightIsSingle`, `WaitersAreCounted`, `PermitsAreReturned`, `LastWaiterCancels` | `AdmissionIsSemaphore`, `SingleFlight`, `WaitersCounted`, `PermitsReturned`, `CancelledByTheLast` | `MediaAnalysis` |
| `PromiseIsKept`, `DialogueIsBounded` | `PromiseKept`, `VisionBounded` | `VisionAnalysis` |
| `KeptIsComplete`, `PagesAreCovered` | `OnlyCompleteKept`, `PagesCovered` | `VisualEvidence` |
| `CacheIsForgetfulMap` | `CacheForgets` | `MediaCache` |
| `StoresAreConsistent` | `StoresConsistent` | `Stores`, the sessions and the four stores together |
| `StoresAreParts` | that a behaviour of `Stores` is one of `SessionState`, `MediaCache`, `DocumentSourceCache` and `VisualRecoveryStore` | `Stores` |
| `BannerShownOnce`, `NoReservationLeaks`, `LedgerIsKept` | `BannerOnce`, `ReservationsOwned`, `SameLedger` | `SessionState` |
| `RecoveryIsSound`, `EvidenceIsKept` | `RecoverySound`, `EvidenceKept` | `VisualRecoveryStore` |
| `TimelineIsGapless`, `StreamIsWellFormed`, `VerdictIsSent` | `TimelineIsPrefix`, `StreamWellFormed`, `EndsWithVerdict` (the last two promise less once results have crossed) | `ClientStream` |
| `TranslatorsAreSound` | `StreamsTranslated` | `ChatRelay`, `OpenAIUpstream`, `OpenAIClient` |
| `ClientStreamIsPart` | that a behaviour of `Streams` is one of `ClientStream` | `Streams` |

**Subsequence_proofs** – a filter is a function on `1..Cardinality(I)` that reads its
sequence at the indices `I` in their order.  SequencesExt and Sequences define filters by
recursion, about which the provers know nothing without induction; here an index is found
by its rank, and that ranks are distinct and exhaust `1..Cardinality(I)` follows from the
library's facts about finite sets.  The results: `SubsequenceReads` (there is an
order-preserving bijection), `SubsequenceType`, `SubsequenceElements`,
`SubsequenceCounts`, and how a filter changes when an element is appended.

**Semaphore_proofs** – assumptions `LimitAssumption` (a positive limit) and
`CallersAssumption` (finitely many callers).  The inductive invariant is

    IInv == TypeOK /\ QueueIsWaiters /\ PermitsBounded /\ NoIdlePermit

`PermitsBounded` is not inductive alone: a grant changes `active` and the set of
holders together only if the caller it takes from the queue is not a holder, which is
`QueueIsWaiters`; and that needs the queue to have no duplicates through `Append`,
`Tail` and `RemoveAt`, which three lemmas about sequences state.

**Gateway_proofs** – for the request listener (`HandlerInv`) it must be known at each place
`at` what the handler has so far:

* `HeldWhere`: files and assets are held only where media are analysed and on the ways out
  of there, and nothing at all before the begin and after the end;
* `Refusal`: images that were refused are still in the messages only while they are being
  adapted, or when the request is ending;
* `HeadWhere`: in which places there is no head yet, so that the writing of one cannot be
  the second;
* `Answered`: from `finally` on a client that stayed has its verdict, unless the error could
  not be delivered.

For the language gate, `GateInv` says that an attempt has rewritten the first `n` segments, all
by itself.  A segment is known by its rank among the text blocks: `EntriesAreTextBlocks`
says that the list of segments names each text block once and in its place, from the facts
about filters, and so the merge (`MergeIsWhole`) puts every rewriting back where its source
was, for an answer of any length.

**ManagedLoop_proofs** –

* `AtMostOnce`: `LedgerInv` says that `execs[id]` is 1 when the ledger holds the id and 0
  when it does not; only `StartCall` adds, and it needs an absent entry; `Settle` never
  makes an entry absent.  No assumption on the turns, the number of requests or the
  rounds is needed.
* `CandidateKept`: `CandidateInv` relates the probe's variables to `pc`: a candidate is
  held only while the request is being probed or has been ended by an abort or the
  deadline, and a pending continuation leaves a round to run.  It uses `NoneAssumption`.
* `HistoryPaired`, `ClientSeesPairs`: `LoopInv` says of a round that is being executed which
  of its calls are pending, delivered or ended, that a delivered one carries the result of
  its own name and input, and that use and result blocks the client was sent differ by exactly the
  calls that are still out.  When the round is over its results are, through the filter
  lemmas, the calls' ids once each.
* `TypeOK`: `BoundsInv` adds where the budgets may stand for each `pc`, because
  `retries < RetryLimit` at one place is what keeps the counter in its range at another.

**ModelCall_proofs** – `CallInv` follows a block from the stream to the answer.  `StreamKnown`:
the stream's blocks are of this attempt, those it finished are in `whole`, and the
checkpoint was taken from this stream.  `CheckKnown`: the checkpoint holds just what
this attempt finished.  `PreservedKnown`: the preserved blocks are whole, are not
thinking, are from earlier attempts, are ordered by attempt and have one key each.
`AnswerKnown`: the answer is those and the last attempt's.

* `BlocksKept` says more than that types are right: nothing half done is delivered
  (`WholeBlocksOnly`) and nothing finished is lost (`CompletedSurvives`).
* `MergedOnceInOrder`: no block is merged twice, the order is that of the attempts, and no
  thinking stands beside a block of an earlier attempt.
* `AbortStopsAttempts` is an action property of the whole call: after the abort the model is
  not asked and nothing is recovered, whichever await it fell in.  That
  every place an attempt can be at leads to a failure or to the end of the process is
  shown action by action.

**Media_proofs** – for the analyses of concurrent requests the refinement maps an entry to a caller of the semaphore, and a
producer's step to an acquire, an abort, its listener, a release or a stutter.  The
invariant has four parts.  `JoinInv`: a request waits for an entry that exists.  It is all
that the refinement needs.  `Queue`: the semaphore's `TypeOK` and `QueueIsWaiters`, proved
in `Semaphore_proofs` and carried over by the refinement.  `FlightInv`: the
registry finds the one running entry of a key, who holds or awaits a permit is working,
and a key that is being worked on is not cached.  `CountInv`: an entry's counter is the number of
requests that wait for it.  `SingleFlight` and `PermitsReturned` follow from `FlightInv`;
`WaitersCounted`, which also says that a running analysis nobody waits for is cancelled, and
the action property `CancelledByTheLast` from `CountInv`.

For one dialogue with the visual model, under `NaturalLimits` (the limits are numbers, at
least one crop round is allowed):

* `PromiseKept`: the classifiers of an answer are case distinctions over its fields.
  `VerdictSound` says what is common to all of them: good evidence is cacheable exactly when
  it lacks nothing, and only the evidence contract asks for a zoom.  Everything the dialogue
  can return satisfies it (`OutcomeInv`), and the promise is what it means for the options
  that were asked for.
* `VisionBounded`: `DialogueInv` adds to the types what ties the counters to the phase: no
  call is unanswered when the model is asked, all of a batch are when it starts; a round is
  left while tools are offered; the requests sent so far are those that the retries and
  rounds account for; and an asset's crops that were tried are within what its quota was charged.

`OnlyCompleteKept` and `PagesCovered` rest on the promise alone, whose outcomes
`VisualEvidence` takes from `VisionContract`.  `KeptInv` says that an image that lacks
something has a flaw among the regions its tiles left, so it ends as a gap and not as
complete evidence.  `PagesInv` follows the four loops over the pages: a page's place among those of
its route (`Rank`) tells whether the loop has passed it (`Passed`), and a page is in as many
batches as that says, one or none (`LoopInv`).  A fixed slice takes the pages whose rank is
within its size of `next`, so none is skipped or taken twice, and when a loop ends
the rank of each of its pages is below `next`; ranks are numbers of elements of a finite set.

**Stores_proofs** – for the sessions, assumptions `NobodyAssumption`, `LimitsAssumption`,
`FiniteAssumption` (finitely many requests and sessions) and `MarksAssumption`.

* `BannerOnce`, `ReservationsOwned`: `BannerInv` says of the current epoch of a session
  (the time between two evictions of its entry) that whoever sends or sent in it is the
  owner of the reservation or its card is shown (`CurrentKnown`), and that no two
  deliveries are of one epoch (`OneDelivery`).  `BannerOnce` alone is not inductive: a
  request reserves when the session is neither reserved nor shown, and only
  `CurrentKnown` says that then nobody of this epoch delivered.
* `SameLedger`: the ledgers' insertion order is the order of last use (`Behind`), so a key
  that is evicted has as many sessions used after it as the Map has room for; expiry
  removes only what was not used within the TTL.

For the recovery store, under `RecoveryAssumption` (finitely many ids, persistent ids among
them, numbers as limits, `None` neither a content nor a record), the difficulty is that an
operation is a list of steps, any of which may be the last one before a crash.  `StoreInv`
has five parts:

* `IsProgram`: what the list may look like.  Each step has the arguments it needs, and the
  order is that of the code: file writes before the commit they belong to, and it before the
  bytes (`Before`, and what stands next to a commit); removals before the rest of a sweep; a
  command last; the loading first.
* `StepFacts`: what each step still to come relies on.  A commit that is next finds its record
  on disk (`CommitKnown`); bytes are entered for a source that is there and whose blob has
  been written or will be (`BlobKnown`); a file is removed only when the memory has forgotten
  it (`Forgotten`); between the loading and `ready` nothing creates a temporary file or a blob
  without a source (`ReadyClean`) or an entry too many (`ReadySmall`).
* `OnDisk` and `WithinLimit`: memory and disk agree except for a record that is committed next,
  and there is at most one entry too many, until the pruning that is next.
* `Memory`: the types.

The list changes in two ways only, which two lemmas state once for all actions: a step is
taken off (`TailFacts`) or steps are put before the rest (`PrependFacts`).  `MemoryOnDisk` alone
is not inductive: that a crash loses nothing between the writing of a file and its commit
follows from the order in the list.

For the media cache, under `MediaAssumption` (the value for a missing file is neither a
record nor a set of names, keys are finite in number and no temporary file has the name of
one, sizes and the limit are whole numbers), `CacheInv` has four parts: the types (`CacheTypes`), which
operations are under way (`CallsKnown`), `WorkKnown` (only the operation at the head of the promise
chain is past its first await, and the file under its key still holds what it read or
wrote) and `MemoryKnown` (without a directory a crash leaves nothing behind).  Then each step is
shown to be a step of `ForgetfulMap` or a stutter (`Shows`).

`StoresConsistent` is one invariant of all the parts (`StoresInv`), and `StoresAreParts` is what
lets a theorem of a part be used of the behaviours that the run `stores` explores.  A sum over
a finite set is a fold, that is, a function defined by recursion.  The provers have no
induction for it, but every set of numbers has a least one, so from the smallest set for
which a claim fails a smaller one is made.  In this way the first lemmas of the section show
that the fold exists, and what a sum needs: it is a whole number, it is 0 for no elements, an
element with its value can be taken out or put in, whichever one the fold chooses first, and
functions that agree on the set have one sum.  With them:

* `CountInv` (media cache): while the process runs, `bytes` is the sum of the sizes in the index
  and within the limit except while a record is being made room for; an entry has the size of
  its file, except under the key whose file has just been renamed and is not yet recorded
  (`SizesMatch`); a file that is not in the index is there only for such a key
  (`FilesCounted`).  After a crash the index is rebuilt from the names found, so each
  name counts once (`FoundKnown`).
* `ContInv` (continuation cache): a set runs through three loops (expiry, the session's
  eviction, the global one) in one step.  `Tidy` says that both counts are exact, that only
  sessions with entries are known, that a session is within its limits and that the order is
  that of use; each round of each loop keeps it, and the loops end with `Fits`, because a
  session that is removed leaves room for the one just touched, which is the last in the order.
  The one state that is not tidy, between `Put` and the session's eviction, is followed by name.
* `SourceInv` (source cache): a call that will rename, open or write a reference holds a source
  whose blob is on disk, so a reference never names a blob that is missing.
* `LedgerSizes`, `MapSizes`: the Maps of sessions are within their limits after every operation.

**Streams_proofs** – first the response stream.  `BaseInv` is the typing of the stream with what holds of the
chain: nothing is queued before the stream is open or after a rejection, and what is
being written belongs to the first operation.  `TextInv` is the timeline:

* every fragment is in one of four places, and the numbers of the places follow each
  other without a gap: shown or being written (up to `Reach`), queued (`UpTo`, `From`),
  in `releasing`, in `pendingUpdates` (`HeldCounted`);
* `HeldBack`: while updates are held back nothing is queued and no block is open.  This is
  what makes the three places that drop `pendingUpdates` harmless: the banner's hook finds
  it empty, the final status shows the whole timeline when it opens the block, and a close
  ends the text;
* `CloseKnown`: a queued close means that the progress is closed, so an open block cannot
  be closed under an update that was enqueued before it.

From `TextInv`, an update that starts to write carries the fragment behind the last one
shown, or opens the block with everything so far (`UpdateFollows`).  It says nothing of a
stream whose progress is closed or whose chain was rejected, where later updates write
nothing.  `TimelineIsGapless` holds for every number of parallel calls.

`StreamIsWellFormed` and `VerdictIsSent` are about any number of calls in a round.  While the
calls emit one after the other the chain has one emitter at a time (`Serial`); once two emit
together, or one beside the handler's error event, `crossed` is set and the index that was
read is no longer the next one, which `client_stream_parallel` shows.  `StreamIsWellFormed` is a refinement:
`Spec => AS!Spec`, so each step must write nothing or one event that `AnthropicStream`
allows.  Whether an event is allowed is decided when it is written, long after the index
in it was read; so `MessageInv` says where the stream will stand by then:

* `WireKnown`: the last event on the wire (`Tip`) tells how many blocks have started;
* `Order`: what is still to be written before another operation has its turn
  (`Upcoming`, the rest of the operation that writes, or the queued event of an emitter
  and its script) continues `Tip` event by event;
* `Standing`: where that ends (`End`) is between two blocks, and the next index is the
  one the handler will read (`Due`: `nextContentIndex`, or the bridge's index with the
  blocks under way counted), or it is inside the progress block;
* `Shape`: either the progress has the chain (`SoftQueue`: only the usage is emitted, the
  close is the last operation) or one emitter has it (`RawQueue`: one event is queued,
  and only its emitter has more to send);
* `Stage`: in which of its places the handler has closed the progress, started the bridge
  and dispatched the calls.

`MessageInv` says this while the client is there, no write has failed (`Healthy`) and no results
have crossed: after a failure nothing more is written, and a write that fails has written its
event or not, which `Order` covers.  `VerdictInv` needs no such condition on the
calls: the verdict is the last event of the handler's script, in the queue or on the wire, and
nothing takes it away, so that a handler that ended has sent it for any
number of calls; that nothing follows it is `MessageInv`.

Then the translators.  Each assumes only `TranslatorsAssumption` (the number of completions,
the indexes of calls and blocks and the bounds are natural numbers), so the theorem is about
any number of them.

* `RelayInv` (relay): a delta on the wire carries the number of its frame, so what the client
  was shown is a sequence of numbers, and `RelayComplete` compares it with the numbers of the
  frames that have a delta (`Shown`, `Arrived`).  While the stream is open the two are equal,
  no marker is on the wire, and every finished choice has its marker in the list that waits
  (`RelayOpen`); at [DONE] that list is appended at once, so it must be known what it holds
  (`MarkedIn`).  Both sequences are filters, and the lemmas of `Subsequence_proofs` say how
  they grow with a frame.
* `UpstreamInv` (OpenAI backend): a frame is handled in several stages, each on the state the
  one before it left.  `WireLegal` is the legality of a wire by itself (an index is started
  and stopped once, a delta is between the two, prose begins where nothing else is open, and
  fragments come in the order of their frames), `StateIs` says that what the state has open is what runs on its wire.  Every stage keeps both
  (`OpenKeeps`, `DeltaKeeps` and those that follow); the blocks of the calls are closed at the
  end by a sequence of stops with pairwise different indexes (`CallsAre`).
* `ClientInv` (Anthropic backend): `HistoryIs` relates the map of blocks to the events that
  were accepted, so that at the end all blocks are closed (`HistoryDone`) and every accepted
  event is in its place (`InPlace`).  Legality is about the message without repeated usage,
  a filter of that history: `MessageLegal` carries it over.  A call is on the wire only with
  the finish and [DONE] right behind it (`CallsLast`).

`StreamsInv` puts them together with `Counted`, the bound on the fragments that the typing
needs: only the last text before the final response exceeds it.

### What stays with TLC

* Liveness (`GatewayEnds`, `EveryRequestEnds`, `CallEnds`, `StreamEnds`, `MediaEnds`): it
  needs fairness and ENABLED, which are outside the prover.
* `HistoriesTranslated`: the translation of a history is a fold over its messages, and what a
  fold computes for every input needs induction over data.

## 5. What is not modelled, and the plan

Not modelled, because it is data or I/O that the modules have as a choice or a step which
succeeds or fails: the predicates that choose a route, file formats and child processes,
prompts, the geometry of tiles and crops, telling the language of a text, the search for
periods in the loop detectors, tool search, the texts of external compaction and of the
sanitizer, wording, diagnostics, configuration.  The memory mode of the document source cache,
pings and heartbeats of the client stream and the counters of the telemetry are left out: they
decide nothing else.

Every module has one request, one analysis or one operation of the others as a step; the
whole program at once is out of TLC's reach.  The parts meet in `AdmissionIsSemaphore`,
`VisionContract`, `ForgetfulMap` and `AnthropicStream`, each of which one module keeps and
another relies on.

What the runs check and no theorem states is liveness, and the round trip of a history.

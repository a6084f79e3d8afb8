--------------------------- MODULE VisionAnalysis ---------------------------
(***************************************************************************)
(* analyzeVisualAssets (src/src/visual/vision-client.js): the dialogue     *)
(* with the visual model, its recovery retries and its crop rounds, over   *)
(* the VisualAssetRegistry (src/src/visual/asset-registry.js) that the     *)
(* analyses of one attachment share.  The analyses of an attachment run    *)
(* one after the other.                                                    *)
(***************************************************************************)
EXTENDS Naturals, FiniteSetsExt, VisionContract

CONSTANTS Images,        \* the assets added to the registry
          Analyses,      \* bound: analyses made with one registry
          RoundLimit,    \* maxCropRounds
          RetryLimit,    \* MAX_VISION_RECOVERY_RETRIES
          BatchLimit,    \* crops of one answer
          CropsPerRoot,  \* maxCropsPerRoot
          DepthLimit     \* maxDepth

(* The limits are numbers, and there is at least one crop round.           *)
NaturalLimits ==
  /\ RoundLimit \in Nat \ {0}
  /\ {Analyses, RetryLimit, BatchLimit, CropsPerRoot, DepthLimit} \subseteq Nat

VARIABLES started,    \* analyses begun
          opts,       \* the options of the current one
          phase,      \* free, asked (a request is out), batch (its tool calls)
          retries, round, exhausted, tools,
          left,       \* tool calls of the batch not handled yet
          large,      \* batchTooLarge
          made,       \* some crop of the batch was made
          owed,       \* tool calls in the history without a result message
          requests,   \* requests of the current analysis
          assets, used,        \* the registry: assets, rootCropCounts
          attempts,   \* times cropImage ran on an image
          outcome     \* what the last analysis returned

budget == <<retries, round, exhausted, tools>>
batch == <<left, large, made>>
registry == <<assets, used, attempts>>
vars == <<started, opts, phase, budget, batch, owed, requests, registry, outcome>>

(* The callers: a root image, a PDF page or batch (default), a tile        *)
(* (zoom_tile), a page classification and a directed query (raw).          *)
Options == {[context |-> "default",   crops |-> TRUE,  zoom |-> TRUE,  contract |-> "evidence"],
            [context |-> "default",   crops |-> TRUE,  zoom |-> FALSE, contract |-> "evidence"],
            [context |-> "zoom_tile", crops |-> TRUE,  zoom |-> FALSE, contract |-> "evidence"],
            [context |-> "default",   crops |-> TRUE,  zoom |-> FALSE, contract |-> "raw"],
            [context |-> "default",   crops |-> FALSE, zoom |-> FALSE, contract |-> "raw"]}

NoOutcome == Failure("none")

Init ==
  /\ started = 0 /\ phase = "free" /\ opts \in Options
  /\ retries = 0 /\ round = 0 /\ exhausted = FALSE /\ tools = FALSE
  /\ left = 0 /\ large = FALSE /\ made = FALSE
  /\ owed = 0 /\ requests = 0
  /\ assets = {[root |-> i, depth |-> 0] : i \in Images}
  /\ used = [i \in Images |-> 0] /\ attempts = [i \in Images |-> 0]
  /\ outcome = NoOutcome

-----------------------------------------------------------------------------
(* authorizeRegion and registerRegion: a tile keeps the root and the depth *)
(* of its parent and uses up no quota.                                     *)
Region(a) == [root |-> a.root, depth |-> a.depth]

Start ==
  /\ phase = "free" /\ started < Analyses
  /\ started' = started + 1
  /\ opts' \in Options
  /\ phase' = "asked" /\ requests' = 1 /\ outcome' = NoOutcome
  /\ retries' = 0 /\ round' = 0 /\ exhausted' = FALSE /\ tools' = opts'.crops
  /\ IF opts'.context = "zoom_tile"
       THEN \E a \in assets : a.depth = 0 /\ assets' = assets \union {Region(a)}
       ELSE UNCHANGED assets
  /\ owed' = 0
  /\ UNCHANGED <<batch, used, attempts>>

(* One more request; the count stops at a bound no analysis reaches.       *)
RequestCap == 3 + RetryLimit + RoundLimit
Request == requests' = Min({requests + 1, RequestCap})

Finish(result) ==
  /\ phase' = "free" /\ outcome' = result
  /\ UNCHANGED <<started, opts, budget, batch, owed, requests, registry>>

(* scheduleRecovery granted: one more user message, one more request.      *)
Recover ==
  /\ retries < RetryLimit
  /\ retries' = retries + 1 /\ Request
  /\ UNCHANGED <<started, opts, phase, round, exhausted, tools, batch, owed, registry, outcome>>

(* The last attempt is not the last: the retries are not compared.         *)
RecoverOrMutForever(result) ==
  \/ Recover
  \/ retries = RetryLimit /\ Finish(result)
  \/ /\ retries = RetryLimit /\ Request
     /\ UNCHANGED <<started, opts, phase, budget, batch, owed, registry, outcome>>

(* At most RetryLimit times in an analysis, then it fails.                 *)
RecoverOr(result) == Recover \/ (retries = RetryLimit /\ Finish(result))

(* The request times out, and the caller did not abort.                    *)
TimedOut == phase = "asked" /\ RecoverOr(Failure("recoverable"))

(* The request fails, is aborted, or its answer holds no message.          *)
Fails == phase = "asked" /\ \E f \in Failures : Finish(f)

(* An answer without tool calls, or with calls no tool was offered for.    *)
(* A tool call that was not offered is no evidence: its answer is judged   *)
(* as the quality "tool_call", which is never good.                        *)
Judge ==
  /\ phase = "asked"
  /\ \/ \E v \in Verdicts[opts.contract] :
          \/ v.quality = "good" /\ Finish(Evidence(v, FALSE))
          \/ v.quality = "needs_zoom" /\ opts.zoom /\ Finish(Evidence(v, TRUE))
          \/ /\ v.quality \in {"empty", "weak"} \/ (v.quality = "needs_zoom" /\ ~opts.zoom)
             /\ RecoverOr(Failure("recoverable"))
     \/ ~tools /\ RecoverOr(Failure("recoverable"))

(* The answer asks for crops: the assistant message joins the history.     *)
BatchMutUncounted(n) ==
  /\ phase = "asked" /\ tools
  /\ phase' = "batch" /\ round' = round
  /\ left' = n /\ owed' = n /\ large' = (n > BatchLimit) /\ made' = FALSE
  /\ UNCHANGED <<started, opts, retries, exhausted, tools, requests, registry, outcome>>

Batch(n) ==
  /\ phase = "asked" /\ tools
  /\ phase' = "batch" /\ round' = round + 1
  /\ left' = n /\ owed' = n /\ large' = (n > BatchLimit) /\ made' = FALSE
  /\ UNCHANGED <<started, opts, retries, exhausted, tools, requests, registry, outcome>>

-----------------------------------------------------------------------------
(* What authorizeCrop refuses, in its order; the box may be wrong.         *)
Refusal(a, boxed) ==
  CASE round > RoundLimit                             -> "visual_crop_round_limit"
    [] round <= RoundLimit /\ ~boxed                  -> "invalid_visual_crop_coordinates"
    [] round <= RoundLimit /\ boxed
         /\ a.depth + 1 > DepthLimit                  -> "visual_crop_depth_limit"
    [] round <= RoundLimit /\ boxed
         /\ a.depth + 1 <= DepthLimit
         /\ used[a.root] >= CropsPerRoot              -> "visual_crop_count_limit"
    [] OTHER                                          -> "none"

LimitCodes == {"visual_crop_count_limit", "visual_crop_depth_limit", "visual_crop_round_limit"}

(* A result message goes to the history for the call.                      *)
Answered == left' = left - 1 /\ owed' = owed - 1

(* An error result; a limit exhausts the crop budget of the analysis.      *)
RejectMutStopsBatch(limit) ==
  /\ IF limit THEN left' = 0 /\ owed' = owed - 1 ELSE Answered
  /\ exhausted' = (exhausted \/ limit) /\ tools' = (tools /\ ~limit)
  /\ UNCHANGED <<started, opts, phase, retries, round, large, made, requests, registry, outcome>>

Reject(limit) ==
  /\ Answered
  /\ exhausted' = (exhausted \/ limit) /\ tools' = (tools /\ ~limit)
  /\ UNCHANGED <<started, opts, phase, retries, round, large, made, requests, registry, outcome>>

(* Another tool, too many calls, arguments that do not parse, or a source  *)
(* the registry does not know.                                             *)
BadCall == phase = "batch" /\ left > 0 /\ Reject(FALSE)

(* Arguments that parse to null: reading a field of them throws.           *)
NullCall == phase = "batch" /\ left > 0 /\ ~large /\ Finish(Failure("fatal"))

DeniedCall ==
  /\ phase = "batch" /\ left > 0 /\ ~large
  /\ \E a \in assets, boxed \in BOOLEAN :
       Refusal(a, boxed) # "none" /\ Reject(Refusal(a, boxed) \in LimitCodes)

(* authorizeCrop counts the crop before cropImage is awaited.              *)
Crops(a) ==
  /\ phase = "batch" /\ left > 0 /\ ~large
  /\ Refusal(a, TRUE) = "none"
  /\ used' = [used EXCEPT ![a.root] = @ + 1]
  /\ attempts' = [attempts EXCEPT ![a.root] = @ + 1]

(* registerCrop: the crop is an asset one level below its parent.          *)
CropMade ==
  \E a \in assets :
    /\ Crops(a)
    /\ assets' = assets \union {[root |-> a.root, depth |-> a.depth + 1]}
    /\ Answered /\ made' = TRUE
    /\ UNCHANGED <<started, opts, phase, budget, large, requests, outcome>>

(* A crop that fails gives its place in the quota back.                    *)
CropFailsMutRefunds ==
  \E a \in assets :
    /\ phase = "batch" /\ left > 0 /\ ~large
    /\ Refusal(a, TRUE) = "none"
    /\ attempts' = [attempts EXCEPT ![a.root] = @ + 1]
    /\ Answered
    /\ UNCHANGED <<started, opts, phase, budget, large, made, requests, assets, used, outcome>>

(* cropImage fails with a code the model may be told.                      *)
CropFails ==
  \E a \in assets :
    /\ Crops(a) /\ Answered
    /\ UNCHANGED <<started, opts, phase, budget, large, made, requests, assets, outcome>>

(* cropImage fails for good, or is aborted: the analysis throws.           *)
CropThrows ==
  \E a \in assets, kind \in {"fatal", "aborted"} :
    /\ Crops(a)
    /\ phase' = "free" /\ outcome' = Failure(kind)
    /\ UNCHANGED <<started, opts, budget, batch, owed, requests, assets>>

(* The rounds a caller gets: a tile gets one.                              *)
RoundsAllowedMutTiles == RoundLimit
RoundsAllowed == IF opts.context = "zoom_tile" THEN Min({RoundLimit, 1}) ELSE RoundLimit

(* Every call has its result: the next request, with the crops, without    *)
(* tools once the budget is spent.  A round that gave nothing and left     *)
(* nothing to crop with counts as a failed attempt if one is left.         *)
EndBatch ==
  /\ phase = "batch" /\ left = 0
  /\ LET over == exhausted \/ round >= RoundsAllowed \/ large
     IN  /\ exhausted' = over /\ tools' = (tools /\ ~over)
         /\ retries' = IF over /\ ~made /\ retries < RetryLimit THEN retries + 1 ELSE retries
  /\ phase' = "asked" /\ Request
  /\ UNCHANGED <<started, opts, round, batch, owed, registry, outcome>>

Handle == BadCall \/ NullCall \/ DeniedCall \/ CropMade \/ CropFails \/ CropThrows \/ EndBatch

(* BatchLimit + 1 stands for every batch that is too large.                *)
Answer == TimedOut \/ Fails \/ Judge \/ \E n \in 1..(BatchLimit + 1) : Batch(n)

Next == Start \/ Answer \/ Handle

Spec == Init /\ [][Next]_vars /\ WF_vars(Answer \/ Handle)

-----------------------------------------------------------------------------
TypeOK ==
  /\ started \in 0..Analyses /\ opts \in Options /\ phase \in {"free", "asked", "batch"}
  /\ retries \in 0..RetryLimit /\ round \in 0..RoundLimit
  /\ {exhausted, tools, large, made} \subseteq BOOLEAN
  /\ left \in 0..(BatchLimit + 1) /\ owed \in 0..(BatchLimit + 1)
  /\ requests \in 0..RequestCap
  /\ assets \subseteq [root : Images, depth : 0..DepthLimit]
  /\ used \in [Images -> 0..CropsPerRoot] /\ attempts \in [Images -> Nat]

(* The model never sees a history in which a crop call lacks its result,   *)
(* though a batch is handled past a refused or a failed crop.              *)
CallsAnswered == phase = "asked" => owed = 0

(* Whatever the model asks for, in however many analyses (the root frame   *)
(* and each tile share one registry), cropImage runs at most CropsPerRoot  *)
(* times for an image, a crop that fails included.                         *)
CropsWithinQuota == \A i \in Images : attempts[i] <= CropsPerRoot

(* A tile gets one crop round, and the requests of an analysis are bounded *)
(* by its retries and its rounds, also when the model goes on asking for   *)
(* crops that are no longer offered.                                       *)
DialogueBounded ==
  /\ opts.context = "zoom_tile" => round <= 1
  /\ requests <= 1 + RetryLimit + round

(* The dialogue stays well formed and within all of its bounds.            *)
VisionBounded == CallsAnswered /\ CropsWithinQuota /\ DialogueBounded

(* What a caller gets is what the callers rely on.                         *)
PromiseKept == outcome # NoOutcome => outcome \in Promised(opts.contract, opts.zoom)

(* An analysis ends, whatever the model answers.                           *)
AnalysisEnds == (phase # "free") ~> (phase = "free")
=============================================================================

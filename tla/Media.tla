-------------------------------- MODULE Media --------------------------------
(***************************************************************************)
(* How an attachment becomes evidence, on three levels that are checked    *)
(* one by one, each while the others rest: the analyses of concurrent      *)
(* requests (MediaAnalysis); the dialogue with the visual model, for the   *)
(* analyses of one attachment; and the evidence put together from such     *)
(* analyses.  VisionContract is what the last two share: PromiseKept of    *)
(* one is the assumption of the other.                                     *)
(***************************************************************************)
EXTENDS MediaAnalysis

CONSTANTS
    Images, Analyses, RoundLimit, RetryLimit, BatchLimit, CropsPerRoot, DepthLimit,
    Pages, PageBatch, Tiles

VARIABLES
    part,
    started, opts, phase, retries, round, exhausted, tools, batched, large, made,
    owed, requests, assets, used, attempts, outcome,              \* vision
    job, stage, tiles, regions, route, low, turn, next, zooming, covered, lacks, stored

dialogueVars == <<started, opts, phase, retries, round, exhausted, tools, batched, large,
                  made, owed, requests, assets, used, attempts, outcome>>
evidenceVars == <<job, stage, tiles, regions, route, low, turn, next, zooming, covered,
                  lacks, stored>>

VA == INSTANCE VisionAnalysis WITH left <- batched
VE == INSTANCE VisualEvidence WITH left <- tiles

ASSUME DialogueAssumption == VA!NaturalLimits
ASSUME EvidenceAssumption == VE!PageLimits

MediaInit ==
    /\ part \in {"requests", "vision", "evidence"}
    /\ Init /\ VA!Init /\ VE!Init
    /\ opts = CHOOSE o \in VA!Options : TRUE
    /\ part # "evidence" => job = "image"

DialogueStep ==
    part = "vision" /\ (VA!Answer \/ VA!Handle) /\ UNCHANGED <<part, vars, evidenceVars>>

MediaNext ==
    \/ part = "requests" /\ Next /\ UNCHANGED <<part, dialogueVars, evidenceVars>>
    \/ part = "vision" /\ VA!Start /\ UNCHANGED <<part, vars, evidenceVars>>
    \/ DialogueStep
    \/ part = "evidence" /\ VE!Next /\ UNCHANGED <<part, vars, dialogueVars>>

(* The fairness of each part: a vision request ends, by its timeout if by  *)
(* nothing else.                                                           *)
MediaSpec ==
    /\ MediaInit /\ [][MediaNext]_<<part, vars, dialogueVars, evidenceVars>>
    /\ Fairness
    /\ WF_dialogueVars(DialogueStep)

(* The dialogue with the visual model stays well formed and bounded.       *)
VisionBounded == VA!TypeOK /\ VA!VisionBounded

(* An analysis returns only what VisionContract promises.                  *)
PromiseKept == VA!PromiseKept

(* Image evidence and perceptions in the media cache are complete.         *)
OnlyCompleteKept == VE!OnlyCompleteKept

(* A PDF's result names each page that needs it in one visual batch.       *)
PagesCovered == VE!PagesCovered

(* Every waiter of an analysis is answered, and every dialogue ends.       *)
MediaEnds == WaitersAnswered /\ (part = "vision" => VA!AnalysisEnds)
=============================================================================

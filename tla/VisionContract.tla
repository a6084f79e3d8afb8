--------------------------- MODULE VisionContract ---------------------------
(***************************************************************************)
(* What one answer of the visual model is worth, and what one visual       *)
(* analysis may return: the evidence contract of                           *)
(* src/src/visual/vision-client.js.  The text of an answer is abstracted   *)
(* to what the parser looks for in it: the status line, the detail and     *)
(* completeness lines below it, the evidence list, a leaked control tag.   *)
(* A line out of its place is a missing line.                              *)
(***************************************************************************)

Statuses == {"blank", "needs_zoom", "unreadable", "content"}

(* An answer without a first status line has status "none", one with an    *)
(* unknown status "invalid", one without any text "empty".  The evidence   *)
(* is "unlisted" when there is text but no marker with a bullet below it.  *)
Content ==
  [status       : Statuses \union {"none", "invalid", "empty"},
   detail       : {"none", "invalid", "sufficient", "needs_zoom"},
   completeness : {"none", "invalid", "complete", "partial"},
   evidence     : {"none", "unlisted", "listed"},
   tagged       : BOOLEAN]

Lined(c) == c.detail \in {"sufficient", "needs_zoom"} /\ c.completeness # "invalid"

(* Is the contract of the answer valid?                                    *)
Valid(c) ==
  \/ c.status \in {"blank", "needs_zoom", "unreadable"}
  \/ c.status = "content" /\ Lined(c) /\ c.evidence = "listed"

(* Content lines without the evidence marker are made a list.              *)
Repaired(c) ==
  IF c.status = "content" /\ Lined(c) /\ c.evidence = "unlisted" /\ ~c.tagged
    THEN [c EXCEPT !.evidence = "listed"]
    ELSE c

(* The evidence of the answer is known to lack something.                  *)
Lacking(c) == c.completeness = "partial" \/ c.detail = "needs_zoom" \/ c.status # "content"

Verdict(quality, cacheable, lacking) ==
  [quality |-> quality, cacheable |-> cacheable, lacking |-> lacking]

(* Without this condition the completeness the model states is not read.   *)
KeepableMutIgnoresPartial(c) == TRUE
Keepable(c) == c.completeness # "partial"

Zooming(c) == c.status = "needs_zoom" \/ (c.status = "content" /\ c.detail = "needs_zoom")

(* classifyVisionOutputQuality of an answer without tool calls.            *)
EvidenceQuality(c) ==
  CASE c.status = "empty"                -> Verdict("empty", FALSE, TRUE)
    [] c.status # "empty" /\ c.tagged    -> Verdict("weak", FALSE, TRUE)
    [] c.status = "blank" /\ ~c.tagged   -> Verdict("good", TRUE, FALSE)
    [] OTHER -> LET r == Repaired(c)
                IN  CASE Valid(r) /\ Zooming(r) -> Verdict("needs_zoom", FALSE, TRUE)
                      [] Valid(r) /\ r.status = "content" /\ ~Zooming(r) ->
                           Verdict("good", Keepable(r), Lacking(r))
                      [] OTHER -> Verdict("weak", FALSE, TRUE)

RawQuality(c) ==
  CASE c.status = "empty"             -> Verdict("empty", FALSE, TRUE)
    [] c.status # "empty" /\ c.tagged -> Verdict("weak", FALSE, TRUE)
    [] OTHER                          -> Verdict("good", TRUE, FALSE)

Contracts == {"evidence", "raw"}

(* Every verdict an answer without tool calls can get.                     *)
Verdicts ==
  [k \in Contracts |-> IF k = "raw" THEN {RawQuality(c) : c \in Content}
                                    ELSE {EvidenceQuality(c) : c \in Content}]

-----------------------------------------------------------------------------
(* What analyzeVisualAssets gives its caller: evidence, or an error that   *)
(* the callers tell apart as recoverable, fatal or an abort.               *)
Evidence(v, zoom) ==
  [kind |-> "evidence", zoom |-> zoom, cacheable |-> v.cacheable, lacking |-> v.lacking]

Failure(kind) == [kind |-> kind, zoom |-> FALSE, cacheable |-> FALSE, lacking |-> TRUE]

Failures == {Failure(k) : k \in {"recoverable", "fatal", "aborted"}}

(* The promise the callers rely on: a zoom is asked for only where it is   *)
(* allowed, and evidence that lacks something is not cacheable.            *)
Promised(contract, zoomAllowed) ==
  Failures \union
  {e \in [kind : {"evidence"}, zoom : BOOLEAN, cacheable : BOOLEAN, lacking : BOOLEAN] :
     /\ e.zoom => zoomAllowed /\ e.lacking /\ contract = "evidence"
     /\ e.cacheable <=> ~e.lacking}
=============================================================================

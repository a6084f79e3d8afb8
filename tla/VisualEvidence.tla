--------------------------- MODULE VisualEvidence ---------------------------
(***************************************************************************)
(* How the results of visual analyses become the evidence of one           *)
(* attachment, and whether that evidence is stored in the media cache: an  *)
(* image (adaptImage in src/src/proxy/media-adapters.js with               *)
(* src/src/visual/generic-zoom.js), a PDF (src/src/parsers/pdf.js) and a   *)
(* directed query (src/src/visual/directed-perception.js).  An analysis is *)
(* one step here: it returns what VisionContract promises, and             *)
(* VisionAnalysis is checked to keep that promise.                         *)
(***************************************************************************)
EXTENDS Naturals, FiniteSets, VisionContract

CONSTANTS Pages,      \* the pages of a PDF, numbered from 1
          PageBatch,  \* maxVisualPagesPerBatch
          Tiles       \* tiles of a zoomed frame

(* parsePdfInfo refuses a document without pages, batchVisualPages a batch *)
(* without room.                                                           *)
PageLimits == Pages \in Nat \ {0} /\ PageBatch \in Nat \ {0}

VARIABLES job,      \* image, pdf or directed
          stage,    \* where the job is
          left,     \* tiles of the current frame not analysed yet
          regions,  \* the statuses of the tiles analysed so far
          route,    \* the class of each PDF page
          low,      \* PDF pages without sufficient native text
          turn,     \* which of the loops over the PDF's pages runs
          next,     \* how far it came in the pages of its route
          zooming,  \* PDF pages waiting for their tiles
          covered,  \* the visual batches of the result that name a PDF page
          lacks,    \* some evidence in the result lacks something
          stored    \* the result is in the media cache

loop == <<turn, next>>
pdf == <<route, low, loop, zooming, covered>>
vars == <<job, stage, left, regions, pdf, lacks, stored>>

PageSet == 1..Pages
Routes == {"TEXT", "DIAGRAM", "SCHEMATIC", "DENSE_PAGE"}
Ends == {"evidence", "unavailable", "thrown"}

Init ==
  /\ job \in {"image", "pdf", "directed"} /\ stage = "start"
  /\ left = 0 /\ regions = {}
  /\ route = [p \in PageSet |-> "none"] /\ low = {} /\ zooming = {}
  /\ turn = 1 /\ next = 0 /\ covered = [p \in PageSet |-> 0]
  /\ lacks = FALSE /\ stored = FALSE

End(how, keep) ==
  /\ stage' = how /\ stored' = (how = "evidence" /\ keep)
  /\ UNCHANGED <<job, left, regions, pdf>>

(* The promises for a root frame, a tile and a raw answer.                 *)
RootResults == Promised("evidence", TRUE)
TileResults == Promised("evidence", FALSE)
RawResults == Promised("raw", FALSE)

-----------------------------------------------------------------------------
(* adaptImage.  A recoverable failure becomes unavailable evidence for     *)
(* this request and its continuation, any other error fails the request.   *)
ImageRoot ==
  /\ job = "image" /\ stage = "start"
  /\ \E r \in RootResults :
       \/ r.kind = "evidence" /\ ~r.zoom /\ lacks' = r.lacking /\ End("evidence", r.cacheable)
       \/ /\ r.kind = "evidence" /\ r.zoom
          /\ stage' = "tiles" /\ left' = Tiles
          /\ UNCHANGED <<job, regions, pdf, lacks, stored>>
       \/ r.kind = "recoverable" /\ lacks' = TRUE /\ End("unavailable", FALSE)
       \/ r.kind \in {"fatal", "aborted"} /\ UNCHANGED lacks /\ End("thrown", FALSE)

(* The source cannot be read or normalised, or a tile cannot be cropped.   *)
ImageThrows ==
  /\ job = "image" /\ stage \in {"start", "tiles"}
  /\ UNCHANGED lacks /\ End("thrown", FALSE)

(* The status of a tile; a failed tile is a gap, and the zoom goes on.     *)
TileStatus(r) ==
  CASE r.kind = "recoverable"               -> "failed"
    [] r.kind = "evidence" /\ r.zoom        -> "unresolved"
    [] r.kind = "evidence" /\ ~r.zoom /\ ~r.cacheable -> "partial"
    [] OTHER                                -> "resolved"

ImageTile ==
  /\ job = "image" /\ stage = "tiles" /\ left > 0
  /\ \E r \in TileResults :
       \/ /\ r.kind \in {"evidence", "recoverable"}
          /\ left' = left - 1 /\ regions' = regions \union {TileStatus(r)}
          /\ lacks' = (lacks \/ r.lacking)
          /\ UNCHANGED <<job, stage, pdf, stored>>
       \/ r.kind \in {"fatal", "aborted"} /\ UNCHANGED lacks /\ End("thrown", FALSE)

(* Only a zoom whose every tile is resolved is cacheable.                  *)
ZoomCacheableMutFailed == regions \intersect {"unresolved", "partial"} = {}
ZoomCacheable == regions \intersect {"unresolved", "partial", "failed"} = {}

ImageDone ==
  /\ job = "image" /\ stage = "tiles" /\ left = 0
  /\ UNCHANGED lacks /\ End("evidence", ZoomCacheable)

Image == ImageRoot \/ ImageThrows \/ ImageTile \/ ImageDone

-----------------------------------------------------------------------------
(* parsePdf: pdfinfo, the page plan and the native text.                   *)
PdfOpen ==
  /\ job = "pdf" /\ stage = "start"
  /\ stage' = "plan"
  /\ low' \in SUBSET PageSet
  /\ UNCHANGED <<job, left, regions, route, loop, zooming, covered, lacks, stored>>

(* A large document gives a map of its native text, a native or a counting *)
(* request gives the native text, which is not stored; without a visual    *)
(* endpoint the text is the result, and an entirely scanned document fails.*)
PdfWithoutVision ==
  /\ job = "pdf" /\ stage = "plan"
  /\ UNCHANGED lacks
  /\ \/ \E keep \in BOOLEAN : End("evidence", keep)
     \/ low = PageSet /\ End("thrown", FALSE)

PdfVision ==
  /\ job = "pdf" /\ stage = "plan" /\ stage' = "classify"
  /\ UNCHANGED <<job, left, regions, pdf, lacks, stored>>

(* A command, a rendering or an abort fails the document.                  *)
PdfThrows ==
  /\ job = "pdf" /\ stage \notin Ends \union {"start"}
  /\ UNCHANGED lacks /\ End("thrown", FALSE)

(* classifyPdfPage answers every error with DENSE_PAGE, an abort included, *)
(* and a raster page that is doubtfully TEXT is made DENSE_PAGE.           *)
PdfClassify ==
  /\ job = "pdf" /\ stage = "classify"
  /\ \E p \in {q \in PageSet : route[q] = "none" /\ \A s \in 1..(q - 1) : route[s] # "none"},
        r \in RawResults :
       \E class \in IF r.kind = "evidence" THEN Routes ELSE {"DENSE_PAGE"} :
         /\ route' = [route EXCEPT ![p] = class]
         /\ stage' = IF p = Pages THEN "batches" ELSE "classify"
  /\ UNCHANGED <<job, left, regions, low, loop, zooming, covered, lacks, stored>>

(* The pages the visual model is asked about: a TEXT page only when its    *)
(* native text is not sufficient.                                          *)
NeedsVision(p) == route[p] # "TEXT" \/ p \in low

(* A loop for each generic route, over batches of its pages, then one over *)
(* the schematic pages.                                                    *)
LoopRoutes == <<"TEXT", "DIAGRAM", "DENSE_PAGE", "SCHEMATIC">>
Entries(k) == {p \in PageSet : route[p] = LoopRoutes[k] /\ NeedsVision(p)}
Rank(k, p) == Cardinality({q \in Entries(k) : q < p})

\* Mutant: the end of the slice is taken for its last element.
SliceMutShort(size) ==
  {p \in Entries(turn) : next <= Rank(turn, p) /\ Rank(turn, p) + 1 < next + size}

(* batchVisualPages: the pages at next, next + 1, .. of the route.         *)
Slice(size) ==
  {p \in Entries(turn) : next <= Rank(turn, p) /\ Rank(turn, p) < next + size}

AtLoop == job = "pdf" /\ stage = "batches" /\ zooming = {}
InLoop == AtLoop /\ next < Cardinality(Entries(turn))

(* visualBatches.push with the numbers of these pages. *)
Cover(pages) == covered' = [p \in PageSet |-> covered[p] + IF p \in pages THEN 1 ELSE 0]

PdfNextRoute ==
  /\ AtLoop /\ turn \in 1..4 /\ next >= Cardinality(Entries(turn))
  /\ turn' = turn + 1 /\ next' = 0
  /\ UNCHANGED <<job, stage, left, regions, route, low, zooming, covered, lacks, stored>>

(* One request for a batch of pages.  A dense batch makes each of its      *)
(* pages zoom; an error is not caught here.                                *)
PdfBatch ==
  /\ turn \in 1..3 /\ InLoop
  /\ \E r \in Promised("evidence", turn # 1) :
       \/ /\ r.kind = "evidence" /\ ~r.zoom
          /\ next' = next + PageBatch /\ Cover(Slice(PageBatch))
          /\ lacks' = (lacks \/ r.lacking)
          /\ UNCHANGED <<job, stage, left, regions, route, low, turn, zooming, stored>>
       \/ /\ r.kind = "evidence" /\ r.zoom
          /\ next' = next + PageBatch /\ zooming' = Slice(PageBatch) /\ left' = Tiles
          /\ UNCHANGED <<job, stage, regions, route, low, turn, covered, lacks, stored>>
       \/ r.kind \notin {"evidence"} /\ UNCHANGED lacks /\ End("thrown", FALSE)

(* The overview of a schematic page, whose tiles always follow.            *)
PdfSchematic ==
  /\ turn = 4 /\ InLoop
  /\ \E r \in TileResults :
       \/ /\ r.kind = "evidence"
          /\ next' = next + 1 /\ zooming' = Slice(1) /\ left' = Tiles
          /\ lacks' = (lacks \/ r.lacking)
          /\ UNCHANGED <<job, stage, regions, route, low, turn, covered, stored>>
       \/ r.kind \notin {"evidence"} /\ UNCHANGED lacks /\ End("thrown", FALSE)

(* A tile that fails recoverably is noted in the evidence of its page, any *)
(* other error is thrown.  After its last tile the page is merged.         *)
PdfTile ==
  /\ job = "pdf" /\ stage = "batches" /\ zooming # {}
  /\ \E p \in zooming, r \in TileResults :
       /\ \A q \in zooming : p <= q
       /\ \/ /\ r.kind \in {"evidence", "recoverable"}
             /\ lacks' = (lacks \/ r.lacking)
             /\ IF left > 1
                  THEN left' = left - 1 /\ UNCHANGED <<zooming, covered>>
                  ELSE /\ zooming' = zooming \ {p} /\ Cover({p})
                       /\ left' = IF zooming = {p} THEN 0 ELSE Tiles
             /\ UNCHANGED <<job, stage, regions, route, low, loop, stored>>
          \/ r.kind \in {"fatal", "aborted"} /\ UNCHANGED lacks /\ End("thrown", FALSE)

(* The result of parsePdf says nothing of cacheability: it is stored.      *)
PdfDone ==
  /\ AtLoop /\ turn = 5
  /\ UNCHANGED lacks /\ End("evidence", TRUE)

Pdf ==
  \/ PdfOpen \/ PdfWithoutVision \/ PdfVision \/ PdfThrows
  \/ PdfClassify \/ PdfNextRoute \/ PdfBatch \/ PdfSchematic \/ PdfTile \/ PdfDone

-----------------------------------------------------------------------------
(* executeDirectedVisualQuery.  Its result is complete or partial once it  *)
(* parses and validates; a request without an answer makes it partial.     *)
Perceived == {"complete", "partial", "unavailable"}

(* Without the comparison of the status every validated result is kept.    *)
QueryStoredMutPartial(status) == status # "unavailable"
QueryStored(status) == status = "complete"

QueryDone(status) == lacks' = (status # "complete") /\ End("evidence", QueryStored(status))

(* A cached result is used only when it validates and is complete.         *)
QueryHit ==
  /\ job = "directed" /\ stage = "start"
  /\ lacks' = FALSE /\ End("evidence", FALSE)

QueryUnanswered(r) ==
  \/ r.kind \in {"recoverable", "fatal"} /\ lacks' = TRUE /\ End("unavailable", FALSE)
  \/ r.kind = "aborted" /\ UNCHANGED lacks /\ End("thrown", FALSE)

QueryFirst ==
  /\ job = "directed" /\ stage = "start"
  /\ \E r \in RawResults :
       \/ r.kind = "evidence" /\ \E s \in Perceived : QueryDone(s)
       \/ /\ r.kind = "evidence" /\ stage' = "repair"
          /\ UNCHANGED <<job, left, regions, pdf, lacks, stored>>
       \/ QueryUnanswered(r)

(* One repair of the serialisation, without images and without crops.      *)
QueryRepair ==
  /\ job = "directed" /\ stage = "repair"
  /\ \E r \in RawResults :
       \/ r.kind = "evidence" /\ \E s \in Perceived : QueryDone(s)
       \/ r.kind = "evidence" /\ lacks' = TRUE /\ End("unavailable", FALSE)
       \/ QueryUnanswered(r)

Query == QueryHit \/ QueryFirst \/ QueryRepair

Next == Image \/ Pdf \/ Query

Spec == Init /\ [][Next]_vars

-----------------------------------------------------------------------------
(* The media cache never keeps image evidence or a perception in which     *)
(* something is partial, unresolved, failed or unavailable: the flag that  *)
(* decides it is put together from several analyses, and the one of the    *)
(* root frame is overwritten by the one of the zoom.                       *)
OnlyCompleteKept == job # "pdf" => (stored => ~lacks)

(* The result of a PDF names every page that needs visual evidence in one  *)
(* of its visual batches, and in one only, whatever the mixture of routes, *)
(* of batches that end early, of zooms and of failed tiles; no other page  *)
(* is named.                                                               *)
PagesCovered ==
  job = "pdf" /\ stage = "evidence"
    => \A p \in PageSet :
         covered[p] = IF route[p] = "none" \/ (route[p] = "TEXT" /\ p \notin low)
                        THEN 0 ELSE 1

(* README.md:1028 for every attachment.                                    *)
NothingPartialPersisted == stored => ~lacks
=============================================================================

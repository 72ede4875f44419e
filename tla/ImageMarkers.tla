---------------------------- MODULE ImageMarkers ----------------------------
(***************************************************************************)
(* The [file.jpg] markers of a description: image-placeholder.ts, its twins  *)
(* for a document (image-placeholder-doc.ts) and for HTML                    *)
(* (image-placeholder-html.ts), the check and the last resort of             *)
(* image-placeholder-validate.ts, image-manifest-coverage.ts, and the order  *)
(* in which runDocGate() of the orchestrator calls them.                     *)
(*                                                                           *)
(* A description is a sequence of blocks: a paragraph, a carrier that hosts  *)
(* no figure (bullets, headings, cells), a figure, or the boundary between   *)
(* two sections.  It starts with the hook; behind the last boundary is the   *)
(* call to action.  Text is a sequence of pieces: a marker's file, "text",   *)
(* or "caption", a text that says just what the caption of the image says.   *)
(* In a document a figure block holds the place of its image in `figures`,   *)
(* in HTML the image itself.                                                 *)
(***************************************************************************)
EXTENDS Naturals, Sequences, SequencesExt, FiniteSets, Lists

CONSTANTS Marker, Url,     \* the files named in markers; names of output files
          Manifest,        \* the manifests of uploads: sequences of [file, url, usable]
          Paragraphs,      \* the texts a paragraph may have
          Carriers,        \* the texts of carriers that host no figure
          MaxBlocks,       \* bound on the blocks before the boundary; behind it is one
          NoReport         \* the step did not run

VARIABLES marking,    \* "writing", "written", "shipped" or "failed"
          uploads,    \* the manifest as it was when generate() was called
          typed,      \* the files of the markers in the Original Description
          doc,        \* the document of this attempt: [blocks, figures]
          report,     \* what the marker step saw in it
          written,    \* the document as the model wrote it
          coverage    \* the coverage findings that ship with the document

markerVars == <<marking, uploads, typed, doc, report, written, coverage>>

Words == {"text", "caption"}

(* A paragraph without text is none.                                         *)
ASSUME MarkerAssumption ==
  /\ IsFiniteSet(Marker) /\ Marker \intersect Words = {} /\ MaxBlocks \in Nat
  /\ Manifest \subseteq Seq([file : Marker, url : Url, usable : BOOLEAN])
  /\ Paragraphs \subseteq Seq(Marker \union Words) \ {<< >>}
  /\ Carriers \subseteq Seq(Marker \union Words)

Empty == [blocks |-> << >>, figures |-> << >>]

Paragraph(pieces) == [kind |-> "paragraph", pieces |-> pieces]
Carrier(pieces) == [kind |-> "carrier", pieces |-> pieces]
Figure(ref) == [kind |-> "figure", ref |-> ref]
Boundary == [kind |-> "boundary"]

Pictures(blocks) == {i \in DOMAIN blocks : blocks[i].kind = "figure"}

-----------------------------------------------------------------------------
(* The manifest.                                                             *)

(* matchManifest: the first usable entry of that name; 0 when there is none. *)
Match(manifest, file) ==
  LET fits == {i \in DOMAIN manifest : manifest[i].file = file /\ manifest[i].usable}
  IN  IF fits = {} THEN 0 ELSE CHOOSE i \in fits : \A j \in fits : i <= j

UrlOf(manifest, file) == manifest[Match(manifest, file)].url

(* preExtractPlaceholders                                                    *)
Expected(manifest, files) == {f \in files : Match(manifest, f) # 0}

Count(urls, u) == Cardinality({i \in DOMAIN urls : urls[i] = u})

(* validateImageManifestCoverageDoc, and checkImageManifestCoverage for HTML *)
Coverage(urls, manifest) ==
  IF manifest = << >> THEN {}
  ELSE LET listed == {manifest[i].url : i \in DOMAIN manifest}
       IN  {<<"missing", u>> : u \in {v \in listed : Count(urls, v) = 0}}
           \union {<<"duplicate", u>> : u \in {v \in listed : Count(urls, v) > 1}}
           \union {<<"unknown", u>> : u \in Range(urls) \ listed}

-----------------------------------------------------------------------------
(* PlaceholderTracker: markers seen, those that match (in order of first     *)
(* sight), those placed, and the images placed, in document order.           *)
Tracker == [seen |-> {}, matched |-> << >>, placed |-> {}, images |-> << >>]

visit(manifest, t, file, lead) ==
  LET matches == Match(manifest, file) # 0
      known == [t EXCEPT !.seen = @ \union {file},
                         !.matched = IF matches /\ file \notin Range(@) THEN Append(@, file) ELSE @]
  IN  IF matches /\ file \notin t.placed /\ lead \notin {<< >>, <<"caption">>}
      THEN [known EXCEPT !.placed = @ \union {file}, !.images = Append(@, UrlOf(manifest, file))]
      ELSE known

Unplaced(t) == Filtered(t.matched, {i \in DOMAIN t.matched : t.matched[i] \notin t.placed})

(* scrubNonHosting: markers are reported and taken out.                      *)
Scrub(manifest, t, pieces) ==
  FoldLeft(LAMBDA u, p : IF p \in Marker THEN visit(manifest, u, p, << >>) ELSE u, t, pieces)
Scrubbed(pieces) == Filtered(pieces, {i \in DOMAIN pieces : pieces[i] \notin Marker})

(* The walk: [t, last, out], where `last` is the last paragraph of the       *)
(* section so far.  The k-th image that is placed leaves Placed(k) where its *)
(* figure goes.                                                              *)
Placed(k) == [kind |-> "placed", ref |-> k]

Flush(s, cur) ==
  IF cur = << >> THEN s ELSE [s EXCEPT !.out = Append(@, Paragraph(cur)), !.last = cur]

(* processParagraph of both twins: the paragraph is split at every marker    *)
(* that becomes a figure; the text of the others is joined again.            *)
SplitAt(a, t) ==
  IF Len(t.images) = Len(a.s.t.images) THEN [a EXCEPT !.s.t = t]
  ELSE [s |-> [Flush(a.s, a.cur) EXCEPT !.t = t, !.out = Append(@, Placed(Len(t.images)))],
        cur |-> << >>]

OnePiece(manifest, a, p) ==
  IF p \notin Marker THEN [a EXCEPT !.cur = Append(@, p)]
  ELSE SplitAt(a, visit(manifest, a.s.t, p, IF a.cur # << >> THEN a.cur ELSE a.s.last))

SplitParagraph(manifest, s, pieces) ==
  LET Ended(end) == Flush(end.s, end.cur)
  IN  Ended(FoldLeft(LAMBDA a, p : OnePiece(manifest, a, p), [s |-> s, cur |-> << >>], pieces))

OneBlock(manifest, s, b) ==
  CASE b.kind = "paragraph" -> SplitParagraph(manifest, s, b.pieces)
    [] b.kind = "carrier" -> [s EXCEPT !.t = Scrub(manifest, s.t, b.pieces),
                                       !.out = Append(@, Carrier(Scrubbed(b.pieces)))]
    [] b.kind = "figure" -> [s EXCEPT !.out = Append(@, b)]
    [] b.kind = "boundary" -> [s EXCEPT !.out = Append(@, b), !.last = << >>]

(* The walk over all blocks, in document order.                              *)
Walk(manifest, blocks) ==
  FoldLeft(LAMBDA s, b : OneBlock(manifest, s, b),
           [t |-> Tracker, last |-> << >>, out |-> << >>], blocks)

(* The blocks with each placed image's figure; refs[k] is what it refers to. *)
Settled(blocks, refs) ==
  [i \in DOMAIN blocks |-> IF blocks[i].kind = "placed" THEN Figure(refs[blocks[i].ref])
                           ELSE blocks[i]]

-----------------------------------------------------------------------------
(* The document twin.                                                        *)

(* Mutant of Shifted: refs are not moved down over removed figures.          *)
Unshifted(ref, remove) == ref

Shifted(ref, remove) == ref - Cardinality({r \in remove : r < ref})

(* reindexFigures: figures are dropped with their blocks, the others and the *)
(* new ones behind them get new places.                                      *)
reindexFigures(d, remove, new) ==
  LET kept == Filtered(d.figures, DOMAIN d.figures \ remove)
      stays == Filtered(d.blocks, {i \in DOMAIN d.blocks :
                                     d.blocks[i].kind = "figure" => d.blocks[i].ref \notin remove})
      Remap(ref) == IF ref > Len(d.figures) THEN Len(kept) + ref - Len(d.figures)
                    ELSE Shifted(ref, remove)
  IN  [blocks |-> [k \in DOMAIN stays |->
                     IF stays[k].kind = "figure" THEN Figure(Remap(stays[k].ref)) ELSE stays[k]],
       figures |-> kept \o new]

(* A marker's figure replaces the model's own figure of the same image.      *)
Takes(d, images) == {i \in DOMAIN d.figures : d.figures[i] \in Range(images)}

(* Images of markers that could not be placed, and that the model did not    *)
(* place either, go to the end.                                              *)
Rest(d, manifest, t) ==
  LET files == Unplaced(t)
  IN  Filtered(files, {i \in DOMAIN files : UrlOf(manifest, files[i]) \notin Range(d.figures)})

PlaceAll(d, manifest, w) ==
  LET old == Len(d.figures)
      rest == Rest(d, manifest, w.t)
      ends == [k \in DOMAIN rest |-> Figure(old + Len(w.t.images) + k)]
      new == w.t.images \o [k \in DOMAIN rest |-> UrlOf(manifest, rest[k])]
      blocks == Settled(w.out, [k \in DOMAIN w.t.images |-> old + k]) \o ends
  IN  [doc |-> reindexFigures([d EXCEPT !.blocks = blocks], Takes(d, w.t.images), new),
       seen |-> w.t.seen]
applyImagePlaceholdersDoc(d, manifest) == PlaceAll(d, manifest, Walk(manifest, d.blocks))

(* appendFigureAtEndDoc, with removeFiguresByFileDoc before it.              *)
appendFigureAtEndDoc(d, u) ==
  LET Added(r) == [blocks |-> Append(r.blocks, Figure(Len(r.figures) + 1)),
                   figures |-> Append(r.figures, u)]
  IN  Added(reindexFigures(d, Takes(d, <<u>>), << >>))

-----------------------------------------------------------------------------
(* The HTML twin: figures hold their image.                                  *)
Images(blocks) == {blocks[i].ref : i \in Pictures(blocks)}

(* appendFigureAtEndHtml, unless the image is somewhere already.             *)
AtEnd(blocks, u) == IF u \in Images(blocks) THEN blocks ELSE Append(blocks, Figure(u))

(* removeFiguresByFileHtml: the placed images are still sentinels.           *)
Finished(manifest, w) ==
  LET stays == {i \in DOMAIN w.out :
                  w.out[i].kind = "figure" => w.out[i].ref \notin Range(w.t.images)}
  IN  FoldLeft(LAMBDA blocks, f : AtEnd(blocks, UrlOf(manifest, f)),
               Settled(Filtered(w.out, stays), w.t.images), Unplaced(w.t))
applyImagePlaceholdersHtml(blocks, manifest) == Finished(manifest, Walk(manifest, blocks))

(* What a document shows: every figure block with its image.                 *)
Shown(d) ==
  [i \in DOMAIN d.blocks |-> IF i \in Pictures(d.blocks) THEN Figure(d.figures[d.blocks[i].ref])
                             ELSE d.blocks[i]]

-----------------------------------------------------------------------------
(* What the schema asks for: a hook and a call to action with text, and      *)
(* every figure used by exactly one block.                                   *)
EachUsedOnce(d) ==
  /\ Cardinality(Pictures(d.blocks)) = Len(d.figures)
  /\ Images(d.blocks) = DOMAIN d.figures

Opens(blocks, at) == at \in DOMAIN blocks /\ blocks[at].kind = "paragraph"

Cta(blocks) ==
  LET boundaries == {i \in DOMAIN blocks : blocks[i] = Boundary}
  IN  1 + CHOOSE i \in boundaries : \A j \in boundaries : j <= i

SchemaValid(d) == Opens(d.blocks, 1) /\ Opens(d.blocks, Cta(d.blocks)) /\ EachUsedOnce(d)

(* The documents a model may write.                                          *)
Blocks == {Paragraph(p) : p \in Paragraphs} \union {Carrier(p) : p \in Carriers}
          \union {Figure(0)}

(* Figures get their places in document order; which images they show is     *)
(* the model's choice.                                                       *)
Numbered(blocks) ==
  [i \in DOMAIN blocks |->
     IF i \in Pictures(blocks) THEN Figure(Cardinality({j \in Pictures(blocks) : j <= i}))
     ELSE blocks[i]]

MarkerInit ==
  /\ marking = "writing" /\ uploads \in Manifest /\ typed \in SUBSET Marker
  /\ doc = Empty /\ written = Empty /\ report = NoReport /\ coverage = {}

(* produce of runDocGate: the marker step runs on a document the schema      *)
(* accepts, and on no other.                                                 *)
Produce ==
  /\ marking = "writing"
  /\ \E first \in BoundedSeq(Blocks, MaxBlocks), last \in BoundedSeq(Blocks, 1) :
       \E blocks \in {Numbered(first \o <<Boundary>> \o last)} :
         \E images \in [1 .. Cardinality(Pictures(blocks)) -> Url] :
           \E d \in {[blocks |-> blocks, figures |-> images]} :
             /\ written' = d
             /\ IF SchemaValid(d)
                THEN \E placed \in {applyImagePlaceholdersDoc(d, uploads)} :
                       doc' = placed.doc /\ report' = placed.seen
                ELSE doc' = d /\ report' = NoReport
  /\ marking' = "written" /\ UNCHANGED <<uploads, typed, coverage>>

(* A field repair sets the field the schema missed, in the document as it    *)
(* is; the report stays as it was.                                           *)
WithText(blocks, at) ==
  IF Opens(blocks, at) THEN blocks ELSE InsertAt(blocks, at, Paragraph(<<"text">>))

RepairField ==
  /\ marking = "written" /\ ~SchemaValid(doc)
  /\ doc' = [doc EXCEPT !.blocks = WithText(WithText(@, Cta(@)), 1)]
  /\ UNCHANGED <<marking, uploads, typed, report, written, coverage>>

(* validateDroppedPlaceholders: no report, no findings.                      *)
Dropped == IF report = NoReport THEN {} ELSE Expected(uploads, typed) \ report

(* The gate ends with this attempt: finalizeDroppedPlaceholdersDoc moves     *)
(* what the model lost to the end, and the coverage is checked again.  A     *)
(* document the schema rejects is not rendered.                              *)
Orders(files) == {f \in [1 .. Cardinality(files) -> files] : Range(f) = files}

Finalize ==
  /\ marking = "written"
  /\ IF SchemaValid(doc)
     THEN \E files \in Orders(Dropped) :
          \E final \in {FoldLeft(LAMBDA d, f : appendFigureAtEndDoc(d, UrlOf(uploads, f)),
                                 doc, files)} :
            /\ marking' = "shipped" /\ doc' = final
            /\ coverage' = Coverage(final.figures, uploads)
     ELSE marking' = "failed" /\ UNCHANGED <<doc, coverage>>
  /\ UNCHANGED <<uploads, typed, report, written>>

MarkerNext == Produce \/ RepairField \/ Finalize

MarkerSpec == MarkerInit /\ [][MarkerNext]_markerVars
-----------------------------------------------------------------------------
(* Whatever the model did with the markers, in a description that the step   *)
(* has seen every image of a marker the user typed is shown, and shown once  *)
(* unless the findings say otherwise; no marker is left in its text; and     *)
(* every figure is used by one block.                                        *)
EveryImageShown ==
  marking = "shipped" =>
    /\ EachUsedOnce(doc)
    /\ report # NoReport =>
         /\ \A f \in Expected(uploads, typed) :
              LET u == UrlOf(uploads, f)
              IN  \/ Count(doc.figures, u) = 1
                  \/ Count(doc.figures, u) > 1 /\ <<"duplicate", u>> \in coverage
         /\ \A i \in DOMAIN doc.blocks :
              doc.blocks[i].kind \in {"paragraph", "carrier"} =>
                Range(doc.blocks[i].pieces) \intersect Marker = {}

(* The twins cannot drift (image-placeholder.ts, header): on the same        *)
(* description both place the same images at the same places, as long as no  *)
(* two uploads have one output name.                                         *)
TwinsAgree ==
  /\ marking # "writing"
  /\ \A i, j \in DOMAIN uploads :
       uploads[i].url = uploads[j].url => uploads[i].file = uploads[j].file
  => Shown(applyImagePlaceholdersDoc(written, uploads).doc)
       = applyImagePlaceholdersHtml(Shown(written), uploads)

(* Markers land: each image is shown where its marker was, in both twins.    *)
MarkersLand == EveryImageShown /\ TwinsAgree

(* "The literal marker never remains in the output in any case" (US-5.1,     *)
(* FR-3): a shipped description holds no marker as text.  It can, when the   *)
(* step never ran: the schema rejected the document, and repairs of single   *)
(* fields made it a valid one.                                               *)
NoMarkerShips ==
  marking = "shipped" =>
    \A i \in DOMAIN doc.blocks :
      doc.blocks[i].kind \in {"paragraph", "carrier"} =>
        Range(doc.blocks[i].pieces) \intersect Marker = {}
=============================================================================

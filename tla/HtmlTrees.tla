------------------------------ MODULE HtmlTrees ------------------------------
(***************************************************************************)
(* HTML rewritten as a tree, without a model: the cleaner of pasted pages    *)
(* (html-cleaner.ts, legacy-specs-wrap.ts), the figures around pictures and  *)
(* videos (image-figure.ts, video-figure.ts), and the tables of the store's  *)
(* theme (table-finalize.ts).                                                *)
(*                                                                           *)
(* A page gives every node a tag, marks (classes, attributes) and a sequence *)
(* of children; node 0 is the body.  A pass runs over the nodes it selected  *)
(* before it changed anything, as over the list of querySelectorAll: a node  *)
(* that an earlier step took out of the page is still rewritten where it is. *)
(* Whitespace and inline styles are left out.                                *)
(***************************************************************************)
EXTENDS Naturals, Sequences, SequencesExt, FiniteSets, FiniteSetsExt, TLC

CONSTANT Page    \* the pages to rewrite

VARIABLES
  tree,      \* the page as it was; when a pass runs again, as it was before that
  rewritten, \* what has become of it
  rewrite,   \* by which tool: "none", "clean", "generate", "display"; "again"
  passes     \* the passes still to run

treeVars == <<tree, rewritten, rewrite, passes>>

-----------------------------------------------------------------------------
(* The DOM.                                                                  *)

Nodes(d) == DOMAIN d.tag

(* The function itself, as a table: TLC looks values up instead of working   *)
(* them out again.                                                           *)
Table(f) == f @@ << >>

Listing(d) ==
  LET from[x \in Nodes(d)] ==
        FoldLeft(LAMBDA acc, y : acc \o from[y], <<x>>, d.kids[x])
  IN from

(* querySelectorAll under a node, in document order.                         *)
Under(d, x, tags) == SelectSeq(Tail(Listing(d)[x]), LAMBDA y : d.tag[y] \in tags)
Every(d, tags) == Under(d, 0, tags)
Marked(d, list, mark) == SelectSeq(list, LAMBDA x : mark \in d.marks[x])

Over_(d, x) == {y \in Nodes(d) : x \in Range(d.kids[y])}
Attached(d, x) == Over_(d, x) # {}
ParentOf(d, x) == CHOOSE y \in Nodes(d) : x \in Range(d.kids[y])
IsIn(d, x, tag) == \E y \in Over_(d, x) : d.tag[y] = tag
PlaceOf(d, x) ==
  LET kids == d.kids[ParentOf(d, x)] IN CHOOSE k \in DOMAIN kids : kids[k] = x

(* The siblings before and after: at most one of each.                       *)
NodeBefore(d, x) ==
  LET k == PlaceOf(d, x) IN IF k = 1 THEN << >> ELSE <<d.kids[ParentOf(d, x)][k - 1]>>
NodeAfter(d, x) ==
  LET kids == d.kids[ParentOf(d, x)] k == PlaceOf(d, x)
  IN IF k = Len(kids) THEN << >> ELSE <<kids[k + 1]>>
Is(d, found, tag) == found # << >> /\ d.tag[found[1]] = tag

TakeOut(d, xs) ==
  [d EXCEPT !.kids = Table([y \in DOMAIN @ |-> SelectSeq(@[y], LAMBDA k : k \notin Range(xs))])]

(* replaceWith: without a parent it does nothing.                            *)
PutFor(d, x, new) ==
  IF ~Attached(d, x) THEN d
  ELSE LET p == ParentOf(d, x)
           e == TakeOut(d, new)
           k == PlaceOf(e, x)
       IN [e EXCEPT !.kids[p] = SubSeq(@, 1, k - 1) \o new \o SubSeq(@, k + 1, Len(@))]

PutBefore(d, x, new) ==
  LET p == ParentOf(d, x)
      e == TakeOut(d, new)
      k == PlaceOf(e, x)
  IN [e EXCEPT !.kids[p] = SubSeq(@, 1, k - 1) \o new \o SubSeq(@, k, Len(@))]

PutInto(d, p, new) == LET e == TakeOut(d, new) IN [e EXCEPT !.kids[p] = @ \o new]

NewId(d) == Cardinality(Nodes(d))
Created(d, tag, marks) ==
  LET Grown(f, v) == f @@ (NewId(d) :> v)
  IN [tag |-> Grown(d.tag, tag), marks |-> Grown(d.marks, marks), kids |-> Grown(d.kids, << >>)]

Unwrapped(d, x) == PutFor(d, x, d.kids[x])
UnwrapAll(d, list) == FoldLeft(Unwrapped, d, list)

HasText(d, x) == Under(d, x, {"text"}) # << >>
-----------------------------------------------------------------------------
(* image-figure.ts                                                           *)

(* Mutant of Framed: a figure is built around every picture.                 *)
FramedAgain(d, img) ==
  LET fig == NewId(d)
  IN PutInto(PutFor(Created(d, "figure", {}), img, <<fig>>), fig, <<img>>)

(* The figure of a picture: the one it is in, or a new one that takes the    *)
(* caption after it.                                                         *)
Framed(d, img) ==
  IF IsIn(d, img, "figure") THEN d
  ELSE LET fig == NewId(d)
           e   == PutInto(PutFor(Created(d, "figure", {}), img, <<fig>>), fig, <<img>>)
       IN IF Attached(e, fig) /\ Is(e, NodeAfter(e, fig), "figcaption")
          THEN PutInto(e, fig, NodeAfter(e, fig)) ELSE e

(* A figure directly inside a paragraph takes its place.                     *)
Hoisted(d, fig) == IF IsIn(d, fig, "p") THEN PutFor(d, ParentOf(d, fig), <<fig>>) ELSE d

wrapImageFigures(d) ==
  LET imgs == Every(d, {"img"})
      Lazy(e) == [e EXCEPT !.marks = Table([x \in DOMAIN @ |->
                    IF e.tag[x] # "img" THEN @[x]
                    ELSE IF x = imgs[1] THEN @[x] \ {"lazy"} ELSE @[x] \union {"lazy"}])]
      Wrapped(e, img) == LET f == Framed(e, img) IN Hoisted(f, ParentOf(f, img))
  IN IF imgs = << >> THEN d ELSE FoldLeft(Wrapped, Lazy(d), imgs)

(* video-figure.ts: a paragraph gives way to the figure of its video.        *)
wrapVideoFigures(d) ==
  LET Wrapped(e, video) ==
        LET fig == NewId(e)
            f   == Created(Created(Created(e, "figure", {}), "figcaption", {}), "text", {"written"})
            g   == PutFor(f, IF IsIn(f, video, "p") THEN ParentOf(f, video) ELSE video, <<fig>>)
        IN PutInto(PutInto(g, fig + 1, <<fig + 2>>), fig, <<video, fig + 1>>)
  IN FoldLeft(Wrapped, d, Marked(d, Every(d, {"iframe"}), "video"))
-----------------------------------------------------------------------------
(* legacy-specs-wrap.ts                                                      *)

(* Where the block of a table starts: at its heading, or its comment.        *)
BlockStart(d, div) ==
  LET before == NodeBefore(d, div)
  IN IF Is(d, before, "h3")
     THEN IF Is(d, NodeBefore(d, before[1]), "comment")
          THEN NodeBefore(d, before[1])[1] ELSE before[1]
     ELSE IF Is(d, before, "comment") THEN before[1] ELSE div

(* Each table of a scrolling div gets a plain div; breaks in it go.          *)
Normalized(d, wrapper) ==
  LET e      == TakeOut(d, Under(d, wrapper, {"br"}))
      tables == Under(e, wrapper, {"table"})
      f      == FoldLeft(LAMBDA acc, t : Created(acc, "div", {"responsive"}), e, tables)
      divs   == [k \in DOMAIN tables |-> NewId(e) + k - 1]
      g      == FoldLeft(LAMBDA acc, k : PutInto(acc, divs[k], <<tables[k]>>), f,
                         [k \in DOMAIN tables |-> k])
  IN PutFor(g, wrapper, divs)

(* A rule after a section.                                                   *)
Ruled(d, section) ==
  LET after == NodeAfter(d, section)
      hr    == NewId(d)
  IN IF Is(d, after, "hr") THEN d
     ELSE IF after = << >> THEN PutInto(Created(d, "hr", {}), ParentOf(d, section), <<hr>>)
     ELSE PutBefore(Created(d, "hr", {}), after[1], <<hr>>)

(* The heading before a section moves into it; without one, one is written.  *)
HeadingInto(d, section) ==
  LET before == NodeBefore(d, section)
      h2     == NewId(d)
      written == Created(Created(d, "h2", {"specs-heading"}), "text", {"written"})
  IN IF Is(d, before, "h2") /\ "specs-heading" \in d.marks[before[1]] THEN PutInto(d, section, before)
     ELSE PutInto(PutInto(written, h2, <<h2 + 1>>), section, <<h2>>)

(* The siblings from the first block to the last table move into a section,  *)
(* under a heading that is taken over or written, and a rule follows.        *)
Enveloped(d, first, last) ==
  LET start   == BlockStart(d, first)
      kids    == d.kids[ParentOf(d, start)]
      n       == PlaceOf(d, start)
      ends    == {k \in n .. Len(kids) : kids[k] = last}
      moved   == SubSeq(kids, n, IF ends = {} THEN Len(kids) ELSE Min(ends))
      section == NewId(d)
      opened  == PutBefore(Created(d, "section", {"specs"}), start, <<section>>)
  IN Ruled(PutInto(HeadingInto(opened, section), section, moved), section)

wrapLegacySpecTables(d) ==
  LET wrappers == SelectSeq(Marked(d, Every(d, {"div"}), "scrolls"),
                            LAMBDA x : Under(d, x, {"table"}) # << >>)
      e        == FoldLeft(Normalized, d, wrappers)
      divs     == SelectSeq(Every(e, {"div"}), LAMBDA x : x \notin Nodes(d))
  IN IF wrappers = << >> \/ Marked(e, Every(e, {"section"}), "specs") # << >> THEN e
     ELSE Enveloped(e, divs[1], Last(divs))
-----------------------------------------------------------------------------
(* html-cleaner.ts, in its order.                                            *)

(* HowTo and FAQPage markup is unwrapped; a FAQ without a heading before it  *)
(* gets one.                                                                 *)
FlattenSchema(d) ==
  LET Faq_(e, section) ==
        LET before == IF Attached(e, section) THEN NodeBefore(e, section) ELSE << >>
            h2     == NewId(e)
            f      == PutInto(Created(Created(e, "h2", {}), "text", {"written"}), h2, <<h2 + 1>>)
        IN IF Is(e, before, "h2") \/ Is(e, before, "h3") THEN Unwrapped(e, section)
           ELSE Unwrapped(PutBefore(f, section, <<h2>>), section)
      e1 == UnwrapAll(d, Marked(d, Every(d, {"section", "div"}), "howto"))
      e2 == FoldLeft(Faq_, e1, Marked(e1, Every(e1, {"section"}), "faq"))
  IN UnwrapAll(e2, Marked(e2, Every(e2, {"div"}), "question"))

(* Pictures out of <picture>, out of WordPress captions, and out of links    *)
(* that hold nothing else.                                                   *)
ExtractImages(d) ==
  LET Pic(e, x) == PutFor(e, x, SubSeq(Under(e, x, {"img"}), 1, 1))
      Captioned(e, x) ==
        LET img == SubSeq(Under(e, x, {"img"}), 1, 1)
            cap == SubSeq(Marked(e, Under(e, x, {"p"}), "caption"), 1, 1)
        IN IF img = << >> THEN e ELSE PutFor(e, x, img \o cap)
      Linked(e, x) ==
        IF Len(Under(e, x, {"img"})) = 1 /\ ~HasText(e, x)
        THEN PutFor(e, x, Under(e, x, {"img"})) ELSE e
      e1 == FoldLeft(Pic, d, Every(d, {"picture"}))
      e2 == FoldLeft(Captioned, e1, Marked(e1, Every(e1, {"div"}), "wp-caption"))
  IN FoldLeft(Linked, e2, Every(e2, {"a"}))

PlainHeadings(d) ==
  UnwrapAll(d, FlattenSeq([k \in DOMAIN Every(d, {"h2", "h3"}) |->
                             Under(d, Every(d, {"h2", "h3"})[k], {"b", "span"})]))

(* A paragraph that is only a break becomes the break; a break that is in no *)
(* running text goes.                                                        *)
SpacersOut(d) ==
  LET Lone(e, x) == IF Len(e.kids[x]) = 1 /\ e.tag[e.kids[x][1]] = "br"
                    THEN Unwrapped(e, x) ELSE e
      e1 == FoldLeft(Lone, d, Every(d, {"p"}))
  IN TakeOut(e1, SelectSeq(Every(e1, {"br"}),
       LAMBDA x : e1.tag[ParentOf(e1, x)] \notin {"p", "li", "td", "th", "span", "a", "b", "h2", "h3",
                                                  "figcaption"}))

(* The first cell of a row of the body is no heading.                        *)
PlainRows(d) ==
  LET rows == SelectSeq(Every(d, {"tr"}), LAMBDA x : IsIn(d, x, "tbody") /\ d.kids[x] # << >>)
      Heads == {d.kids[rows[k]][1] : k \in DOMAIN rows}
  IN [d EXCEPT !.tag = Table([x \in DOMAIN @ |-> IF x \in Heads /\ @[x] = "th" THEN "td" ELSE @[x]])]

(* A video's paragraph becomes a div, or a div is put around the video.      *)
FrameVideos(d) ==
  LET Wrapped(e, x) ==
        IF IsIn(e, x, "p") THEN [e EXCEPT !.tag[ParentOf(e, x)] = "div"]
        ELSE PutInto(PutFor(Created(e, "div", {}), x, <<NewId(e)>>), NewId(e), <<x>>)
  IN FoldLeft(Wrapped, d, Marked(d, Every(d, {"iframe"}), "video"))

cleanHtmlStructure ==
  <<"noscript", "wpb", "schema", "images", "headings", "spacers", "rows", "videos", "microdata",
    "legacy", "figures">>
-----------------------------------------------------------------------------
(* table-finalize.ts                                                         *)

InSpecs(d, x) ==
  \E s \in Nodes(d) : "specs" \in d.marks[s] /\ x \in Range(Listing(d)[s])

(* The first three-column table outside of the specs, if its header says why *)
(* it matters: the first two cells of a row become one.                      *)
collapseKillerSpecsToTwoColumns(d) ==
  LET three == SelectSeq(Every(d, {"table"}), LAMBDA t :
                 /\ ~InSpecs(d, t)
                 /\ Under(d, t, {"thead"}) # << >>
                 /\ Len(Under(d, Under(d, t, {"thead"})[1], {"th"})) = 3)
      table == three[1]
      head  == Under(d, table, {"thead"})[1]
      rows  == SelectSeq(Under(d, table, {"tr"}), LAMBDA r :
                 IsIn(d, r, "tbody") /\ Len(Under(d, r, {"td"})) = 3)
      Merge(e, r) ==
        LET cells == Under(e, r, {"td"})
            texts == Under(e, cells[1], {"text"}) \o Under(e, cells[2], {"text"})
        IN TakeOut(PutInto([e EXCEPT !.kids[cells[1]] = << >>], cells[1], texts), <<cells[2]>>)
      ths   == Under(d, head, {"th"})
  IN IF three = << >> THEN d
     ELSE IF "why" \notin d.marks[head] THEN d
     ELSE TakeOut(FoldLeft(Merge, d, rows), <<ths[2]>>)

HeaderCells(d, t) ==
  LET heads == Under(d, t, {"thead"})
  IN IF heads = << >> THEN << >> ELSE Under(d, heads[1], {"th", "td"})
HasLabels(d, t) ==
  LET cells == HeaderCells(d, t)
  IN Len(cells) >= 2 /\ HasText(d, cells[1]) /\ HasText(d, cells[2])

Commented(d, h3) ==
  IF Is(d, NodeBefore(d, h3), "comment") THEN d
  ELSE PutBefore(Created(d, "comment", {"written"}), h3, <<NewId(d)>>)

(* Lists in cells become text; every table has the two labels in plain bold  *)
(* cells, its own or those of the first table that has some.                 *)
restyleSpecTables(d) ==
  LET sections == Marked(d, Every(d, {"section"}), "specs")
      tables   == Under(d, sections[1], {"table"})
      labelled == SelectSeq(tables, LAMBDA t : HasLabels(d, t))
      Listless(e, t) ==
        LET lists == SelectSeq(Under(e, t, {"ul"}), LAMBDA u : IsIn(e, u, "td"))
        IN FoldLeft(LAMBDA acc, u : PutFor(acc, u, Under(acc, u, {"text"})), e, lists)
      Cell(e, cell) ==
        LET b == NewId(e)
            f == PutInto(Created(e, "b", {}), b, Under(e, cell, {"text"}))
        IN [f EXCEPT !.tag[cell] = "td", !.kids[cell] = <<b>>]
      Headed(e, t) ==
        LET n    == NewId(e)
            tags == <<"thead", "tr", "td", "b", "text", "td", "b", "text">>
            f    == FoldLeft(LAMBDA acc, k : Created(acc, tags[k], {"written"}), e,
                             [k \in DOMAIN tags |-> k])
            Hang(acc, pair) == PutInto(acc, n + pair[1], <<n + pair[2]>>)
            g    == FoldLeft(Hang, f, <<<<0, 1>>, <<1, 2>>, <<2, 3>>, <<3, 4>>, <<1, 5>>, <<5, 6>>,
                                        <<6, 7>>>>)
            cells == HeaderCells(e, t)
        IN IF HasLabels(e, t)
           THEN TakeOut(FoldLeft(Cell, e, SubSeq(cells, 1, 2)), SubSeq(cells, 3, Len(cells)))
           ELSE IF labelled = << >> THEN e
           ELSE [TakeOut(g, Under(e, t, {"thead"})) EXCEPT !.kids[t] = <<n>> \o @]
      e1 == FoldLeft(LAMBDA acc, t : Headed(Listless(acc, t), t), d, tables)
  IN IF sections = << >> THEN d
     ELSE FoldLeft(Commented, e1, Under(e1, sections[1], {"h3"}))

finalizeTablesForDisplay == <<"killer", "restyle">>
-----------------------------------------------------------------------------
(* What each tool runs, in its order: cleanStructureOnly, the cleaner's      *)
(* local button; the HTML path of the generator, after the model's answer;   *)
(* what is stored and shown at the end of a run.                             *)
PassesOf == [clean    |-> cleanHtmlStructure \o finalizeTablesForDisplay,
             generate |-> <<"iframes", "figures">>,
             display  |-> finalizeTablesForDisplay]

TreeInit == tree \in Page /\ rewritten = tree /\ rewrite = "none" /\ passes = << >>

(* The passes of one tool are one call in the code: nothing comes between.   *)
Start(tool) ==
  /\ rewrite = "none" /\ rewrite' = tool /\ passes' = PassesOf[tool]
  /\ UNCHANGED <<tree, rewritten>>

(* A page is translated or edited, and goes through a pass again.            *)
Again(pass) ==
  /\ rewrite \notin {"none", "again"} /\ passes = << >>
  /\ pass = "restyle" => rewrite # "generate"
  /\ rewrite' = "again" /\ passes' = <<pass, pass>> /\ UNCHANGED <<tree, rewritten>>

Pass(pass, page) ==
  /\ passes # << >> /\ pass = Head(passes)
  /\ rewritten' = page /\ passes' = Tail(passes) /\ UNCHANGED rewrite
  /\ tree' = IF rewrite = "again" THEN rewritten ELSE tree

NextPass ==
  \/ Pass("noscript", TakeOut(rewritten, Every(rewritten, {"noscript"})))
  \/ Pass("wpb", UnwrapAll(rewritten, Marked(rewritten, Every(rewritten, {"div"}), "wpb")))
  \/ Pass("schema", FlattenSchema(rewritten))
  \/ Pass("images", ExtractImages(rewritten))
  \/ Pass("headings", PlainHeadings(rewritten))
  \/ Pass("spacers", SpacersOut(rewritten))
  \/ Pass("rows", PlainRows(rewritten))
  \/ Pass("videos", FrameVideos(rewritten))
  \/ Pass("microdata", UnwrapAll(rewritten, Marked(rewritten, Every(rewritten, {"span"}), "microdata")))
  \/ Pass("legacy", wrapLegacySpecTables(rewritten))
  \/ Pass("figures", wrapImageFigures(rewritten))
  \/ Pass("iframes", wrapVideoFigures(rewritten))
  \/ Pass("killer", collapseKillerSpecsToTwoColumns(rewritten))
  \/ Pass("restyle", restyleSpecTables(rewritten))

TreeNext == \/ \E tool \in DOMAIN PassesOf : Start(tool)
            \/ \E pass \in {"figures", "restyle"} : Again(pass)
            \/ NextPass

TreeSpec == TreeInit /\ [][TreeNext]_treeVars
-----------------------------------------------------------------------------
Done(tools) == rewrite \in tools /\ passes = << >>
Tools == DOMAIN PassesOf

Leaf == {"text", "img", "iframe"}

(* What a pass is to throw away: noscript, what a <picture> or a WordPress   *)
(* caption holds beside its picture and caption, the header cell between two *)
(* that are merged, and every header of the specs after the second.          *)
Thrown(d) ==
  LET Within(xs) == UNION {Range(Listing(d)[x]) : x \in xs}
      InSection == UNION {Range(Listing(rewritten)[x]) :
                            x \in {y \in Nodes(rewritten) : "specs" \in rewritten.marks[y]}}
      pics == {x \in Nodes(d) : d.tag[x] = "picture"}
      caps == {x \in Nodes(d) : "wp-caption" \in d.marks[x] /\ Under(d, x, {"img"}) # << >>}
      kept == Within({x \in Nodes(d) : "caption" \in d.marks[x]})
      three  == SelectSeq(Every(d, {"thead"}),
                          LAMBDA h : Len(Under(d, h, {"th"})) = 3 /\ h \notin InSection)
      middle == IF three = << >> \/ "why" \notin d.marks[Head(three)] THEN {}
                ELSE {Under(d, Head(three), {"th"})[2]}
      beyond == UNION {LET cells == HeaderCells(d, t) IN Range(SubSeq(cells, 3, Len(cells))) :
                         t \in {x \in Nodes(d) : d.tag[x] = "table"} \intersect InSection}
      headers == Within(middle \union beyond)
      texts  == {x \in Within(pics) \union (Within(caps) \ kept) : d.tag[x] = "text"}
  IN [clean    |-> Within({x \in Nodes(d) : d.tag[x] = "noscript"}) \union headers \union texts,
      display  |-> headers, generate |-> {}]

Contents(d) == Every(d, Leaf)

(* A paragraph with a picture or a video, and something else.                *)
Mixed(d) ==
  \E p \in Nodes(d) :
    /\ d.tag[p] = "p" /\ Len(Under(d, p, Leaf)) > 1
    /\ Len(Under(d, p, {"img", "iframe"})) >= 1

SameContents ==
  Done(Tools) =>
    SelectSeq(Contents(rewritten), LAMBDA x : x \in Nodes(tree))
      = SelectSeq(Contents(tree), LAMBDA x : x \notin Thrown(tree)[rewrite])

(* Whatever a page is built of, a rewriting keeps its texts, pictures and    *)
(* videos, each once and in order, and adds only what it writes itself.      *)
(* Paragraphs that mix a picture with text are left out: see MixedStays.     *)
ContentsStay == ~Mixed(tree) => SameContents

(* Every picture is in one figure, no figure stands in a paragraph, and only *)
(* the first picture is loaded at once.                                      *)
PicturesAreFramed ==
  (Done({"clean", "generate"}) /\ ~Mixed(tree)) =>
    LET imgs == Every(rewritten, {"img"})
        figs == Every(rewritten, {"figure"})
    IN /\ \A k \in DOMAIN imgs :
            /\ IsIn(rewritten, imgs[k], "figure")
            /\ "lazy" \in rewritten.marks[imgs[k]] <=> k > 1
       /\ \A k \in DOMAIN figs : ~IsIn(rewritten, figs[k], "p") /\ ~IsIn(rewritten, figs[k], "figure")

ShapeOf(d) ==
  LET shape[x \in Nodes(d)] ==
        <<d.tag[x], d.marks[x] \ {"written"}, [k \in DOMAIN d.kids[x] |-> shape[d.kids[x][k]]]>>
  IN shape[0]

(* Doing it once more changes nothing: the figures, and the store's tables,  *)
(* whose pages are rewritten again when they are translated or edited.       *)
RewritingIsStable == Done({"again"}) => ShapeOf(rewritten) = ShapeOf(tree)

PagesSurvive == ContentsStay /\ PicturesAreFramed /\ RewritingIsStable

(* Also a paragraph that mixes a picture with text keeps its text.  It does  *)
(* not: the figure takes the place of the whole paragraph.                   *)
MixedStays == SameContents
=============================================================================

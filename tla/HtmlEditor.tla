------------------------------ MODULE HtmlEditor ------------------------------
(***************************************************************************)
(* The HTML editor (html-editor.component.ts): pasted HTML, edited in a      *)
(* WYSIWYG view (TipTap) or as source (CodeMirror), searched and replaced    *)
(* in either (search-replace-extension.ts), and copied back out.  The two    *)
(* views are built and torn down by effects that run before the next event   *)
(* of the user, so a handler and its effects are one step.                   *)
(*                                                                           *)
(* HTML is a sequence of blocks: paragraphs with their inline items, and     *)
(* pictures.  An item is a letter, plain or bold, or a line break.  A place  *)
(* in a document is <<block, item>>: before that item of that block.         *)
(***************************************************************************)
EXTENDS Naturals, Sequences, SequencesExt, FiniteSets, FiniteSetsExt

CONSTANTS
  Pasted,      \* what the user may paste, sanitized
  Word,        \* what may be searched: sequences of letters
  Replacing,   \* what may replace it
  Invalid,     \* a pattern that is no regular expression
  MaxEdits,    \* bound: changes of the document
  Letter       \* what texts are made of

VARIABLES
  view,       \* "paste", "wysiwyg" or "source" (loaded, sourceMode)
  original,   \* originalHtml
  wysiwyg,    \* the document of `editor`
  plugin,     \* the state of the search plugin: word, matches, index
  source,     \* the document of `cmView`, which `sourceHtml` mirrors
  sourceWord, \* the word `cmView` searches
  panel,      \* the fields of the Find & Replace bar
  lastQuery,  \* lastFindReplaceQuery
  counter,    \* findReplaceMatchCount and findReplaceCurrentMatch
  picture,    \* whether the form for a picture is open
  warned,     \* the HTML the issues shown are about
  ours,       \* history: the document as the user last saw it
  edits       \* how often it changed

editorVars == <<view, original, wysiwyg, plugin, source, sourceWord, panel, lastQuery, counter,
                picture, warned, ours, edits>>

NoDoc == << >>
NoQuery == [search |-> << >>, replace |-> << >>]
NoSearch == [word |-> << >>, matches |-> << >>, index |-> 0]

Break == [c |-> "br", bold |-> FALSE]
Typed(letters, bold) == [k \in DOMAIN letters |-> [c |-> letters[k], bold |-> bold]]
Para(items) == [kind |-> "p", items |-> items]
Photo == [kind |-> "figure", items |-> << >>]

Inlines == [c : Letter, bold : BOOLEAN] \union {Break}
Pieces == [kind : {"p"}, items : Seq(Inlines)] \union {Photo}

(* The fields of the bar hold one line; at first they are empty.             *)
ASSUME EditorAssumption ==
  /\ Pasted \subseteq Seq(Pieces)
  /\ Word \subseteq Seq(Letter) /\ << >> \in Word
  /\ Replacing \subseteq Seq(Letter) /\ << >> \in Replacing
  /\ "a" \in Letter /\ "br" \notin Letter /\ "\n" \notin Letter

-----------------------------------------------------------------------------
(* What the conversions do.                                                  *)

IsEmptyPara(b) == b = Para(<< >>)

(* TipTap's document: it ends with a paragraph to type in.                   *)
AsDocument(html) ==
  IF html = << >> \/ Last(html) = Photo THEN Append(html, Para(<< >>)) ELSE html

(* finalizeCopyHtml: the paragraph TipTap put at the end goes.               *)
finalizeCopyHtml(html) ==
  IF html # << >> /\ IsEmptyPara(Last(html)) THEN Front(html) ELSE html

(* validateStructuralParity, as far as these blocks go.                      *)
SameStructure(a, b) ==
  LET photos(html) == SelectSeq(html, LAMBDA e : e = Photo) IN photos(a) = photos(b)

-----------------------------------------------------------------------------
(* The search of the WYSIWYG view.                                           *)

(* Places in the order of the document.                                      *)
Earlier(x, y) == x[1] < y[1] \/ (x[1] = y[1] /\ x[2] < y[2])
Before(places, at) == Cardinality({x \in places : Earlier(x, at)})
InOrder(places) ==
  [n \in 1 .. Cardinality(places) |-> CHOOSE at \in places : Before(places, at) = n - 1]

(* The text nodes of a paragraph start where the formatting changes.         *)
StartsNode(items, k) ==
  /\ items[k] # Break
  /\ k = 1 \/ items[k - 1] = Break \/ items[k - 1].bold # items[k].bold

NodeEnd(items, k) ==
  Min({e \in k .. Len(items) : e = Len(items) \/ items[e + 1] = Break \/ StartsNode(items, e + 1)})

TextNodes(html) ==
  UNION {{<<b, k>> : k \in {n \in DOMAIN html[b].items : StartsNode(html[b].items, n)}} :
           b \in DOMAIN html}

NodeText(html, at) ==
  LET items == html[at[1]].items
  IN [k \in 1 .. NodeEnd(items, at[2]) - at[2] + 1 |-> items[at[2] + k - 1].c]

(* The places of the letters, and place 0 of a block for the newline before  *)
(* it: between two blocks with letters there is one.                         *)
Letters(html) ==
  UNION {{<<b, k>> : k \in {n \in DOMAIN html[b].items : html[b].items[n] # Break}} :
           b \in DOMAIN html}
Newlines(html) ==
  {<<at[1], 0>> : at \in {x \in Letters(html) : \E y \in Letters(html) : y[1] < x[1]}}

(* extractDocText: one flat text, and the runs that lead back.               *)
extractDocText(html) ==
  LET places == Letters(html) \union Newlines(html)
      nth    == InOrder(places)
  IN [flat |-> [n \in DOMAIN nth |-> IF nth[n][2] = 0 THEN "\n"
                                    ELSE html[nth[n][1]].items[nth[n][2]].c],
      runs |-> {[at |-> x, start |-> Before(places, x),
                 len |-> NodeEnd(html[x[1]].items, x[2]) - x[2] + 1] : x \in TextNodes(html)}]

(* The last run that starts at the offset or before it.                      *)
mapOffsetToDocPos(runs, offset) ==
  LET run == CHOOSE r \in runs : /\ r.start <= offset
                                /\ \A s \in runs : s.start <= offset => s.start <= r.start
  IN <<run.at[1], run.at[2] + Min({offset - run.start, run.len})>>

(* Where a word is found in a text, from the left and not overlapping.       *)
Found(flat, word) ==
  IF word = << >> THEN << >>
  ELSE FoldLeft(LAMBDA acc, i :
                  IF /\ acc = << >> \/ i >= Last(acc) + Len(word)
                     /\ i + Len(word) <= Len(flat)
                     /\ SubSeq(flat, i + 1, i + Len(word)) = word
                  THEN Append(acc, i) ELSE acc,
                << >>, [i \in DOMAIN flat |-> i - 1])

computeMatches(html, word) ==
  LET Mapped(runs, at) ==
        [n \in DOMAIN at |-> [from |-> mapOffsetToDocPos(runs, at[n]),
                              to   |-> mapOffsetToDocPos(runs, at[n] + Len(word))]]
      In(text) == Mapped(text.runs, Found(text.flat, word))
  IN In(extractDocText(html))

(* setQuery: the first match is the current one; -1 of the code is 0 here.   *)
SetQuery(html, word) ==
  LET At(found) == [word |-> word, matches |-> found, index |-> IF found = << >> THEN 0 ELSE 1]
  IN At(computeMatches(html, word))

(* The document changed.                                                     *)
Rescan(html, search) ==
  IF search.word = << >> THEN search
  ELSE LET At(found) ==
             [search EXCEPT !.matches = found,
                            !.index = IF found = << >> THEN 0 ELSE Min({Max({@, 1}), Len(found)})]
       IN At(computeMatches(html, search.word))

(* insertText: the new letters are formatted as the first one was.  A match  *)
(* lies in one block.                                                        *)
insertText(html, match, letters) ==
  LET items == html[match.from[1]].items
      bold  == match.from[2] \in DOMAIN items /\ items[match.from[2]].bold
  IN [html EXCEPT ![match.from[1]].items =
        SubSeq(items, 1, match.from[2] - 1) \o Typed(letters, bold)
          \o SubSeq(items, match.to[2], Len(items))]

(* Mutant of searchReplaceAll: the first match is replaced first.            *)
searchReplaceForwards(html, matches, letters) ==
  FoldLeft(LAMBDA acc, match : insertText(acc, match, letters), html, matches)

(* Last to first, so that places still to come hold.                         *)
searchReplaceAll(html, matches, letters) ==
  FoldLeft(LAMBDA acc, match : insertText(acc, match, letters), html, Reverse(matches))

-----------------------------------------------------------------------------
(* The source view sees the tags: a match lies in one text node.             *)

SourceMatches(html, word) ==
  LET found == InOrder(UNION {{<<at[1], at[2] + offset>> :
                                 offset \in Range(Found(NodeText(html, at), word))} :
                               at \in TextNodes(html)})
  IN [n \in DOMAIN found |-> [from |-> found[n], to |-> <<found[n][1], found[n][2] + Len(word)>>]]

CountOf(search) == [count |-> Len(search.matches), current |-> search.index]

Live == IF view = "source" THEN source ELSE wysiwyg
buildCopyHtml == finalizeCopyHtml(Live)
-----------------------------------------------------------------------------
EditorInit ==
  /\ view = "paste" /\ original = NoDoc /\ wysiwyg = NoDoc /\ plugin = NoSearch
  /\ source = NoDoc /\ sourceWord = << >> /\ panel = NoQuery /\ lastQuery = NoQuery
  /\ counter = [count |-> 0, current |-> 0] /\ picture = FALSE
  /\ warned = NoDoc /\ ours = NoDoc /\ edits = 0

(* The effect builds the editor and hands it the last query.                 *)
OpenWysiwyg(html) ==
  /\ view' = "wysiwyg" /\ wysiwyg' = AsDocument(html)
  /\ plugin' = SetQuery(AsDocument(html), lastQuery.search)
  /\ counter' = CountOf(plugin')
  /\ source' = NoDoc /\ sourceWord' = << >>

SourceCount(html, word) ==
  LET Of(n) == [count |-> n, current |-> Min({n, 1})] IN Of(Len(SourceMatches(html, word)))

OpenSource(html) ==
  /\ view' = "source" /\ source' = html /\ sourceWord' = lastQuery.search
  /\ counter' = SourceCount(html, lastQuery.search)
  /\ wysiwyg' = NoDoc /\ plugin' = NoSearch

LoadHtml(html) ==
  /\ view = "paste" /\ original' = html /\ warned' = NoDoc /\ OpenWysiwyg(html)
  /\ ours' = html /\ UNCHANGED <<panel, lastQuery, picture, edits>>

(* The bar goes with the view; the query it sent stays.                      *)
reset ==
  /\ view # "paste" /\ view' = "paste" /\ original' = NoDoc /\ warned' = NoDoc
  /\ wysiwyg' = NoDoc /\ plugin' = NoSearch /\ source' = NoDoc /\ sourceWord' = << >>
  /\ panel' = NoQuery /\ ours' = NoDoc /\ UNCHANGED <<lastQuery, counter, picture, edits>>

(* setMode: another tool is opened, after a confirmation, and this one goes. *)
Leave ==
  /\ view # "paste" /\ view' = "paste" /\ original' = NoDoc /\ warned' = NoDoc
  /\ wysiwyg' = NoDoc /\ plugin' = NoSearch /\ source' = NoDoc /\ sourceWord' = << >>
  /\ panel' = NoQuery /\ ours' = NoDoc /\ lastQuery' = NoQuery /\ picture' = FALSE
  /\ counter' = [count |-> 0, current |-> 0] /\ UNCHANGED edits

toggleSourceMode ==
  /\ view # "paste"
  /\ IF view = "source" THEN OpenWysiwyg(source) ELSE OpenSource(buildCopyHtml)
  /\ UNCHANGED <<original, panel, lastQuery, picture, warned, ours, edits>>

(* A change of the document in the view that shows it; both views then count *)
(* again.                                                                    *)
Change(html) ==
  /\ edits < MaxEdits /\ edits' = edits + 1 /\ ours' = html
  /\ IF view = "source"
     THEN /\ source' = html /\ counter' = SourceCount(html, sourceWord)
          /\ UNCHANGED <<wysiwyg, plugin>>
     ELSE /\ wysiwyg' = html /\ UNCHANGED source
          /\ plugin' = Rescan(html, plugin) /\ counter' = CountOf(plugin')
  /\ UNCHANGED <<view, original, sourceWord, panel, lastQuery, picture, warned>>

(* Typing and deleting, the toolbar's formats, and whatever TipTap's         *)
(* commands do to blocks.                                                    *)
Edited(b) ==
  (IF Live[b] = Photo THEN {}
   ELSE {[Live EXCEPT ![b].items = Typed(<<"a">>, FALSE) \o @],
         [Live EXCEPT ![b].items = InsertAt(@, Min({2, Len(@) + 1}), Break)]})
  \union (IF Len(Live) = 1 THEN {}
          ELSE {IF view = "source" THEN RemoveAt(Live, b) ELSE AsDocument(RemoveAt(Live, b))})
  \union (IF Live[b].items = << >> \/ Live[b].items[1] = Break THEN {}
          ELSE {[Live EXCEPT ![b].items[1].bold = ~@]})

Write == view # "paste" /\ \E b \in DOMAIN Live : \E html \in Edited(b) : Change(html)

openImageForm == view = "wysiwyg" /\ picture' = TRUE
                 /\ UNCHANGED <<view, original, wysiwyg, plugin, source, sourceWord, panel,
                                lastQuery, counter, warned, ours, edits>>

(* The form stays open when the source is shown, where it inserts nothing.   *)
confirmInsertImage ==
  /\ picture /\ picture' = FALSE /\ view # "paste"
  /\ IF view = "source" \/ edits = MaxEdits
     THEN UNCHANGED <<wysiwyg, plugin, counter, ours, edits>>
     ELSE \E html \in {AsDocument(InsertAt(wysiwyg, b, Photo)) : b \in DOMAIN wysiwyg} :
               /\ wysiwyg' = html /\ ours' = html /\ edits' = edits + 1
               /\ plugin' = Rescan(html, plugin) /\ counter' = CountOf(plugin')
  /\ UNCHANGED <<view, original, source, sourceWord, panel, lastQuery, warned>>

(* The bar sends what it shows, unless it is no valid pattern.               *)
onFindReplaceQueryChange(search, replace) ==
  /\ view # "paste" /\ panel' = [search |-> search, replace |-> replace]
  /\ IF search = Invalid THEN UNCHANGED <<lastQuery, plugin, sourceWord, counter>>
     ELSE /\ lastQuery' = panel'
          /\ IF view = "source"
             THEN /\ sourceWord' = search /\ counter' = SourceCount(source, search)
                  /\ UNCHANGED plugin
             ELSE /\ plugin' = SetQuery(wysiwyg, search) /\ counter' = CountOf(plugin')
                  /\ UNCHANGED sourceWord
  /\ UNCHANGED <<view, original, wysiwyg, source, picture, warned, ours, edits>>

(* searchReplaceNext, searchReplacePrevious; in the source view CodeMirror   *)
(* moves its own selection.                                                  *)
onFind(steps) ==
  /\ view = "wysiwyg" /\ plugin.matches # << >>
  /\ plugin' = [plugin EXCEPT !.index = ((@ - 1 + steps) % Len(plugin.matches)) + 1]
  /\ counter' = CountOf(plugin')
  /\ UNCHANGED <<view, original, wysiwyg, source, sourceWord, panel, lastQuery, picture, warned,
                 ours, edits>>

(* The plugin replaces and searches again from the first match.              *)
Rewrite(html) ==
  /\ edits < MaxEdits /\ edits' = edits + 1 /\ ours' = html
  /\ wysiwyg' = html /\ plugin' = SetQuery(html, plugin.word) /\ counter' = CountOf(plugin')
  /\ UNCHANGED <<view, original, source, sourceWord, panel, lastQuery, picture, warned>>

onReplaceOne ==
  \/ /\ view = "wysiwyg" /\ plugin.index # 0
     /\ \E html \in {insertText(wysiwyg, plugin.matches[plugin.index], lastQuery.replace)} :
          Rewrite(html)
  \/ /\ view = "source"
     /\ \E match \in Range(SourceMatches(source, sourceWord)) :
          \E html \in {insertText(source, match, lastQuery.replace)} : Change(html)

onReplaceAll ==
  \/ /\ view = "wysiwyg" /\ plugin.matches # << >>
     /\ \E html \in {searchReplaceAll(wysiwyg, plugin.matches, lastQuery.replace)} : Rewrite(html)
  \/ /\ view = "source"
     /\ \E found \in {SourceMatches(source, sourceWord)} \ {<< >>} :
          \E html \in {searchReplaceAll(source, found, lastQuery.replace)} : Change(html)

(* The clipboard gets buildCopyHtml, unless the structure changed.           *)
copy ==
  /\ view # "paste"
  /\ IF SameStructure(original, buildCopyHtml)
     THEN warned' = NoDoc
     ELSE warned' = buildCopyHtml
  /\ UNCHANGED <<view, original, wysiwyg, plugin, source, sourceWord, panel, lastQuery, counter,
                 picture, ours, edits>>

(* The button is shown with the issues; the clipboard gets buildCopyHtml.    *)
copyAnyway ==
  /\ warned # NoDoc /\ warned' = NoDoc
  /\ UNCHANGED <<view, original, wysiwyg, plugin, source, sourceWord, panel, lastQuery, counter,
                 picture, ours, edits>>

EditorNext ==
  \/ \E html \in Pasted : LoadHtml(html)
  \/ reset \/ Leave \/ toggleSourceMode \/ Write \/ openImageForm \/ confirmInsertImage
  \/ \E search \in Word \union {Invalid}, replace \in Replacing :
       onFindReplaceQueryChange(search, replace)
  \/ \E steps \in {1, Len(plugin.matches) - 1} : onFind(steps)
  \/ onReplaceOne \/ onReplaceAll \/ copy \/ copyAnyway

EditorSpec == EditorInit /\ [][EditorNext]_editorVars
-----------------------------------------------------------------------------
(* Empty paragraphs at the end come and go: TipTap adds one, a copy drops    *)
(* one.                                                                      *)
Ends(html) == {n \in 0 .. Len(html) : \A k \in n + 1 .. Len(html) : IsEmptyPara(html[k])}
Whole(html) == SubSeq(html, 1, Min(Ends(html)))

(* Whatever views are built and torn down, what Copy would copy is the       *)
(* document as the user last saw it.                                         *)
CopyIsTheDocument == view # "paste" => Whole(buildCopyHtml) = Whole(ours)

(* What is highlighted and counted is what the last query finds in the       *)
(* document as it is now, in the view that shows it.                         *)
SearchIsFresh ==
  CASE view = "wysiwyg" ->
         /\ plugin.matches = computeMatches(wysiwyg, lastQuery.search)
         /\ IF plugin.matches = << >> THEN plugin.index = 0
            ELSE plugin.index \in DOMAIN plugin.matches
         /\ counter = CountOf(plugin)
    [] view = "source" -> counter.count = Len(SourceMatches(source, lastQuery.search))
    [] OTHER -> TRUE

(* The letters of a paragraph, with the word replaced from the left.         *)
LettersOf(items) == [k \in DOMAIN items |-> items[k].c]
TextReplaced(text, word, new) ==
  LET found == Found(text, word)
  IN IF found = << >> THEN text
     ELSE FoldLeft(LAMBDA acc, n :
                     LET from == IF n = 1 THEN 0 ELSE found[n - 1] + Len(word)
                     IN acc \o SubSeq(text, from + 1, found[n]) \o new,
                   << >>, [n \in DOMAIN found |-> n])
          \o SubSeq(text, Last(found) + Len(word) + 1, Len(text))

(* In a document without line breaks Replace All does to every paragraph     *)
(* what replacing the word in its text does, across formats, and nothing     *)
(* else: no picture goes, no two paragraphs become one.                      *)
ReplaceAllIsExact ==
  (view = "wysiwyg" /\ \A b \in DOMAIN wysiwyg : Break \notin Range(wysiwyg[b].items)) =>
    LET new == searchReplaceAll(wysiwyg, plugin.matches, lastQuery.replace)
    IN /\ Len(new) = Len(wysiwyg)
       /\ \A b \in DOMAIN new :
            /\ new[b].kind = wysiwyg[b].kind
            /\ LettersOf(new[b].items) =
                 TextReplaced(LettersOf(wysiwyg[b].items), plugin.word, lastQuery.replace)

(* The three together: the editor gives back the document it shows, and its  *)
(* search is about that document.                                            *)
EditorKeepsDocument == CopyIsTheDocument /\ SearchIsFresh /\ ReplaceAllIsExact

(* A line break survives a replacement beside it.  It does not: a match that *)
(* ends before one ends, by mapOffsetToDocPos, after it.                     *)
BreaksStay ==
  view = "wysiwyg" =>
    LET new == searchReplaceAll(wysiwyg, plugin.matches, lastQuery.replace)
        Breaks(html) == [b \in DOMAIN html |-> Len(SelectSeq(html[b].items, LAMBDA i : i = Break))]
    IN Breaks(new) = Breaks(wysiwyg)

(* What is searched and replaced is what the bar shows.  It is not: after    *)
(* Start over, or with an invalid pattern, the query before it acts.         *)
QueryIsShown == view # "paste" => lastQuery = panel

(* What is copied in spite of a warning is what the warning was about.  It   *)
(* is not: the document may change while the warning is shown.               *)
WarningIsCurrent == warned # NoDoc => warned = buildCopyHtml
=============================================================================

-------------------------- MODULE ContentOrchestrator --------------------------
(***************************************************************************)
(* The text pipelines (services/content-orchestrator.service.ts) and the    *)
(* user beside them (app/app.component.ts): runs that fill one shared        *)
(* `content`, the findings shown with it, the history, and the handlers the  *)
(* page leaves open while a run is under way.                               *)
(*                                                                         *)
(* A part of the content is abstracted to the product it is about, the       *)
(* product whose localized names it was written with, and the kinds of       *)
(* findings its last validation had: "text" findings can be read off the     *)
(* text again, "shape" and "grounding" findings only the repair gate knows.  *)
(***************************************************************************)
EXTENDS Naturals, Sequences, FiniteSets

CONSTANTS
  Product,     \* products with their store (what slugKey() tells apart)
  Langs,       \* the languages the master is translated into, in order
  None,        \* no product, no part
  MaxRuns,     \* bound: runs the user starts
  MaxTouches,  \* bound: what the user does beside starting runs
  MaxHistory   \* MAX_HISTORY_ITEMS

ASSUME OrchestratorAssumption ==
  /\ Langs \in Seq(STRING) /\ None \notin Product
  /\ MaxRuns \in Nat /\ MaxTouches \in Nat /\ MaxHistory \in Nat \ {0}

VARIABLES
  content,   \* the parts shown, exported and saved
  approved,  \* approvedSlugKey
  runs,      \* every run so far: what it is about and the parts it has to do
  busy,      \* isGenerating
  issues,    \* validationIssues
  report,    \* repairReport, with the product of repairReportMeta
  history,   \* historyService.history, newest first, as localStorage has it
  fetching,  \* extractContent calls under way
  touches    \* how often the user restored, cleared, fetched or reloaded

vars == <<content, approved, runs, busy, issues, report, history, fetching, touches>>

Locale == {"uk-UA"} \union {Langs[n] : n \in DOMAIN Langs}
Main == <<"html", "uk-UA">>
Seo  == <<"seo", "all">>
Slug == <<"slug", "all">>
Faq  == <<"faq", "uk-UA">>
Tool == <<"tool", "all">>
Part == ({"html", "faq"} \X Locale) \union {Seo, Slug}

Empty == [p \in Part |-> None]
Piece == [of : Product, names : Product \union {None}, found : SUBSET {"text", "shape", "grounding"}]

ASSUME NoneIsNoPiece == None \notin Piece

Of(kind) == [n \in DOMAIN Langs |-> <<kind, Langs[n]>>]
Faqs == <<Faq>> \o Of("faq")

(* The parts a run of each kind has to do, in order. *)
Plan(kind, reused, supplement) ==
  LET faqs == IF supplement THEN Faqs ELSE << >>
  IN CASE kind = "full" -> <<Main>> \o (IF reused THEN << >> ELSE <<Slug>>) \o <<Seo>>
                             \o Of("html") \o faqs
       [] kind = "ua"   -> <<Main, Slug, Seo>> \o faqs
       [] kind = "seo"  -> <<Seo>>
       [] kind = "slug" -> <<Slug>>
       [] kind = "faq"  -> Faqs
       [] kind = "tool" -> <<Tool>>

Kinds == {"full", "ua", "seo", "slug", "faq", "tool"}
Active(i) == runs[i].todo # << >>
Running == {i \in DOMAIN runs : Active(i)}
Doing(i, part) == Active(i) /\ Head(runs[i].todo) = part

(* History variable: runs the user interfered with, or that met another run. *)
Disturbed(S) == [i \in DOMAIN runs |-> [runs[i] EXCEPT !.calm = @ /\ i \notin S]]

(* The findings of these kinds that the given parts of content c have. *)
Findings(c, parts, kinds) ==
  UNION {{<<c[p].of, p, f>> : f \in c[p].found \intersect kinds} : p \in {q \in parts : c[q] # None}}

(* Mutant of Merged: the last validation replaces what was found before it. *)
MergedOver(c, found) ==
  Findings(c, Part \ ({"faq"} \X Locale), {"text", "shape"})

(* runOutputValidation: what the texts show again is merged into the findings. *)
Merged(c, found) ==
  found \union Findings(c, Part \ ({"faq"} \X Locale), {"text", "shape"})

groundingExportBlocked == \E r \in report : r[3] = "grounding"
-----------------------------------------------------------------------------
Init ==
  /\ content = Empty /\ approved = None /\ runs = << >> /\ busy = FALSE
  /\ issues = {} /\ report = {} /\ history = << >> /\ fetching = 0 /\ touches = 0

(* The buttons of every tool are disabled while isGenerating is set. *)
Start(kind, product) ==
  LET reused == kind \in {"full", "seo"} /\ approved = product /\ content[Slug] # None
  IN /\ ~busy /\ Len(runs) < MaxRuns
     /\ busy' = TRUE
     /\ \E supplement \in BOOLEAN :
          runs' = Append(Disturbed(Running),
            [kind |-> kind, of |-> product, todo |-> Plan(kind, reused, supplement),
             names |-> IF reused THEN content[Slug].names ELSE None,
             calm |-> Running = {}])
     /\ IF kind = "tool" THEN UNCHANGED <<content, issues, report>>
        ELSE /\ content' = IF reused THEN [Empty EXCEPT ![Slug] = content[Slug]] ELSE Empty
             /\ issues' = {} /\ report' = {}
     /\ UNCHANGED <<approved, history, fetching, touches>>

(* Mutant of Fail: nothing clears the flag when a run throws. *)
FailBusy(i) ==
  /\ runs' = [runs EXCEPT ![i].todo = << >>]
  /\ UNCHANGED <<content, approved, busy, issues, report, history, fetching, touches>>

(* A run fails: withProgress clears the flag, whatever was stored so far stays. *)
Fail(i) ==
  /\ busy' = FALSE
  /\ runs' = [runs EXCEPT ![i].todo = << >>]
  /\ UNCHANGED <<content, approved, issues, report, history, fetching, touches>>

(* HistoryService.add *)
Add(h, entry) ==
  <<entry>> \o (IF Len(h) < MaxHistory THEN h ELSE SubSeq(h, 1, MaxHistory - 1))

(* A run goes on to `rest` with content c and findings; after its last part it *)
(* validates, writes the history entry and gives up the flag.                  *)
Proceed(i, rest, c, found) ==
  LET r == runs[i]
      entry == [run |-> i, of |-> r.of, kind |-> r.kind, calm |-> r.calm, output |-> c]
  IN /\ content' = c
     /\ issues' = IF rest = << >> /\ r.kind \in {"full", "ua"} THEN Merged(c, found) ELSE found
     /\ history' = IF rest = << >> /\ r.kind # "tool" THEN Add(history, entry) ELSE history
     /\ busy' = (rest # << >> /\ busy)

Written(i, names, found) == [of |-> runs[i].of, names |-> names, found |-> found]

(* Bound: findings of one kind, and only while none are reported yet. *)
AtMostOne(kinds) == {{}} \union {{k} : k \in {f \in kinds : report = {}}}

(* toArtifactReport *)
Reported(piece, part) == {<<piece.of, part, f>> : f \in piece.found}

(* Mutant of AddReport: each artifact replaces the reports before it. *)
ReplaceReport(new) == new

AddReport(new) == report \union new

(* The master: its findings replace what was shown. *)
MainDone(i) ==
  /\ Doing(i, Main)
  /\ \E found \in AtMostOne({"text", "grounding"}) :
       LET piece == Written(i, runs[i].of, found)
           rest == Tail(runs[i].todo)
       IN /\ report' = AddReport(Reported(piece, Main))
          /\ Proceed(i, rest, [content EXCEPT ![Main] = piece], Reported(piece, Main))
          /\ runs' = [runs EXCEPT ![i].todo = rest]
  /\ UNCHANGED <<approved, fetching, touches>>

(* Slugs: the names every later part is written with. *)
SlugDone(i) ==
  /\ Doing(i, Slug)
  /\ \E found \in AtMostOne({"text"}) :
       LET piece == Written(i, runs[i].of, found)
           rest == Tail(runs[i].todo)
       IN /\ report' = AddReport(Reported(piece, Slug))
          /\ Proceed(i, rest, [content EXCEPT ![Slug] = piece],
                     IF runs[i].kind = "slug" THEN Reported(piece, Slug) ELSE issues)
          /\ runs' = [runs EXCEPT ![i].todo = rest, ![i].names = runs[i].of]
  /\ approved' = runs[i].of
  /\ UNCHANGED <<fetching, touches>>

(* In a whole run a slug failure is a warning; the parts after it do without. *)
SlugSkipped(i) ==
  LET rest == Tail(runs[i].todo)
  IN /\ Doing(i, Slug) /\ runs[i].kind # "slug"
     /\ Proceed(i, rest, content, issues \union {<<runs[i].of, Slug, "failed">>})
     /\ runs' = [runs EXCEPT ![i].todo = rest]
     /\ UNCHANGED <<approved, report, fetching, touches>>

(* A run of its own shows the findings of the metadata, but not of its shape. *)
SeoDone(i) ==
  /\ Doing(i, Seo)
  /\ \E found \in AtMostOne({"text", "shape"}) :
       LET piece == Written(i, runs[i].names, found)
           rest == Tail(runs[i].todo)
           shown == {<<piece.of, Seo, f>> : f \in found \intersect {"text"}}
       IN /\ report' = AddReport(Reported(piece, Seo))
          /\ Proceed(i, rest, [content EXCEPT ![Seo] = piece],
                     IF runs[i].kind = "seo" THEN shown ELSE issues)
          /\ runs' = [runs EXCEPT ![i].todo = rest]
  /\ UNCHANGED <<approved, fetching, touches>>

TranslationDone(i, lang) ==
  LET part == <<"html", lang>>
      rest == Tail(runs[i].todo)
  IN /\ Doing(i, part) /\ part # Main
     /\ \E found \in AtMostOne({"text"}) :
          LET piece == Written(i, runs[i].names, found)
          IN /\ report' = AddReport(Reported(piece, part))
             /\ Proceed(i, rest, [content EXCEPT ![part] = piece],
                        issues \union Reported(piece, part))
     /\ runs' = [runs EXCEPT ![i].todo = rest]
     /\ UNCHANGED <<approved, fetching, touches>>

Stored(i, part) ==
  LET rest == Tail(runs[i].todo)
  IN /\ Proceed(i, rest, [content EXCEPT ![part] = Written(i, None, {})], issues)
     /\ runs' = [runs EXCEPT ![i].todo = rest]

(* Mutant of FaqDone: the translations go on without a master. *)
FaqDoneAnyway(i) ==
  /\ Doing(i, Faq)
  /\ \/ Stored(i, Faq)
     \/ LET rest == Tail(runs[i].todo)
        IN /\ Proceed(i, rest, content, issues \union {<<runs[i].of, Faq, "failed">>})
           /\ runs' = [runs EXCEPT ![i].todo = rest]
  /\ UNCHANGED <<approved, report, fetching, touches>>

(* The master FAQ is stored, unusable, or empty; without it nothing is translated. *)
FaqDone(i) ==
  /\ Doing(i, Faq)
  /\ \/ Stored(i, Faq)
     \/ /\ \E found \in {{}, {<<runs[i].of, Faq, "failed">>}} :
             Proceed(i, << >>, content, issues \union found)
        /\ runs' = [runs EXCEPT ![i].todo = << >>]
  /\ UNCHANGED <<approved, report, fetching, touches>>

(* A translated FAQ is stored, or skipped with its findings shown. *)
FaqTranslated(i, lang) ==
  LET part == <<"faq", lang>>
      rest == Tail(runs[i].todo)
  IN /\ Doing(i, part) /\ part # Faq
     /\ \/ Stored(i, part)
        \/ /\ Proceed(i, rest, content, issues \union {<<runs[i].of, part, "failed">>})
           /\ runs' = [runs EXCEPT ![i].todo = rest]
     /\ UNCHANGED <<approved, report, fetching, touches>>

(* Optimizer, translator, copywriter, readability: an output of their own. Only *)
(* the optimizer has findings; they replace those of its last output.           *)
ToolDone(i) ==
  /\ Doing(i, Tool)
  /\ \E found \in SUBSET {<<runs[i].of, Tool, "text">>} :
       Proceed(i, << >>, content, {f \in issues : f[2] # Tool} \union found)
  /\ runs' = [runs EXCEPT ![i].todo = << >>]
  /\ UNCHANGED <<approved, report, fetching, touches>>

(* Everything throws but the FAQ pipeline and the slugs of a whole run. *)
RunFails(i) ==
  /\ Active(i)
  /\ LET part == Head(runs[i].todo)
     IN part[1] # "faq" /\ (part = Slug => runs[i].kind = "slug")
  /\ Fail(i)
-----------------------------------------------------------------------------
(* Bound: a counter of what the user does besides. *)
Touch == touches < MaxTouches /\ touches' = touches + 1

(* restoreHistory replaces the content and nothing else. *)
restoreHistory ==
  /\ Touch
  /\ \E n \in DOMAIN history : content' = history[n].output
  /\ runs' = Disturbed(DOMAIN runs)
  /\ UNCHANGED <<approved, busy, issues, report, history, fetching>>

clearHistory ==
  /\ Touch /\ history # << >> /\ history' = << >>
  /\ UNCHANGED <<content, approved, runs, busy, issues, report, fetching>>

(* clearAll, by the tool that is open. *)
clearAll(mode) ==
  LET gone == CASE mode = "generator" -> {"html", "faq"} \X Locale
                [] mode = "seo"       -> {Seo}
                [] mode = "slug"      -> {Slug}
                [] mode = "faq"       -> {"faq"} \X Locale
  IN /\ Touch
     /\ content' = [p \in Part |-> IF p \in gone THEN None ELSE content[p]]
     /\ issues' = IF mode = "slug" THEN issues ELSE {}
     /\ report' = IF mode \in {"generator", "seo"} THEN {} ELSE report
     /\ runs' = Disturbed(DOMAIN runs)
     /\ UNCHANGED <<approved, busy, history, fetching>>

(* The source inputs are disabled by a flag of their own, not by isGenerating. *)
FetchStarts ==
  /\ Touch
  /\ fetching' = fetching + 1 /\ busy' = TRUE
  /\ UNCHANGED <<content, approved, runs, issues, report, history>>

FetchEnds ==
  /\ fetching > 0
  /\ fetching' = fetching - 1 /\ busy' = FALSE
  /\ runs' = Disturbed(Running)
  /\ UNCHANGED <<content, approved, issues, report, history, touches>>

(* A reload keeps the history alone. *)
Reload ==
  /\ Touch
  /\ content' = Empty /\ approved' = None /\ busy' = FALSE
  /\ issues' = {} /\ report' = {} /\ fetching' = 0
  /\ runs' = [i \in DOMAIN runs |-> [runs[i] EXCEPT !.todo = << >>, !.calm = FALSE]]
  /\ UNCHANGED history

RunStep(i) ==
  \/ MainDone(i) \/ SlugDone(i) \/ SlugSkipped(i) \/ SeoDone(i) \/ FaqDone(i)
  \/ \E lang \in Locale : TranslationDone(i, lang) \/ FaqTranslated(i, lang)
  \/ ToolDone(i) \/ RunFails(i)

Next ==
  \/ \E kind \in Kinds, product \in Product : Start(kind, product)
  \/ \E i \in DOMAIN runs : RunStep(i)
  \/ restoreHistory \/ clearHistory
  \/ \E mode \in {"generator", "seo", "slug", "faq"} : clearAll(mode)
  \/ FetchStarts \/ FetchEnds \/ Reload

Spec == Init /\ [][Next]_vars
-----------------------------------------------------------------------------
(* Type correctness of the orchestrator's signals and of the saved entries. *)
TypeOK ==
  /\ content \in [Part -> Piece \union {None}]
  /\ approved \in Product \union {None} /\ busy \in BOOLEAN
  /\ \A f \in issues \union report :
       f[1] \in Product /\ f[2] \in Part \union {Tool}
         /\ f[3] \in {"text", "shape", "grounding", "failed"}
  /\ Len(history) <= MaxHistory /\ fetching \in 0..touches /\ touches \in 0..MaxTouches

Calm(entry) == entry.calm

(* generate() and its siblings end in historyService.add(input, content()): an *)
(* entry of a run nobody interfered with holds that product alone, all the      *)
(* texts of its kind, and no translated FAQ without the master it came from.    *)
EntryIsWhole ==
  \A n \in DOMAIN history :
    LET e == history[n]
        Has(p) == e.output[p] # None
    IN Calm(e) =>
         /\ \A p \in Part : Has(p) /\ p # Slug => e.output[p].of = e.of
         /\ e.kind \in {"full", "ua"} => Has(Main) /\ Has(Seo)
         /\ e.kind = "full" => \A lang \in Locale : Has(<<"html", lang>>)
         /\ \A lang \in Locale : Has(<<"faq", lang>>) => Has(Faq)

(* The runs that no other followed, and that nobody interfered with to this day. *)
Latest ==
  {i \in DOMAIN runs : runs[i].calm /\ runs[i].kind # "tool"
                         /\ \A j \in DOMAIN runs : runs[j].kind # "tool" => j <= i}

(* Those of them that ended well. *)
Kept == {i \in Latest : history # << >> /\ history[1].run = i}

(* Nothing a run found is lost on the screen: after it, every finding of a part *)
(* it left is shown, those included that only a gate knew (runOutputValidation  *)
(* merges). A metadata run of its own shows the metadata's findings alone, and  *)
(* not those of its shape.                                                      *)
FindingsAreShown ==
  \A i \in Kept :
    (IF runs[i].kind = "seo" THEN Findings(content, {Seo}, {"text"})
                             ELSE Findings(content, Part, {"text", "shape", "grounding"}))
      \subseteq issues

(* isGenerating says what it means: set while a run is under way that no source *)
(* fetch met, and never left set when nothing is under way.                     *)
BusyIsHonest ==
  /\ \A i \in Running : runs[i].calm => busy
  /\ busy => Running # {} \/ fetching > 0

CanExport == content[Main] # None /\ ~groundingExportBlocked

(* While nobody interfered since the last run began, a description whose specs  *)
(* were not verified cannot be exported, whatever parts followed it.            *)
ExportIsGuarded ==
  Latest # {} => (CanExport => "grounding" \notin content[Main].found)

(* US-3.1 AC-1: a description whose specs were not verified is never exported.  *)
UngroundedStaysHome == CanExport => "grounding" \notin content[Main].found

(* generate(): a slug is reused "without ever reusing a stale name", so what an *)
(* undisturbed run wrote carries its own product's names or the formula's.      *)
NamesAreOwn ==
  \A n \in DOMAIN history :
    LET e == history[n]
    IN Calm(e) => \A p \in Part : e.output[p] # None => e.output[p].names \in {e.of, None}
=============================================================================

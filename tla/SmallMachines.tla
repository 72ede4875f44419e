---------------------------- MODULE SmallMachines ----------------------------
(***************************************************************************)
(* The parts of the system that share no state with the rest, each a small   *)
(* machine of its own, checked in one run: the rate limiter and the history  *)
(* trim of the image server, the composer's uploads, one call of a text      *)
(* model, the images of the generator form, the markers of a description,    *)
(* the repairs of single blocks, the HTML editor, and the passes over HTML   *)
(* trees.  A behaviour is one of one machine, picked at the start; the       *)
(* others stay where they are.                                               *)
(***************************************************************************)
EXTENDS RateLimiter, HistoryTrim, ComposerUploads, LlmCall, ImageUploads, ImageMarkersMC, BlockPatches,
        HtmlEditorMC, HtmlTreesMC

VARIABLE machine   \* the machine whose behaviour this is

\* Two fields, one of them with two paths, and a path that leads to none.
mcFieldAt == [p \in {"p", "q", "r"} |-> IF p = "r" THEN "g" ELSE "f"]
\* Blocks side by side, nested, and both.
Block(start, end) == [start |-> start, end |-> end]
mcLayout == {<<Block(0, 2), Block(2, 3), Block(4, 6)>>, <<Block(0, 6), Block(1, 3), Block(3, 5)>>,
             <<Block(0, 4), Block(1, 2), Block(4, 6)>>, << >>}
mcFragment == {<< >>, <<"x", "y", "z">>}

TrimAtRest ==
  /\ pairs = 0 /\ phase = "ok" /\ consumed = 0 /\ remaining = 0 /\ removed = {}
  /\ bytes = [t \in Turn \cup {NewTurn} |-> Min(Byte)]
  /\ tokens = [t \in Turn \cup {NewTurn} |-> Min(Token)]

MarkersAtRest ==
  /\ marking = "writing" /\ uploads = << >> /\ typed = {}
  /\ doc = Empty /\ written = Empty /\ report = NoReport /\ coverage = {}

TreesAtRest == tree = PageOf(E("body", << >>)) /\ rewritten = tree /\ rewrite = "none" /\ passes = << >>

Init ==
  /\ machine \in {"limiter", "trim", "uploads", "llm", "images", "markers", "patches",
                "editor", "trees"}
  /\ LimiterInit /\ CallInit /\ ImageInit /\ PatchInit /\ EditorInit
  /\ IF machine = "trim" THEN TrimInit ELSE TrimAtRest
  /\ UploadInit /\ shown = CHOOSE s \in Session : TRUE   \* the sessions are alike
  /\ IF machine = "markers" THEN MarkerInit ELSE MarkersAtRest
  /\ IF machine = "trees" THEN TreeInit ELSE TreesAtRest

Next ==
  /\ UNCHANGED machine
  /\ \/ machine = "limiter" /\ LimiterNext
     \/ machine = "trim" /\ TrimNext
     \/ machine = "uploads" /\ UploadNext
     \/ machine = "llm" /\ CallNext
     \/ machine = "images" /\ ImageNext
     \/ machine = "markers" /\ MarkerNext
     \/ machine = "patches" /\ PatchNext
     \/ machine = "editor" /\ EditorNext
     \/ machine = "trees" /\ TreeNext
  /\ machine # "limiter" => UNCHANGED limiterVars
  /\ machine # "trim" => UNCHANGED trimVars
  /\ machine # "uploads" => UNCHANGED uploadVars
  /\ machine # "llm" => UNCHANGED callVars
  /\ machine # "images" => UNCHANGED imageVars
  /\ machine # "markers" => UNCHANGED markerVars
  /\ machine # "patches" => UNCHANGED patchVars
  /\ machine # "editor" => UNCHANGED editorVars
  /\ machine # "trees" => UNCHANGED treeVars

vars == <<machine, limiterVars, trimVars, uploadVars, callVars, imageVars, markerVars, patchVars,
          editorVars, treeVars>>

Spec == Init /\ [][Next]_vars
=============================================================================

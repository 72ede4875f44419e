---------------------------- MODULE RepairGateMC ----------------------------
(***************************************************************************)
(* Instances of RepairGate: findings of the kinds that meet in one run.     *)
(***************************************************************************)
EXTENDS RepairGate

Finding(r, s, p) == [rule |-> r, severity |-> s, at |-> p, context |-> "uk", n |-> 1]

(* A charset error whose repair may make a duplicate that has no strategy,  *)
(* a heading with a field and a block rung, and a long sentence.            *)
MixedIssues ==
  {Finding("slug-charset", "error", "slugs[0]"),
   Finding("slug-duplicate", "error", "slugs[0]"),
   Finding("heading-brand-core-missing", "error", "cta"),
   Finding("sentence-too-long", "warning", "block[0]")}

AnyOfMixed == SUBSET MixedIssues

(* Of a document that fails its schema nothing else is reported. *)
DocIssues ==
  {Finding("doc-schema", "error", "none"),
   Finding("spec-row-not-grounded", "error", "none"),
   Finding("spec-count-mismatch", "error", "none")}
SchemaFirst ==
  {s \in SUBSET DocIssues :
     (\E i \in s : i.rule = "doc-schema") => \A i \in s : i.rule = "doc-schema"}

(* On the HTML path a lost marker is known from the report of produce().    *)
LegacyIssues ==
  {Finding("dropped-image-placeholder", "error", "none"),
   Finding("sentence-too-long", "warning", "block[0]"),
   Finding("empty-output", "error", "none")}
AnyOfLegacy == SUBSET LegacyIssues
Reported == {Finding("dropped-image-placeholder", "error", "none")}
None == {}

(* Two long sentences of one block. *)
TwoSentences ==
  {[Finding("sentence-too-long", "warning", "block[0]") EXCEPT !.n = k] : k \in 1 .. 2}
AnyOfTwo == SUBSET TwoSentences
=============================================================================

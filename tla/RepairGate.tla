------------------------------ MODULE RepairGate ------------------------------
(***************************************************************************)
(* The repair gate (utils/repair-gate.ts): an artifact is generated,        *)
(* validated, repaired by the rungs of a ladder (repair-strategy.ts), and   *)
(* regenerated as a whole while errors remain and the budget lasts.  One    *)
(* candidate is kept, patched a last time, and shipped with its findings.   *)
(*                                                                         *)
(* An artifact is abstracted to the set of findings validate() has on it;   *)
(* a repair may turn it into any other.  The findings the code keeps beside *)
(* an artifact are a variable of their own: they can be out of date.  Some  *)
(* findings are not read off the artifact at all, but off a report that the *)
(* last produce() left in a closure of the caller.                         *)
(***************************************************************************)
EXTENDS Naturals, Sequences, FiniteSets

CONSTANTS
  Issue,            \* the findings validate() can report
  Findings,         \* the sets of them it can report together
  Stashed,          \* those validate() reads off what produce() left behind
  NoPath,           \* the path of a finding that addresses no field
  MaxRepairs,       \* full regenerations the caller pays for
  MaxFieldRepairs,  \* passes of one ladder
  HasRepairField,   \* whether the caller gave the field-scoped executor
  HasRepairBlocks   \* whether it gave the block-scoped executor

ASSUME GateAssumption ==
  /\ IsFiniteSet(Issue) /\ Findings \subseteq SUBSET Issue /\ Stashed \subseteq Issue
  /\ MaxRepairs \in Nat /\ MaxFieldRepairs \in Nat
  /\ HasRepairField \in BOOLEAN /\ HasRepairBlocks \in BOOLEAN

VARIABLES
  pc,       \* what the gate does next
  art,      \* the findings the artifact at hand really has
  issues,   \* the findings the gate has noted for it
  stash,    \* what the last produce() reported of the artifact it made
  best,     \* the candidate that ships, unless a better one turns up
  used,     \* full regenerations spent
  pre,      \* the artifact the running ladder started from
  cursor,   \* rungs burned, per place and rule, in the running ladder
  pass,     \* passes made by the running ladder
  plan,     \* the tier each candidate of the running pass was on at its start
  todo,     \* candidates the running tier has not seen yet
  changed,  \* whether the running pass changed the artifact
  fewest    \* history: the fewest errors a generation had as delivered

artVars == <<art, issues, stash>>
ladderVars == <<pre, cursor, pass, plan, todo, changed>>
vars == <<pc, art, issues, stash, best, used, pre, cursor, pass, plan, todo, changed, fewest>>

Tier == {"deterministic", "field-scoped", "block-scoped", "full-regen"}

(* REPAIR_STRATEGIES: the rungs of the registered rules. *)
Rungs(rule) ==
  CASE rule \in {"doc-schema", "slug-name-designator-lost"} -> <<"field-scoped">>
    [] rule = "meta-title-length" -> <<"field-scoped", "deterministic">>
    [] rule = "slug-charset" -> <<"deterministic">>
    [] rule = "sentence-too-long" -> <<"block-scoped", "block-scoped">>
    [] rule \in {"heading-product-name-stuffing", "heading-brand-core-missing"} ->
         <<"field-scoped", "block-scoped">>
    [] OTHER -> << >>    \* product-name-token-missing, product-name-shortened-form

Registered ==
  {"doc-schema", "slug-name-designator-lost", "meta-title-length", "slug-charset",
   "sentence-too-long", "heading-product-name-stuffing", "heading-brand-core-missing",
   "product-name-token-missing", "product-name-shortened-form"}

NonRegenerable == {"specs-grounding-disabled"}

Errors(s) == {i \in s : i.severity = "error"}
ErrCount(s) == Cardinality(Errors(s))
Regenerable(s) == {i \in Errors(s) : i.rule \notin NonRegenerable}

(* resolveLadder *)
Ladder(i) ==
  IF i.rule \notin Registered \/ i.at = NoPath THEN <<"full-regen">>
  ELSE IF i.severity = "warning" THEN Rungs(i.rule)
  ELSE Append(Rungs(i.rule), "full-regen")

HasBlockRung(i) == \E r \in DOMAIN Ladder(i) : Ladder(i)[r] = "block-scoped"

(* isLadderCandidate *)
Candidate(i) == i.severity = "error" \/ (i.at # NoPath /\ i.rule \in Registered)

Validate(found) == (found \ Stashed) \union stash

(* What an artifact and its own report say: repairs do not touch the report. *)
SameReport(s, t) == s \intersect Stashed = t \intersect Stashed

IssueKey(i) == <<i.rule, i.context>>
CursorKey(i) == IF i.at # NoPath THEN <<i.at, i.rule>> ELSE IssueKey(i)
Keys == {CursorKey(i) : i \in Issue}

(* Past the end of a ladder everything is left to a full regeneration. *)
ActiveTier(i) ==
  LET next == cursor[CursorKey(i)] + 1
  IN  IF next \in DOMAIN Ladder(i) THEN Ladder(i)[next] ELSE "full-regen"

OnTier(t) == {i \in DOMAIN plan : plan[i] = t /\ i.at # NoPath}

Fresh == [k \in Keys |-> 0]
-----------------------------------------------------------------------------
Init ==
  /\ pc = "generate" /\ art = {} /\ issues = {} /\ stash = {} /\ used = 0
  /\ best = [art |-> {}, issues |-> {}, errors |-> 0, attempt |-> 0]
  /\ pre = [art |-> {}, issues |-> {}]
  /\ cursor = Fresh /\ pass = 0 /\ plan = << >> /\ todo = {} /\ changed = FALSE
  /\ fewest = 0

(* Mutant of Generated: a regeneration is not counted. *)
GeneratedUncounted ==
  /\ pc \in {"generate", "regenerate"}
  /\ \E found \in Findings :
       /\ art' = found /\ stash' = found \intersect Stashed /\ issues' = found
       /\ pre' = [art |-> found, issues |-> found]
       /\ fewest' = IF pc = "generate" \/ ErrCount(found) < fewest
                    THEN ErrCount(found) ELSE fewest
  /\ cursor' = Fresh /\ pass' = 0
  /\ pc' = "ladder"
  /\ UNCHANGED <<best, used, plan, todo, changed>>

(* An artifact arrives and a ladder starts on it, with cursors of its own. *)
Generated ==
  /\ pc \in {"generate", "regenerate"}
  /\ \E found \in Findings :
       /\ art' = found /\ stash' = found \intersect Stashed /\ issues' = found
       /\ pre' = [art |-> found, issues |-> found]
       /\ fewest' = IF pc = "generate" \/ ErrCount(found) < fewest
                    THEN ErrCount(found) ELSE fewest
  /\ used' = IF pc = "regenerate" THEN used + 1 ELSE used
  /\ cursor' = Fresh /\ pass' = 0
  /\ pc' = "ladder"
  /\ UNCHANGED <<best, plan, todo, changed>>

(* produce() rejects: so does the gate, and what it had kept is lost. *)
GenerateFails ==
  /\ pc \in {"generate", "regenerate"}
  /\ pc' = IF pc = "generate" THEN "failed" ELSE "lost"
  /\ UNCHANGED <<artVars, best, used, ladderVars, fewest>>

(* One pass: the tier of every candidate is read once, at its start. *)
StartPass ==
  LET next == [i \in {c \in issues : Candidate(c)} |-> ActiveTier(i)]
      Cheap(i) == next[i] # "full-regen"
  IN /\ pc = "ladder" /\ pass < MaxFieldRepairs
     /\ \E i \in DOMAIN next : Cheap(i)
     /\ plan' = next
     /\ todo' = {i \in DOMAIN next : next[i] = "deterministic"}
     /\ changed' = FALSE
     /\ pc' = "deterministic"
     /\ UNCHANGED <<artVars, best, used, pre, cursor, pass, fewest>>

Advance(S) ==
  cursor' = [k \in Keys |-> cursor[k] + Cardinality({i \in S : CursorKey(i) = k})]

Exhaust(i) ==
  cursor' = [cursor EXCEPT ![CursorKey(i)] = Len(Ladder(i))]

(* A repair that is not the identity makes any artifact of the old one. *)
Rewrite == changed' = TRUE /\ art' \in Findings /\ SameReport(art', art)

(* The deterministic and the field-scoped tier: one addressed field each.   *)
(* The rung is spent whether or not the repair lands.                      *)
RepairOne ==
  /\ pc \in {"deterministic", "field-scoped"}
  /\ \E i \in todo :
       /\ todo' = todo \ {i}
       /\ Advance({i})
       /\ \/ UNCHANGED <<art, changed>>    \* nothing to say, or the same again
          \/ (pc = "deterministic" \/ HasRepairField) /\ Rewrite
  /\ UNCHANGED <<pc, issues, stash, best, used, pre, pass, plan, fewest>>

(* The path cannot be resolved, or the executor rejects. *)
RepairThrows ==
  /\ pc \in {"deterministic", "field-scoped"}
  /\ \E i \in todo : todo' = todo \ {i} /\ Exhaust(i)
  /\ UNCHANGED <<pc, artVars, best, used, pre, pass, plan, changed, fewest>>

TierDone ==
  /\ pc \in {"deterministic", "field-scoped"} /\ todo = {}
  /\ pc' = IF pc = "deterministic" THEN "field-scoped" ELSE "block-scoped"
  /\ todo' = OnTier(pc')
  /\ UNCHANGED <<artVars, best, used, pre, cursor, pass, plan, changed, fewest>>

(* Mutant of RepairBlocks: the patched blocks are not validated. *)
RepairBlocksUnchecked ==
  /\ pc = "block-scoped"
  /\ Advance(todo)
  /\ \/ UNCHANGED <<art, changed>>
     \/ todo # {} /\ HasRepairBlocks /\ Rewrite
  /\ issues' = IF changed THEN Validate(art') ELSE issues
  /\ pass' = pass + 1 /\ todo' = {}
  /\ pc' = "ladder"
  /\ UNCHANGED <<stash, best, used, pre, plan, fewest>>

(* The block-scoped tier: one call for all, spent before it is made, which  *)
(* never rejects.  The pass ends with a validation if anything changed; a   *)
(* pass without a move of a cursor, where the code breaks, does not occur.  *)
RepairBlocks ==
  /\ pc = "block-scoped"
  /\ Advance(todo)
  /\ \/ UNCHANGED <<art, changed>>
     \/ todo # {} /\ HasRepairBlocks /\ Rewrite
  /\ issues' = IF changed' THEN Validate(art') ELSE issues
  /\ pass' = pass + 1 /\ todo' = {}
  /\ pc' = "ladder"
  /\ UNCHANGED <<stash, best, used, pre, plan, fewest>>

(* Mutant of LadderFailed: only an error without a strategy counts. *)
LadderFailedOnRules ==
  \E i \in Errors(issues) :
    /\ IssueKey(i) \notin {IssueKey(j) : j \in pre.issues}
    /\ Head(Ladder(i)) = "full-regen"

(* The ladder made more errors, or one that only a regeneration removes. *)
LadderFailed ==
  \/ ErrCount(issues) > ErrCount(pre.issues)
  \/ \E i \in Errors(issues) :
       /\ IssueKey(i) \notin {IssueKey(j) : j \in pre.issues}
       /\ Head(Ladder(i)) = "full-regen"

(* Mutant of Keep: the later of two equally good candidates. *)
KeepLater(kept) ==
  LET e == ErrCount(kept.issues)
  IN  best' = IF used = 0 \/ e <= best.errors
              THEN [art |-> kept.art, issues |-> kept.issues, errors |-> e, attempt |-> used]
              ELSE best

Keep(kept) ==
  LET e == ErrCount(kept.issues)
  IN  best' = IF used = 0 \/ e < best.errors
              THEN [art |-> kept.art, issues |-> kept.issues, errors |-> e, attempt |-> used]
              ELSE best

LadderOver ==
  \/ pass = MaxFieldRepairs
  \/ \A i \in issues : Candidate(i) => ActiveTier(i) = "full-regen"

LadderGone ==
  /\ pre' = [art |-> {}, issues |-> {}] /\ cursor' = Fresh /\ pass' = 0
  /\ plan' = << >> /\ todo' = {} /\ changed' = FALSE

(* The end of a ladder: reject its work or not, then the comparison with    *)
(* the best candidate; the first one has nothing to be compared with.       *)
EndLadder ==
  LET kept == IF LadderFailed THEN pre ELSE [art |-> art, issues |-> issues]
  IN /\ pc = "ladder" /\ LadderOver
     /\ art' = kept.art /\ issues' = kept.issues
     /\ Keep(kept) /\ LadderGone
     /\ pc' = "decide"
     /\ UNCHANGED <<stash, used, fewest>>

WantsMore == used < MaxRepairs /\ Regenerable(best.issues) # {}

Regenerate ==
  /\ pc = "decide" /\ WantsMore
  /\ pc' = "regenerate"
  /\ UNCHANGED <<artVars, best, used, ladderVars, fewest>>

(* A regeneration that won was never seen by the block tier. *)
OwedBlocks == {i \in best.issues : i.at # NoPath /\ HasBlockRung(i)}
WantsPatch == HasRepairBlocks /\ best.attempt > 0 /\ OwedBlocks # {}

PatchShipped ==
  /\ pc = "decide" /\ ~WantsMore /\ WantsPatch
  /\ \E found \in {f \in Findings : SameReport(f, best.art)} :
       LET noted == Validate(found)
       IN  best' = IF ErrCount(noted) <= best.errors
                   THEN [best EXCEPT !.art = found, !.issues = noted, !.errors = ErrCount(noted)]
                   ELSE best
  /\ pc' = "done"
  /\ UNCHANGED <<artVars, used, ladderVars, fewest>>

Ship ==
  /\ pc = "decide" /\ ~WantsMore /\ ~WantsPatch
  /\ pc' = "done"
  /\ UNCHANGED <<artVars, best, used, ladderVars, fewest>>

Next ==
  \/ Generated \/ GenerateFails \/ StartPass \/ RepairOne \/ RepairThrows \/ TierDone
  \/ RepairBlocks \/ EndLadder \/ Regenerate \/ PatchShipped \/ Ship

(* Every call the gate awaits answers or rejects: each has a timeout. *)
Spec == Init /\ [][Next]_vars /\ WF_vars(Next)
-----------------------------------------------------------------------------
Phase == {"generate", "regenerate", "ladder", "deterministic", "field-scoped",
          "block-scoped", "decide", "done", "failed", "lost"}

(* Types: in particular the rungs burned stay within what the passes allow. *)
TypeOK ==
  /\ pc \in Phase
  /\ art \subseteq Issue /\ issues \subseteq Issue /\ stash \subseteq Stashed /\ todo \subseteq Issue
  /\ best \in [art : SUBSET Issue, issues : SUBSET Issue, errors : Nat, attempt : 0 .. MaxRepairs]
  /\ pre \in [art : SUBSET Issue, issues : SUBSET Issue]
  /\ used \in 0 .. MaxRepairs /\ pass \in 0 .. MaxFieldRepairs
  /\ cursor \in [Keys -> Nat] /\ changed \in BOOLEAN /\ fewest \in Nat
  /\ DOMAIN plan \subseteq Issue /\ \A i \in DOMAIN plan : plan[i] \in Tier

(* The findings and the count that are reported with the artifact are those *)
(* of that very artifact, whatever was repaired, rejected or regenerated.   *)
(* It takes a caller whose findings are all read off the artifact.          *)
FindingsMatchShipped ==
  best.issues = best.art /\ best.errors = ErrCount(best.art)

(* What ships has no more errors than any generation had as it was          *)
(* delivered: neither a ladder nor the last block pass makes it worse.      *)
NeverWorseThanDelivered == pc \in {"decide", "done"} => best.errors <= fewest

(* The gate keeps the first candidate with the fewest errors, and what it   *)
(* does to that one afterwards adds none.                                  *)
Offered ==
  IF pc \in {"decide", "regenerate", "done", "lost"} THEN used + 1 ELSE used
Promise ==
  INSTANCE BestOf WITH
    MaxErrors <- ErrCount(Issue),
    offered <- Offered,
    kept <- [errors |-> best.errors, attempt |-> best.attempt]
KeepsBest == Promise!Spec

(* Every run ends: shipped, or with the rejection of a generation. *)
GateEnds == <>(pc \in {"done", "failed", "lost"})

(* A document that failed its schema, or never parsed, cannot be rendered;  *)
(* it must not take the place of one that can.                             *)
Usable(s) == \A i \in s : i.rule # "doc-schema"
UsableIsKept ==
  [][pc = "ladder" /\ used > 0 /\ Usable(best.art) => Usable(best'.art)]_vars

(* Each finding of a rule has its rungs tried one after the other: a call   *)
(* of the block tier burns one rung of a ladder, not two.                   *)
OneRungPerCall ==
  [][pc = "block-scoped" => \A k \in Keys : cursor'[k] <= cursor[k] + 1]_vars
=============================================================================

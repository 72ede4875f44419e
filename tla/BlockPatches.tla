----------------------------- MODULE BlockPatches -----------------------------
(***************************************************************************)
(* Repairs of single blocks: block-repair.ts and block-tier.ts for HTML,     *)
(* doc-block-repair.ts and doc-tier.ts for a document.  HTML is a sequence   *)
(* of bytes with the blocks extractBlocks() finds in it: ranges in document  *)
(* order, either disjoint or nested.  A document maps fields to their prose, *)
(* and a path leads to a field or to none (two paths may lead to one field:  *)
(* blocks[0] and blocks[0].text).  Which patches rejectPatch() and           *)
(* rejectDocPatch() refuse is part of the answer: each patch says whether it *)
(* `fits`.                                                                   *)
(***************************************************************************)
EXTENDS Naturals, Sequences, SequencesExt, FiniteSets, Lists

CONSTANTS Layout,       \* the layouts of blocks: sequences of [start, end]
          HtmlLength,   \* the bytes of the HTML
          Fragment,     \* what a model may answer for a block
          Address,      \* the indices an answer may name, blocks or not
          WithFindings, \* the blocks that may have findings
          MaxPatches,   \* bound on the patches of one answer
          Field, Path,  \* the prose fields of the document; the paths findings name
          FieldAt,      \* the field of a path, for those that lead to one
          PerCall,      \* fields per call: 5 in the code
          NoAnswer        \* the answer of a call that failed

ASSUME PatchAssumption ==
  /\ HtmlLength \in Nat /\ MaxPatches \in Nat /\ PerCall \in Nat \ {0} /\ IsFiniteSet(Path)
  /\ \A fragment \in Fragment :
       Len(fragment) \in Nat /\ fragment = [k \in 1..Len(fragment) |-> fragment[k]]
  /\ \A p \in DOMAIN FieldAt : FieldAt[p] \in Field
  \* extractBlocks() walks a tree: when each block is closed by a tag of its own, one
  \* begins behind the one before it, and ends inside of it or begins behind its end.
  /\ \A blocks \in Layout :
       /\ Len(blocks) \in Nat /\ DOMAIN blocks = 1..Len(blocks)
       /\ \A i \in DOMAIN blocks :
            /\ blocks[i].start \in Nat /\ blocks[i].end \in Nat
            /\ blocks[i].start < blocks[i].end /\ blocks[i].end <= HtmlLength
       /\ \A i, j \in DOMAIN blocks : i < j =>
            /\ blocks[i].start < blocks[j].start
            /\ blocks[i].end <= blocks[j].start \/ blocks[j].end <= blocks[i].end

VARIABLES patching,  \* "new", "html" or "doc"
          job,       \* what the tier was called with, and what the model answers
          repaired   \* what it returned

patchVars == <<patching, job, repaired>>

Overlap(b, c) == b.start < c.end /\ c.start < b.end

FromEnd(blocks, which) ==
  LET rank(i) == Cardinality({j \in which : blocks[j].start >= blocks[i].start})
  IN  [n \in 1..Cardinality(which) |-> CHOOSE i \in which : rank(i) = n]

(* Mutant of LastFirst: the blocks are rewritten in document order.          *)
FirstFirst(blocks, which) == Reverse(FromEnd(blocks, which))

(* Blocks are rewritten from the end, so that ranges still to come hold.     *)
LastFirst(blocks, which) == FromEnd(blocks, which)

(* The first block to claim a range keeps it: the innermost, seen from the   *)
(* end.                                                                      *)
Claim(blocks, kept, i) ==
  IF \E k \in kept : Overlap(blocks[k], blocks[i]) THEN kept ELSE kept \union {i}

Claimed(blocks, which) ==
  FoldLeft(LAMBDA kept, i : Claim(blocks, kept, i), {}, LastFirst(blocks, which))

(* slice() ends where the string does.                                       *)
Splice(html, b, new) ==
  LET start == IF b.start < Len(html) THEN b.start ELSE Len(html)
  IN  SubSeq(html, 1, start) \o new \o SubSeq(html, b.end + 1, Len(html))

(* Indices that address no block are ignored: patches come from a model.     *)
applyBlockPatches(html, blocks, patches) ==
  LET kept == Claimed(blocks, DOMAIN patches \intersect DOMAIN blocks)
  IN  FoldLeft(LAMBDA out, i : Splice(out, blocks[i], patches[i]), html, LastFirst(blocks, kept))

(* parsePatchResponse, and its twin for paths: the first patch of a block    *)
(* that is not empty counts.                                                 *)
Parsed(response) ==
  LET full == {k \in DOMAIN response : response[k].new # << >>}
  IN  Filtered(response, {k \in full : ~\E j \in full : j < k /\ response[j].at = response[k].at})

(* planBlockPatches: a request for every block that exists and has findings. *)
Planned(blocks, found) == found \intersect DOMAIN blocks

(* repairBlocks of block-tier.ts: whatever the model answers, the worst      *)
(* outcome is the HTML as it was.  A patch for a block without findings is   *)
(* taken like any other.                                                     *)
repairBlocks(html, blocks, found, response) ==
  IF Planned(blocks, found) = {} \/ response = NoAnswer THEN html
  ELSE LET good == {p \in Range(Parsed(response)) : p.at \in DOMAIN blocks /\ p.fits}
       IN  applyBlockPatches(html, blocks,
             [i \in {p.at : p \in good} |-> (CHOOSE p \in good : p.at = i).new])
-----------------------------------------------------------------------------
(* Map.set: a path that is there already keeps its place.                    *)
MapSet(map, path, text) ==
  IF \E k \in DOMAIN map : map[k].path = path
  THEN [k \in DOMAIN map |-> IF map[k].path = path THEN [path |-> path, text |-> text] ELSE map[k]]
  ELSE Append(map, [path |-> path, text |-> text])

(* chunk: a few fields per call.                                             *)
Batches(paths) ==
  [b \in 1..(Len(paths) + PerCall - 1) \div PerCall |->
     SubSeq(paths, (b - 1) * PerCall + 1,
            IF b * PerCall < Len(paths) THEN b * PerCall ELSE Len(paths))]

(* planDocBlockPatches: the paths that lead to prose, as they were found.    *)
Addressed(paths) == Filtered(paths, {k \in DOMAIN paths : paths[k] \in DOMAIN FieldAt})

(* applyDocPatches                                                           *)
applyDocPatches(doc, map) ==
  FoldLeft(LAMBDA d, p : [d EXCEPT ![FieldAt[p.path]] = p.text], doc, map)

(* What the map of accepted texts is after a patch, and after an answer: a   *)
(* call that fails leaves its fields as they are.                            *)
Accepted(map, p) == IF p.at \in DOMAIN FieldAt /\ p.fits THEN MapSet(map, p.at, p.new) ELSE map

Answered(map, answer) == IF answer = NoAnswer THEN map ELSE FoldLeft(Accepted, map, Parsed(answer))

(* repairDocBlocks of doc-tier.ts: answers[b] is the answer to the b-th call. *)
repairDocBlocks(doc, paths, answers) ==
  applyDocPatches(doc, FoldLeft(Answered, << >>, [b \in DOMAIN Batches(Addressed(paths)) |-> answers[b]]))
-----------------------------------------------------------------------------
Html == [p \in 1..HtmlLength |-> p]

Original == [f \in Field |-> <<"old", f>>]

PatchInit == patching = "new" /\ job = << >> /\ repaired = << >>

(* Any layout, any findings, and any answer.                                 *)
RepairHtml ==
  /\ patching = "new" /\ patching' = "html"
  /\ \E blocks \in Layout, found \in SUBSET WithFindings,
        response \in BoundedSeq([at : Address, new : Fragment, fits : BOOLEAN], MaxPatches)
                     \union {NoAnswer} :
       /\ job' = [blocks |-> blocks, found |-> found, response |-> response]
       /\ repaired' = repairBlocks(Html, blocks, found, response)

(* A model answers every field it is asked for, and maybe one it is not;     *)
(* some calls fail and some answers are refused.                             *)
Answers(batches, lost, refused, more) ==
  LET asked(b) == batches[b] \o (IF more[1] = b THEN <<more[2]>> ELSE << >>)
  IN  [b \in DOMAIN batches |->
         IF b \in lost THEN NoAnswer
         ELSE [i \in DOMAIN asked(b) |-> [at |-> asked(b)[i], new |-> <<asked(b)[i], b>>,
                                        fits |-> asked(b)[i] \notin refused]]]

RepairDoc ==
  /\ patching = "new" /\ patching' = "doc"
  /\ \E k \in 0..Cardinality(Path) : \E paths \in {s \in [1..k -> Path] : IsInjective(s)} :
       LET batches == Batches(Addressed(paths))
       IN  \E lost \in SUBSET DOMAIN batches, refused \in SUBSET Path,
              more \in ((DOMAIN batches) \X Path) \union {<<0, 0>>} :
             LET answers == Answers(batches, lost, refused, more)
             IN  /\ job' = [paths |-> paths, asked |-> batches, answers |-> answers]
                 /\ repaired' = repairDocBlocks(Original, paths, answers)

PatchNext == RepairHtml \/ RepairDoc

PatchSpec == PatchInit /\ [][PatchNext]_patchVars
-----------------------------------------------------------------------------
(* The blocks among `which` in which no other of them lies.                  *)
Innermost(blocks, which) ==
  {i \in which : \A j \in which \ {i} : ~(blocks[i].start <= blocks[j].start
                                          /\ blocks[j].end <= blocks[i].end)}

(* What stands for a byte when the kept blocks are replaced.                 *)
Instead(html, blocks, patches, kept, p) ==
  IF \E i \in kept : blocks[i].start = p - 1
  THEN patches[CHOOSE i \in kept : blocks[i].start = p - 1]
  ELSE IF \E i \in kept : blocks[i].start < p /\ p <= blocks[i].end THEN << >> ELSE <<html[p]>>

(* The HTML in which exactly the innermost patched blocks are replaced, told *)
(* byte by byte.                                                             *)
Replaced(html, blocks, patches) ==
  LET kept == Innermost(blocks, DOMAIN patches)
  IN  FoldLeft(LAMBDA out, p : out \o Instead(html, blocks, patches, kept, p),
               << >>, [p \in DOMAIN html |-> p])

(* "leave every other byte alone" (block-repair.ts:5): whatever a model      *)
(* answers, in whatever order, for whatever blocks, the HTML it returns is   *)
(* the old one with the innermost of the accepted blocks replaced, and the   *)
(* old one when nothing was asked or the call failed.                        *)
OtherBytesStay ==
  patching = "html" =>
    LET r == job.response
        first(i) == CHOOSE k \in DOMAIN r : /\ r[k].at = i /\ r[k].new # << >>
                                           /\ \A j \in 1..k - 1 : r[j].at # i \/ r[j].new = << >>
        good == {i \in DOMAIN job.blocks : /\ \E k \in DOMAIN r : r[k].at = i /\ r[k].new # << >>
                                          /\ r[first(i)].fits}
    IN  repaired = IF r = NoAnswer \/ job.found \intersect DOMAIN job.blocks = {} THEN Html
                   ELSE Replaced(Html, job.blocks, [i \in good |-> r[first(i)].new])

(* Every path that leads to a field is asked for in one call, and a field of *)
(* the document changes only to a text that was accepted for it, and does    *)
(* change when one was: a failed call loses its own fields only.             *)
OtherFieldsStay ==
  patching = "doc" =>
    /\ \A p \in Range(job.paths) \intersect DOMAIN FieldAt :
         Cardinality({b \in DOMAIN job.asked : p \in Range(job.asked[b])}) = 1
    /\ \A b \in DOMAIN job.asked : Len(job.asked[b]) <= PerCall
    /\ \A f \in Field :
         LET texts == UNION {{job.answers[b][i].new : i \in
                               {j \in DOMAIN job.answers[b] :
                                  job.answers[b][j].fits /\ job.answers[b][j].at \in DOMAIN FieldAt
                                  /\ FieldAt[job.answers[b][j].at] = f}} :
                             b \in {c \in DOMAIN job.answers : job.answers[c] # NoAnswer}}
         IN  IF texts = {} THEN repaired[f] = Original[f] ELSE repaired[f] \in texts

(* Patches of single blocks and fields change what they address, and nothing *)
(* else.                                                                     *)
PatchesLandInPlace == OtherBytesStay /\ OtherFieldsStay
=============================================================================

----------------------------- MODULE RepairProofs -----------------------------
(***************************************************************************)
(* Proofs about the repairs.  About RepairGate, for any findings,           *)
(* strategies' severities, budget and number of passes: types, that the     *)
(* reported findings are those of what ships, that nothing worse than a     *)
(* delivered generation ships, and that the gate implements BestOf.  About  *)
(* BlockPatches, for HTML of any length with any blocks, and any document   *)
(* and answers: that patches land in place and change nothing else.  About  *)
(* ImageMarkers, for any manifests, texts and documents of any length: that *)
(* every marker's image is shown, and that the twins agree.                 *)
(***************************************************************************)
EXTENDS RepairGate, BlockPatches, ImageMarkers, FoldLemmas, FiniteSetTheorems, SequenceTheorems, TLAPS

(* Every set of findings is finite, so its errors have a number. *)
LEMMA CountType ==
  ASSUME NEW s, s \subseteq Issue
  PROVE  ErrCount(s) \in Nat /\ ErrCount(s) <= ErrCount(Issue)
<1>1. IsFiniteSet(Errors(Issue)) /\ Errors(s) \subseteq Errors(Issue)
  <2>1. Errors(Issue) \subseteq Issue /\ Errors(s) \subseteq Errors(Issue)  BY DEF Errors
  <2>2. IsFiniteSet(Issue)  BY GateAssumption
  <2> QED  BY <2>1, <2>2, FS_Subset
<1>2. IsFiniteSet(Errors(s)) /\ Cardinality(Errors(s)) <= Cardinality(Errors(Issue))
  BY <1>1, FS_Subset
<1>3. Cardinality(Errors(s)) \in Nat /\ Cardinality(Errors(Issue)) \in Nat
  BY <1>1, <1>2, FS_CardinalityType
<1> QED  BY <1>2, <1>3 DEF ErrCount

(* A ladder is a sequence of tiers. *)
LEMMA LadderType ==
  ASSUME NEW i \in Issue
  PROVE  Ladder(i) \in Seq(Tier)
<1>1. Rungs(i.rule) \in Seq(Tier)  BY SMTT(30) DEF Rungs, Tier
<1>2. "full-regen" \in Tier  BY DEF Tier
<1> QED  BY <1>1, <1>2 DEF Ladder

LEMMA TierType ==
  ASSUME NEW i \in Issue
  PROVE  ActiveTier(i) \in Tier
BY LadderType DEF ActiveTier, Tier

LEMMA AdvanceType ==
  ASSUME cursor \in [Keys -> Nat], NEW S, S \subseteq Issue, Advance(S)
  PROVE  cursor' \in [Keys -> Nat]
<1>1. ASSUME NEW k \in Keys
      PROVE  Cardinality({i \in S : CursorKey(i) = k}) \in Nat
  <2>1. {i \in S : CursorKey(i) = k} \subseteq Issue  OBVIOUS
  <2>2. IsFiniteSet({i \in S : CursorKey(i) = k})  BY <2>1, GateAssumption, FS_Subset
  <2> QED  BY <2>2, FS_CardinalityType
<1> QED  BY <1>1 DEF Advance

LEMMA ExhaustType ==
  ASSUME cursor \in [Keys -> Nat], NEW i \in Issue, Exhaust(i)
  PROVE  cursor' \in [Keys -> Nat]
<1>1. Len(Ladder(i)) \in Nat  BY LadderType
<1> QED  BY <1>1 DEF Exhaust
-----------------------------------------------------------------------------
InTier == {"deterministic", "field-scoped", "block-scoped"}
InLadder == InTier \union {"ladder"}

(* What is noted of an artifact is out of date only inside a pass that has  *)
(* changed it; what a ladder started from never is, and the report of       *)
(* produce() is about the artifact at hand as long as its ladder runs.      *)
NotedMatch ==
  /\ pre.issues = pre.art
  /\ pc \in InLadder => art \intersect Stashed = stash
  /\ pc \notin InTier => issues = art
  /\ pc \in InTier /\ ~changed => issues = art

(* The generation at hand and the best one account for the history.         *)
FewestKnown ==
  /\ pc = "generate" => used = 0
  /\ pc = "regenerate" => used < MaxRepairs
  /\ pc \in InLadder => IF used = 0 THEN fewest = ErrCount(pre.issues)
                        ELSE best.errors <= fewest \/ fewest = ErrCount(pre.issues)
  /\ pc \in {"decide", "regenerate", "done", "lost"} => best.errors <= fewest

(* A pass has begun only while passes were left. *)
PassLeft == pc \in InTier => pass < MaxFieldRepairs

(* The claim about what ships, for a caller that keeps no report aside.     *)
ShippedMatch == Stashed = {} => FindingsMatchShipped

Inv == TypeOK /\ NotedMatch /\ FewestKnown /\ PassLeft /\ ShippedMatch

LEMMA InitInv == Init => Inv
<1> SUFFICES ASSUME Init PROVE Inv  OBVIOUS
<1>1. ErrCount({}) = 0
  <2>1. Errors({}) = {}  BY DEF Errors
  <2> QED  BY <2>1, FS_EmptySet DEF ErrCount
<1>2. TypeOK
  <2>1. DOMAIN plan = {}  BY DEF Init
  <2>2. cursor \in [Keys -> Nat]  BY DEF Init, Fresh
  <2>3. pc \in Phase  BY DEF Init, Phase
  <2>4. best \in [art : SUBSET Issue, issues : SUBSET Issue, errors : Nat, attempt : 0 .. MaxRepairs]
    BY GateAssumption DEF Init
  <2>5. /\ art \subseteq Issue /\ issues \subseteq Issue /\ todo \subseteq Issue
        /\ stash \subseteq Stashed
        /\ used \in 0 .. MaxRepairs /\ pass \in 0 .. MaxFieldRepairs /\ fewest \in Nat
    BY GateAssumption DEF Init
  <2>6. pre \in [art : SUBSET Issue, issues : SUBSET Issue]  BY DEF Init
  <2>7. changed \in BOOLEAN  BY DEF Init
  <2> QED  BY <2>1, <2>2, <2>3, <2>4, <2>5, <2>6, <2>7 DEF TypeOK
<1> QED  BY <1>1, <1>2 DEF Inv, Init, NotedMatch, FewestKnown, PassLeft, ShippedMatch, FindingsMatchShipped,
                    InTier, InLadder
-----------------------------------------------------------------------------
(* One lemma per action. *)
LEMMA GeneratedInv == Inv /\ Generated => Inv'
<1> SUFFICES ASSUME Inv, Generated PROVE Inv'  OBVIOUS
<1> USE DEF Inv
<1>1. PICK found \in Findings :
        /\ art' = found /\ stash' = found \intersect Stashed /\ issues' = found
        /\ pre' = [art |-> found, issues |-> found]
        /\ fewest' = IF pc = "generate" \/ ErrCount(found) < fewest
                     THEN ErrCount(found) ELSE fewest
  BY DEF Generated
<1>2. found \subseteq Issue  BY GateAssumption
<1>3. ErrCount(found) \in Nat  BY <1>2, CountType
<1>4. used' \in 0 .. MaxRepairs /\ (used' = 0 => pc = "generate")
  BY GateAssumption DEF Generated, TypeOK, FewestKnown
<1>5. TypeOK'
  BY <1>1, <1>2, <1>3, <1>4, GateAssumption DEF Generated, TypeOK, Phase, Fresh
<1>6. FewestKnown'
  BY <1>1, <1>3, <1>4 DEF Generated, TypeOK, FewestKnown, InLadder, InTier
<1> QED  BY <1>1, <1>5, <1>6 DEF Generated, NotedMatch, PassLeft, ShippedMatch, FindingsMatchShipped, InTier

LEMMA GenerateFailsInv == Inv /\ GenerateFails => Inv'
BY DEF Inv, GenerateFails, artVars, ladderVars, TypeOK, Phase, NotedMatch, FewestKnown,
       PassLeft, ShippedMatch, FindingsMatchShipped, InTier, InLadder

LEMMA StartPassInv == Inv /\ StartPass => Inv'
<1> SUFFICES ASSUME Inv, StartPass PROVE Inv'  OBVIOUS
<1> USE DEF Inv
<1>1. DOMAIN plan' \subseteq Issue /\ (\A i \in DOMAIN plan' : plan'[i] \in Tier)
  BY TierType DEF StartPass, TypeOK
<1>2. todo' \subseteq Issue  BY DEF StartPass, TypeOK
<1>3. TypeOK'  BY <1>1, <1>2 DEF StartPass, TypeOK, Phase, artVars
<1> QED  BY <1>3 DEF StartPass, artVars, TypeOK, NotedMatch, FewestKnown, PassLeft,
                     ShippedMatch, FindingsMatchShipped, InTier, InLadder

LEMMA RepairOneInv == Inv /\ RepairOne => Inv'
<1> SUFFICES ASSUME Inv, RepairOne PROVE Inv'  OBVIOUS
<1> USE DEF Inv
<1>1. PICK i \in todo :
        /\ todo' = todo \ {i}
        /\ Advance({i})
        /\ \/ UNCHANGED <<art, changed>>
           \/ (pc = "deterministic" \/ HasRepairField) /\ Rewrite
  BY DEF RepairOne
<1>2. cursor' \in [Keys -> Nat]  BY <1>1, AdvanceType DEF TypeOK
<1>3. art' \subseteq Issue /\ changed' \in BOOLEAN
  BY <1>1, GateAssumption DEF TypeOK, Rewrite
<1>4. TypeOK'  BY <1>1, <1>2, <1>3 DEF RepairOne, TypeOK
<1>5. changed' = TRUE \/ UNCHANGED <<art, changed>>  BY <1>1 DEF Rewrite
<1>6. art' \intersect Stashed = stash'
  BY <1>1 DEF Rewrite, SameReport, NotedMatch, RepairOne, InLadder, InTier
<1> QED  BY <1>4, <1>5, <1>6 DEF RepairOne, TypeOK, NotedMatch, FewestKnown, PassLeft,
                           ShippedMatch, FindingsMatchShipped, InTier, InLadder

LEMMA RepairThrowsInv == Inv /\ RepairThrows => Inv'
<1> SUFFICES ASSUME Inv, RepairThrows PROVE Inv'  OBVIOUS
<1> USE DEF Inv
<1>1. PICK i \in todo : todo' = todo \ {i} /\ Exhaust(i)  BY DEF RepairThrows
<1>2. cursor' \in [Keys -> Nat]  BY <1>1, ExhaustType DEF TypeOK
<1>3. TypeOK'  BY <1>1, <1>2 DEF RepairThrows, TypeOK, artVars
<1> QED  BY <1>3 DEF RepairThrows, artVars, TypeOK, NotedMatch, FewestKnown, PassLeft,
                     ShippedMatch, FindingsMatchShipped, InTier, InLadder

LEMMA TierDoneInv == Inv /\ TierDone => Inv'
<1> SUFFICES ASSUME Inv, TierDone PROVE Inv'  OBVIOUS
<1> USE DEF Inv
<1>1. todo' \subseteq Issue  BY DEF TierDone, OnTier, TypeOK
<1>2. TypeOK'  BY <1>1 DEF TierDone, TypeOK, artVars, Phase
<1> QED  BY <1>2 DEF TierDone, artVars, TypeOK, NotedMatch, FewestKnown, PassLeft,
                     ShippedMatch, FindingsMatchShipped, InTier, InLadder

LEMMA RepairBlocksInv == Inv /\ RepairBlocks => Inv'
<1> SUFFICES ASSUME Inv, RepairBlocks PROVE Inv'  OBVIOUS
<1> USE DEF Inv
<1>1. cursor' \in [Keys -> Nat]  BY AdvanceType DEF TypeOK, RepairBlocks
<1>2. art' \subseteq Issue /\ changed' \in BOOLEAN
  BY GateAssumption DEF TypeOK, Rewrite, RepairBlocks
<1>6. art' \intersect Stashed = stash /\ stash' = stash
  BY DEF RepairBlocks, Rewrite, SameReport, NotedMatch, InLadder, InTier
<1>3. issues' = art'
  <2>1. CASE changed'
    <3>1. issues' = Validate(art')  BY <2>1 DEF RepairBlocks
    <3>2. Validate(art') = art'  BY <1>6, <1>2, GateAssumption DEF Validate, TypeOK
    <3> QED  BY <3>1, <3>2
  <2>2. CASE ~changed'
    BY <2>2 DEF RepairBlocks, NotedMatch, InTier, Rewrite
  <2> QED  BY <2>1, <2>2
<1>4. pass' \in 0 .. MaxFieldRepairs
  BY GateAssumption DEF RepairBlocks, TypeOK, PassLeft, InTier
<1>5. TypeOK'  BY <1>1, <1>2, <1>3, <1>4 DEF RepairBlocks, TypeOK, Phase
<1> QED  BY <1>3, <1>5, <1>6 DEF RepairBlocks, TypeOK, NotedMatch, FewestKnown, PassLeft,
                     ShippedMatch, FindingsMatchShipped, InTier, InLadder

(* The candidate that leaves a ladder: it has no more errors than came in.  *)
LEMMA KeptCandidate ==
  ASSUME Inv, pc = "ladder",
         NEW kept, kept = IF LadderFailed THEN pre ELSE [art |-> art, issues |-> issues]
  PROVE  /\ kept.art \subseteq Issue /\ kept.issues = kept.art
         /\ ErrCount(kept.issues) \in Nat /\ ErrCount(pre.issues) \in Nat
         /\ ErrCount(kept.issues) <= ErrCount(pre.issues)
<1> USE DEF Inv
<1>1. kept.art \subseteq Issue /\ kept.issues = kept.art
  <2>1. CASE LadderFailed  BY <2>1 DEF TypeOK, NotedMatch
  <2>2. CASE ~LadderFailed
    <3>1. kept = [art |-> art, issues |-> issues]  BY <2>2
    <3>2. issues = art  BY DEF NotedMatch, InTier
    <3> QED  BY <3>1, <3>2 DEF TypeOK
  <2> QED  BY <2>1, <2>2
<1>2. ErrCount(pre.issues) \in Nat /\ ErrCount(issues) \in Nat
  <2>1. pre.issues \subseteq Issue /\ issues \subseteq Issue  BY DEF TypeOK
  <2> QED  BY <2>1, CountType
<1>3. ErrCount(kept.issues) \in Nat /\ ErrCount(kept.issues) <= ErrCount(pre.issues)
  <2>1. CASE LadderFailed  BY <2>1, <1>2
  <2>2. CASE ~LadderFailed
    <3>1. kept.issues = issues  BY <2>2
    <3>2. ~ (ErrCount(issues) > ErrCount(pre.issues))  BY <2>2 DEF LadderFailed
    <3> QED  BY <3>1, <3>2, <1>2
  <2> QED  BY <2>1, <2>2
<1> QED  BY <1>1, <1>2, <1>3

LEMMA EndLadderInv == Inv /\ EndLadder => Inv'
<1> SUFFICES ASSUME Inv, EndLadder PROVE Inv'  OBVIOUS
<1> USE DEF Inv
<1> DEFINE kept == IF LadderFailed THEN pre ELSE [art |-> art, issues |-> issues]
           e == ErrCount(kept.issues)
<1>1. /\ pc = "ladder" /\ art' = kept.art /\ issues' = kept.issues
      /\ Keep(kept) /\ LadderGone /\ pc' = "decide" /\ UNCHANGED <<stash, used, fewest>>
  BY DEF EndLadder
<1>2. /\ kept.art \subseteq Issue /\ kept.issues = kept.art
      /\ e \in Nat /\ ErrCount(pre.issues) \in Nat /\ e <= ErrCount(pre.issues)
  BY <1>1, KeptCandidate
<1> HIDE DEF kept
<1>3. best' = IF used = 0 \/ e < best.errors
              THEN [art |-> kept.art, issues |-> kept.issues, errors |-> e, attempt |-> used]
              ELSE best
  BY <1>1 DEF Keep
<1>4. best' \in [art : SUBSET Issue, issues : SUBSET Issue, errors : Nat, attempt : 0 .. MaxRepairs]
  BY <1>2, <1>3 DEF TypeOK
<1>5. ShippedMatch'
  <2>1. CASE used = 0 \/ e < best.errors
    BY <2>1, <1>2, <1>3 DEF ShippedMatch, FindingsMatchShipped
  <2>2. CASE ~(used = 0 \/ e < best.errors)
    BY <2>2, <1>3 DEF ShippedMatch, FindingsMatchShipped
  <2> QED  BY <2>1, <2>2
<1>6. best'.errors <= fewest'
  <2>1. IF used = 0 THEN fewest = ErrCount(pre.issues)
        ELSE best.errors <= fewest \/ fewest = ErrCount(pre.issues)
    BY <1>1 DEF FewestKnown, InLadder
  <2>2. best.errors \in Nat /\ fewest \in Nat  BY DEF TypeOK
  <2>3. CASE used = 0 \/ e < best.errors
    <3>1. best'.errors = e  BY <2>3, <1>3
    <3> QED  BY <3>1, <2>1, <2>2, <2>3, <1>1, <1>2
  <2>4. CASE ~(used = 0 \/ e < best.errors)
    <3>1. best' = best  BY <2>4, <1>3
    <3> QED  BY <3>1, <2>1, <2>2, <2>4, <1>1, <1>2
  <2> QED  BY <2>3, <2>4
<1>7. TypeOK'
  <2>1. DOMAIN plan' = {}  BY <1>1 DEF LadderGone
  <2>2. cursor' \in [Keys -> Nat]  BY <1>1 DEF LadderGone, Fresh
  <2>3. pc' \in Phase /\ used' \in 0 .. MaxRepairs /\ fewest' \in Nat /\ stash' \subseteq Stashed
    BY <1>1 DEF Phase, TypeOK
  <2>4. /\ art' \subseteq Issue /\ issues' \subseteq Issue /\ todo' \subseteq Issue
        /\ pass' \in 0 .. MaxFieldRepairs
    BY <1>1, <1>2, GateAssumption DEF LadderGone
  <2>5. pre' \in [art : SUBSET Issue, issues : SUBSET Issue]  BY <1>1 DEF LadderGone
  <2>6. changed' \in BOOLEAN  BY <1>1 DEF LadderGone
  <2> QED  BY <1>4, <2>1, <2>2, <2>3, <2>4, <2>5, <2>6 DEF TypeOK
<1> QED  BY <1>1, <1>2, <1>5, <1>6, <1>7 DEF LadderGone, NotedMatch, FewestKnown, PassLeft,
                                           InTier, InLadder

LEMMA RegenerateInv == Inv /\ Regenerate => Inv'
BY DEF Inv, Regenerate, WantsMore, artVars, ladderVars, TypeOK, Phase, NotedMatch,
       FewestKnown, PassLeft, ShippedMatch, FindingsMatchShipped, InTier, InLadder

LEMMA PatchShippedInv == Inv /\ PatchShipped => Inv'
<1> SUFFICES ASSUME Inv, PatchShipped PROVE Inv'  OBVIOUS
<1> USE DEF Inv
<1> DEFINE noted(f) == Validate(f)
<1>1. PICK found \in Findings :
        best' = IF ErrCount(noted(found)) <= best.errors
                THEN [best EXCEPT !.art = found, !.issues = noted(found), !.errors = ErrCount(noted(found))]
                ELSE best
  BY DEF PatchShipped
<1>2. found \subseteq Issue /\ noted(found) \subseteq Issue
  BY GateAssumption DEF TypeOK, Validate
<1>0. Stashed = {} => noted(found) = found  BY DEF TypeOK, Validate
<1> HIDE DEF noted
<1>3. ErrCount(noted(found)) \in Nat  BY <1>2, CountType
<1>4. best' \in [art : SUBSET Issue, issues : SUBSET Issue, errors : Nat, attempt : 0 .. MaxRepairs]
  BY <1>1, <1>2, <1>3 DEF TypeOK
<1>5. ShippedMatch' /\ best'.errors <= best.errors
  <2>1. CASE ErrCount(noted(found)) <= best.errors
    BY <2>1, <1>0, <1>1 DEF ShippedMatch, FindingsMatchShipped, TypeOK
  <2>2. CASE ~(ErrCount(noted(found)) <= best.errors)
    BY <2>2, <1>1 DEF ShippedMatch, FindingsMatchShipped, TypeOK
  <2> QED  BY <2>1, <2>2
<1>6. TypeOK'  BY <1>4 DEF PatchShipped, artVars, ladderVars, TypeOK, Phase
<1>7. best'.errors <= fewest'
  <2>1. best.errors \in Nat /\ best'.errors \in Nat /\ fewest \in Nat  BY <1>4 DEF TypeOK
  <2> QED  BY <2>1, <1>5 DEF PatchShipped, FewestKnown
<1> QED  BY <1>5, <1>6, <1>7 DEF PatchShipped, artVars, ladderVars, NotedMatch, FewestKnown,
                                PassLeft, InTier, InLadder

LEMMA ShipInv == Inv /\ Ship => Inv'
BY DEF Inv, Ship, artVars, ladderVars, TypeOK, Phase, NotedMatch, FewestKnown, PassLeft,
       ShippedMatch, FindingsMatchShipped, InTier, InLadder

LEMMA StutterInv == Inv /\ UNCHANGED vars => Inv'
BY DEF Inv, vars, TypeOK, NotedMatch, FewestKnown, PassLeft, ShippedMatch, FindingsMatchShipped, InTier, InLadder

LEMMA NextInv == Inv /\ [Next]_vars => Inv'
BY GeneratedInv, GenerateFailsInv, StartPassInv, RepairOneInv, RepairThrowsInv, TierDoneInv,
   RepairBlocksInv, EndLadderInv, RegenerateInv, PatchShippedInv, ShipInv, StutterInv DEF Next

THEOREM Invariance == Spec => []Inv
BY InitInv, NextInv, PTL DEF Spec
-----------------------------------------------------------------------------
(* Every reachable state is typed: regenerations stay within what the       *)
(* caller pays for and passes within their cap, whatever the repairs do.    *)
THEOREM GateTypeCorrect == Spec => []TypeOK
<1>1. Inv => TypeOK  BY DEF Inv
<1> QED  BY <1>1, Invariance, PTL

(* The findings reported with an artifact are the findings it has, when     *)
(* all of them are read off the artifact, as on the document path.          *)
THEOREM FindingsAlwaysMatch ==
  ASSUME Stashed = {}
  PROVE  Spec => []FindingsMatchShipped
<1>1. Inv => FindingsMatchShipped  BY DEF Inv, ShippedMatch
<1> QED  BY <1>1, Invariance, PTL

(* Neither a ladder nor a regeneration nor the last block pass makes what    *)
(* ships worse than any generation was as it was delivered.                *)
THEOREM NeverWorse == Spec => []NeverWorseThanDelivered
<1>1. Inv => NeverWorseThanDelivered  BY DEF Inv, FewestKnown, NeverWorseThanDelivered
<1> QED  BY <1>1, Invariance, PTL

(* The gate is an implementation of BestOf. *)
THEOREM GateKeepsBest == Spec => KeepsBest
<1>1. Init => Promise!Init
  BY DEF Init, Promise!Init, Offered
<1>2. Inv /\ [Next]_vars => [Promise!Next]_Promise!vars
  <2> SUFFICES ASSUME Inv, [Next]_vars PROVE [Promise!Next]_Promise!vars  OBVIOUS
  <2> USE DEF Inv
  <2> DEFINE MapSame == Offered' = Offered /\ best'.errors = best.errors /\ best'.attempt = best.attempt
  <2>0. MapSame => [Promise!Next]_Promise!vars  BY DEF Promise!vars
  <2>1. CASE Generated
    <3>1. MapSame  BY <2>1 DEF Generated, Offered, TypeOK, FewestKnown
    <3> QED  BY <3>1, <2>0
  <2>2. CASE GenerateFails
    <3>1. MapSame  BY <2>2 DEF GenerateFails, Offered
    <3> QED  BY <3>1, <2>0
  <2>3. CASE StartPass \/ RepairOne \/ RepairThrows \/ TierDone \/ RepairBlocks
    <3>1. pc \in InLadder /\ pc' \in InLadder /\ best' = best /\ used' = used
      BY <2>3 DEF StartPass, RepairOne, RepairThrows, TierDone, RepairBlocks, InLadder, InTier
    <3>2. MapSame  BY <3>1 DEF Offered, InLadder, InTier
    <3> QED  BY <3>2, <2>0
  <2>4. CASE EndLadder
    <3> DEFINE kept == IF LadderFailed THEN pre ELSE [art |-> art, issues |-> issues]
               e == ErrCount(kept.issues)
    <3>1. pc = "ladder" /\ Keep(kept) /\ pc' = "decide" /\ used' = used
      BY <2>4 DEF EndLadder
    <3>2. kept.issues \subseteq Issue  BY <3>1, KeptCandidate
    <3>3. e \in 0 .. ErrCount(Issue)
      <4>1. e \in Nat /\ e <= ErrCount(Issue)  BY <3>2, CountType
      <4>2. ErrCount(Issue) \in Nat  BY CountType
      <4> QED  BY <4>1, <4>2
    <3> HIDE DEF kept
    <3>4. best' = IF used = 0 \/ e < best.errors
                  THEN [art |-> kept.art, issues |-> kept.issues, errors |-> e, attempt |-> used]
                  ELSE best
      BY <3>1 DEF Keep
    <3>5. Offered = used /\ Offered' = used + 1 /\ used <= MaxRepairs
      BY <3>1, GateAssumption DEF Offered, TypeOK
    <3>6. [errors |-> best'.errors, attempt |-> best'.attempt] =
            IF Offered = 0 \/ e < best.errors
            THEN [errors |-> e, attempt |-> Offered]
            ELSE [errors |-> best.errors, attempt |-> best.attempt]
      BY <3>4, <3>5
    <3>7. Promise!Offer  BY <3>3, <3>5, <3>6 DEF Promise!Offer
    <3> QED  BY <3>7 DEF Promise!Next
  <2>5. CASE Regenerate \/ Ship
    <3>1. MapSame  BY <2>5 DEF Regenerate, Ship, Offered
    <3> QED  BY <3>1, <2>0
  <2>6. CASE PatchShipped
    <3>1. PICK found \in Findings :
            best' = IF ErrCount(Validate(found)) <= best.errors
                    THEN [best EXCEPT !.art = found, !.issues = Validate(found),
                                      !.errors = ErrCount(Validate(found))]
                    ELSE best
      BY <2>6 DEF PatchShipped
    <3>2. Offered > 0 /\ Offered' = Offered
      BY <2>6, GateAssumption DEF PatchShipped, Offered, TypeOK, artVars, ladderVars
    <3> DEFINE e == ErrCount(Validate(found))
    <3>3. e \in Nat /\ best.errors \in Nat
      <4>1. Validate(found) \subseteq Issue  BY GateAssumption DEF Validate, TypeOK
      <4> QED  BY <4>1, CountType DEF TypeOK
    <3>4. CASE e <= best.errors
      <4>1. best'.errors = e /\ best'.attempt = best.attempt
        BY <3>1, <3>4 DEF TypeOK
      <4>2. e \in 0 .. best.errors  BY <3>3, <3>4
      <4>3. Promise!Polish  BY <4>1, <4>2, <3>2 DEF Promise!Polish
      <4> QED  BY <4>3 DEF Promise!Next
    <3>5. CASE ~(e <= best.errors)
      <4>1. MapSame  BY <3>1, <3>2, <3>5
      <4> QED  BY <4>1, <2>0
    <3> QED  BY <3>4, <3>5
  <2>7. CASE UNCHANGED vars
    <3>1. MapSame  BY <2>7 DEF vars, Offered
    <3> QED  BY <3>1, <2>0
  <2> QED  BY <2>1, <2>2, <2>3, <2>4, <2>5, <2>6, <2>7 DEF Next
<1> QED  BY <1>1, <1>2, Invariance, PTL DEF Spec, KeepsBest, Promise!Spec

-----------------------------------------------------------------------------
(* The folds of the model, over any list.                                    *)
ClaimedOf(blocks, L) ==
  FoldLeft(LAMBDA kept, i : Claim(blocks, kept, i), {}, L)
RewrittenOf(html, blocks, patches, L) ==
  FoldLeft(LAMBDA out, i : Splice(out, blocks[i], patches[i]), html, L)
ToldOf(html, blocks, patches, kept, L) ==
  FoldLeft(LAMBDA out, p : out \o Instead(html, blocks, patches, kept, p), << >>, L)
AcceptedOf(map, L) == FoldLeft(Accepted, map, L)
AnsweredOf(map, L) == FoldLeft(Answered, map, L)

(* The blocks that keep their range, one block after the other from the end. *)
ClaimedSteps(r, A, N, L, blocks) ==
  /\ r[0] = {} /\ r[N] = ClaimedOf(blocks, L)
  /\ \A n \in 0 .. N : r[n] \in A
  /\ \A n \in 1 .. N : r[n] = Claim(blocks, r[n - 1], L[n])

LEMMA ClaimedRun ==
  ASSUME NEW A, NEW N \in Nat, NEW L, DOMAIN L = 1 .. N, NEW blocks,
         {} \in A, \A kept \in A, n \in 1 .. N : Claim(blocks, kept, L[n]) \in A
  PROVE  \E r : ClaimedSteps(r, A, N, L, blocks)
<1> DEFINE Op(kept, i) == Claim(blocks, kept, i)
           Body(h) == [s \in SUBSET (1 .. N) |->
                        IF s = {} THEN {} ELSE Op(h[s \ {Max(s)}], L[Max(s)])]
           it == CHOOSE h : h = Body(h)
           step == [x \in A \X Nat |-> IF x[2] \in 1 .. N THEN Op(x[1], L[x[2]]) ELSE x[1]]
<1>1. ClaimedOf(blocks, L) = it[1 .. N]
  BY DEF ClaimedOf, FoldLeft, MapThenFoldSet
<1>2. it = Body(it)
  <2>1. step \in [A \X Nat -> A]
    <3> HIDE DEF Op
    <3> SUFFICES ASSUME NEW x \in A \X Nat PROVE step[x] \in A
      OBVIOUS
    <3> QED BY DEF Op
  <2>2. PICK f \in [SUBSET (1 .. N) -> A] :
          \A S \in SUBSET (1 .. N) : f[S] = Taken(f, {}, step, S)
    <3> HIDE DEF step
    <3>1. Leads(A, {}, step, N)
      BY <2>1, StepsLead
    <3> QED BY <3>1 DEF Leads
  <2>3. ASSUME NEW S \in SUBSET (1 .. N), S # {} PROVE f[S] = Op(f[S \ {Max(S)}], L[Max(S)])
    <3> DEFINE x == <<f[S \ {Max(S)}], Max(S)>>
    <3>1. Max(S) \in S
      BY <2>3, PlacesHaveLast
    <3>2. Max(S) \in 1 .. N /\ Max(S) \in Nat /\ f[S \ {Max(S)}] \in A
      <4>1. S \ {Max(S)} \in SUBSET (1 .. N) /\ Max(S) \in 1 .. N
        BY <3>1
      <4> HIDE DEF step
      <4> QED BY <2>2, <4>1
    <3>3. f[S] = step[x]
      BY <2>2, <2>3 DEF Taken
    <3>4. x \in A \X Nat /\ x[1] = f[S \ {Max(S)}] /\ x[2] = Max(S)
      BY <3>2
    <3>5. step[x] = Op(x[1], L[x[2]])
      <4> HIDE DEF Op, x
      <4> QED BY <3>2, <3>4
    <3> HIDE DEF Op, step, x
    <3> QED BY <3>3, <3>4, <3>5
  <2>4. \A S \in SUBSET (1 .. N) : S = {} => f[S] = {}
    BY <2>2 DEF Taken
  <2>5. f = Body(f)
    <3> HIDE DEF Op, step
    <3> QED BY <2>3, <2>4
  <2> HIDE DEF Body
  <2> QED BY <2>5
<1>3. \A x \in A, n \in 1 .. N : Op(x, L[n]) \in A
  OBVIOUS
<1> DEFINE r == [n \in 0 .. N |-> it[1 .. n]]
<1>4. it[{}] = {}
  <2> HIDE DEF Op, it
  <2> QED BY <1>2
<1>5. ASSUME NEW n \in 1 .. N PROVE it[1 .. n] = Op(it[1 .. n - 1], L[n])
  <2> HIDE DEF Op, it
  <2>1. 1 .. n \in SUBSET (1 .. N) /\ 1 .. n # {} /\ Max(1 .. n) = n /\ (1 .. n) \ {n} = 1 .. n - 1
    BY PrefixSteps
  <2> QED BY <1>2, <2>1
<1>6. r[0] = {}
  <2>1. 0 \in 0 .. N /\ 1 .. 0 = {}
    OBVIOUS
  <2> HIDE DEF it
  <2> QED BY <1>4, <2>1
<1>7. \A n \in 1 .. N : r[n] = Op(r[n - 1], L[n])
  <2> HIDE DEF Op, it
  <2> QED BY <1>5
<1>8. r[N] = it[1 .. N]
  OBVIOUS
<1>9. \A n \in 0 .. N : r[n] \in A
  <2> DEFINE S == {n \in Nat : r[n] \in A}
  <2> HIDE DEF r
  <2>1. 0 \in S
    BY <1>6
  <2>2. \A n \in 1 .. N : n - 1 \in S => n \in S
    <3> HIDE DEF Op
    <3> SUFFICES ASSUME NEW n \in 1 .. N, n - 1 \in S PROVE n \in S
      OBVIOUS
    <3>1. r[n - 1] \in A
      OBVIOUS
    <3> QED BY <1>7, <1>3, <3>1
  <2> HIDE DEF S
  <2>3. \A n \in 0 .. N : n \in S
    BY <2>1, <2>2, InductionUpTo
  <2> QED BY <2>3 DEF S
<1> HIDE DEF r, it
<1> QED BY <1>1, <1>6, <1>7, <1>8, <1>9 DEF ClaimedSteps

(* The HTML, one block after the other.                                      *)
RewrittenSteps(r, A, N, L, blocks, patches, html) ==
  /\ r[0] = html /\ r[N] = RewrittenOf(html, blocks, patches, L)
  /\ \A n \in 0 .. N : r[n] \in A
  /\ \A n \in 1 .. N : r[n] = Splice(r[n - 1], blocks[L[n]], patches[L[n]])

LEMMA RewrittenRun ==
  ASSUME NEW A, NEW N \in Nat, NEW L, DOMAIN L = 1 .. N, NEW blocks, NEW patches, NEW html,
         html \in A, \A out \in A, n \in 1 .. N : Splice(out, blocks[L[n]], patches[L[n]]) \in A
  PROVE  \E r : RewrittenSteps(r, A, N, L, blocks, patches, html)
<1> DEFINE Op(out, i) == Splice(out, blocks[i], patches[i])
           Body(h) == [s \in SUBSET (1 .. N) |->
                        IF s = {} THEN html ELSE Op(h[s \ {Max(s)}], L[Max(s)])]
           it == CHOOSE h : h = Body(h)
           step == [x \in A \X Nat |-> IF x[2] \in 1 .. N THEN Op(x[1], L[x[2]]) ELSE x[1]]
<1>1. RewrittenOf(html, blocks, patches, L) = it[1 .. N]
  BY DEF RewrittenOf, FoldLeft, MapThenFoldSet
<1>2. it = Body(it)
  <2>1. step \in [A \X Nat -> A]
    <3> HIDE DEF Op
    <3> SUFFICES ASSUME NEW x \in A \X Nat PROVE step[x] \in A
      OBVIOUS
    <3> QED BY DEF Op
  <2>2. PICK f \in [SUBSET (1 .. N) -> A] :
          \A S \in SUBSET (1 .. N) : f[S] = Taken(f, html, step, S)
    <3> HIDE DEF step
    <3>1. Leads(A, html, step, N)
      BY <2>1, StepsLead
    <3> QED BY <3>1 DEF Leads
  <2>3. ASSUME NEW S \in SUBSET (1 .. N), S # {} PROVE f[S] = Op(f[S \ {Max(S)}], L[Max(S)])
    <3> DEFINE x == <<f[S \ {Max(S)}], Max(S)>>
    <3>1. Max(S) \in S
      BY <2>3, PlacesHaveLast
    <3>2. Max(S) \in 1 .. N /\ Max(S) \in Nat /\ f[S \ {Max(S)}] \in A
      <4>1. S \ {Max(S)} \in SUBSET (1 .. N) /\ Max(S) \in 1 .. N
        BY <3>1
      <4> HIDE DEF step
      <4> QED BY <2>2, <4>1
    <3>3. f[S] = step[x]
      BY <2>2, <2>3 DEF Taken
    <3>4. x \in A \X Nat /\ x[1] = f[S \ {Max(S)}] /\ x[2] = Max(S)
      BY <3>2
    <3>5. step[x] = Op(x[1], L[x[2]])
      <4> HIDE DEF Op, x
      <4> QED BY <3>2, <3>4
    <3> HIDE DEF Op, step, x
    <3> QED BY <3>3, <3>4, <3>5
  <2>4. \A S \in SUBSET (1 .. N) : S = {} => f[S] = html
    BY <2>2 DEF Taken
  <2>5. f = Body(f)
    <3> HIDE DEF Op, step
    <3> QED BY <2>3, <2>4
  <2> HIDE DEF Body
  <2> QED BY <2>5
<1>3. \A x \in A, n \in 1 .. N : Op(x, L[n]) \in A
  OBVIOUS
<1> DEFINE r == [n \in 0 .. N |-> it[1 .. n]]
<1>4. it[{}] = html
  <2> HIDE DEF Op, it
  <2> QED BY <1>2
<1>5. ASSUME NEW n \in 1 .. N PROVE it[1 .. n] = Op(it[1 .. n - 1], L[n])
  <2> HIDE DEF Op, it
  <2>1. 1 .. n \in SUBSET (1 .. N) /\ 1 .. n # {} /\ Max(1 .. n) = n /\ (1 .. n) \ {n} = 1 .. n - 1
    BY PrefixSteps
  <2> QED BY <1>2, <2>1
<1>6. r[0] = html
  <2>1. 0 \in 0 .. N /\ 1 .. 0 = {}
    OBVIOUS
  <2> HIDE DEF it
  <2> QED BY <1>4, <2>1
<1>7. \A n \in 1 .. N : r[n] = Op(r[n - 1], L[n])
  <2> HIDE DEF Op, it
  <2> QED BY <1>5
<1>8. r[N] = it[1 .. N]
  OBVIOUS
<1>9. \A n \in 0 .. N : r[n] \in A
  <2> DEFINE S == {n \in Nat : r[n] \in A}
  <2> HIDE DEF r
  <2>1. 0 \in S
    BY <1>6
  <2>2. \A n \in 1 .. N : n - 1 \in S => n \in S
    <3> HIDE DEF Op
    <3> SUFFICES ASSUME NEW n \in 1 .. N, n - 1 \in S PROVE n \in S
      OBVIOUS
    <3>1. r[n - 1] \in A
      OBVIOUS
    <3> QED BY <1>7, <1>3, <3>1
  <2> HIDE DEF S
  <2>3. \A n \in 0 .. N : n \in S
    BY <2>1, <2>2, InductionUpTo
  <2> QED BY <2>3 DEF S
<1> HIDE DEF r, it
<1> QED BY <1>1, <1>6, <1>7, <1>8, <1>9 DEF RewrittenSteps

(* The HTML it should be, byte by byte.                                      *)
ToldSteps(r, A, N, L, html, blocks, patches, kept) ==
  /\ r[0] = << >> /\ r[N] = ToldOf(html, blocks, patches, kept, L)
  /\ \A n \in 0 .. N : r[n] \in A
  /\ \A n \in 1 .. N : r[n] = r[n - 1] \o Instead(html, blocks, patches, kept, L[n])

LEMMA ToldRun ==
  ASSUME NEW A, NEW N \in Nat, NEW L, DOMAIN L = 1 .. N, NEW html, NEW blocks, NEW patches, NEW kept,
         << >> \in A,
         \A out \in A, n \in 1 .. N : out \o Instead(html, blocks, patches, kept, L[n]) \in A
  PROVE  \E r : ToldSteps(r, A, N, L, html, blocks, patches, kept)
<1> DEFINE Op(out, p) == out \o Instead(html, blocks, patches, kept, p)
           Body(h) == [s \in SUBSET (1 .. N) |->
                        IF s = {} THEN << >> ELSE Op(h[s \ {Max(s)}], L[Max(s)])]
           it == CHOOSE h : h = Body(h)
           step == [x \in A \X Nat |-> IF x[2] \in 1 .. N THEN Op(x[1], L[x[2]]) ELSE x[1]]
<1>1. ToldOf(html, blocks, patches, kept, L) = it[1 .. N]
  BY DEF ToldOf, FoldLeft, MapThenFoldSet
<1>2. it = Body(it)
  <2>1. step \in [A \X Nat -> A]
    <3> HIDE DEF Op
    <3> SUFFICES ASSUME NEW x \in A \X Nat PROVE step[x] \in A
      OBVIOUS
    <3> QED BY DEF Op
  <2>2. PICK f \in [SUBSET (1 .. N) -> A] :
          \A S \in SUBSET (1 .. N) : f[S] = Taken(f, << >>, step, S)
    <3> HIDE DEF step
    <3>1. Leads(A, << >>, step, N)
      BY <2>1, StepsLead
    <3> QED BY <3>1 DEF Leads
  <2>3. ASSUME NEW S \in SUBSET (1 .. N), S # {} PROVE f[S] = Op(f[S \ {Max(S)}], L[Max(S)])
    <3> DEFINE x == <<f[S \ {Max(S)}], Max(S)>>
    <3>1. Max(S) \in S
      BY <2>3, PlacesHaveLast
    <3>2. Max(S) \in 1 .. N /\ Max(S) \in Nat /\ f[S \ {Max(S)}] \in A
      <4>1. S \ {Max(S)} \in SUBSET (1 .. N) /\ Max(S) \in 1 .. N
        BY <3>1
      <4> HIDE DEF step
      <4> QED BY <2>2, <4>1
    <3>3. f[S] = step[x]
      BY <2>2, <2>3 DEF Taken
    <3>4. x \in A \X Nat /\ x[1] = f[S \ {Max(S)}] /\ x[2] = Max(S)
      BY <3>2
    <3>5. step[x] = Op(x[1], L[x[2]])
      <4> HIDE DEF Op, x
      <4> QED BY <3>2, <3>4
    <3> HIDE DEF Op, step, x
    <3> QED BY <3>3, <3>4, <3>5
  <2>4. \A S \in SUBSET (1 .. N) : S = {} => f[S] = << >>
    BY <2>2 DEF Taken
  <2>5. f = Body(f)
    <3> HIDE DEF Op, step
    <3> QED BY <2>3, <2>4
  <2> HIDE DEF Body
  <2> QED BY <2>5
<1>3. \A x \in A, n \in 1 .. N : Op(x, L[n]) \in A
  OBVIOUS
<1> DEFINE r == [n \in 0 .. N |-> it[1 .. n]]
<1>4. it[{}] = << >>
  <2> HIDE DEF Op, it
  <2> QED BY <1>2
<1>5. ASSUME NEW n \in 1 .. N PROVE it[1 .. n] = Op(it[1 .. n - 1], L[n])
  <2> HIDE DEF Op, it
  <2>1. 1 .. n \in SUBSET (1 .. N) /\ 1 .. n # {} /\ Max(1 .. n) = n /\ (1 .. n) \ {n} = 1 .. n - 1
    BY PrefixSteps
  <2> QED BY <1>2, <2>1
<1>6. r[0] = << >>
  <2>1. 0 \in 0 .. N /\ 1 .. 0 = {}
    OBVIOUS
  <2> HIDE DEF it
  <2> QED BY <1>4, <2>1
<1>7. \A n \in 1 .. N : r[n] = Op(r[n - 1], L[n])
  <2> HIDE DEF Op, it
  <2> QED BY <1>5
<1>8. r[N] = it[1 .. N]
  OBVIOUS
<1>9. \A n \in 0 .. N : r[n] \in A
  <2> DEFINE S == {n \in Nat : r[n] \in A}
  <2> HIDE DEF r
  <2>1. 0 \in S
    BY <1>6
  <2>2. \A n \in 1 .. N : n - 1 \in S => n \in S
    <3> HIDE DEF Op
    <3> SUFFICES ASSUME NEW n \in 1 .. N, n - 1 \in S PROVE n \in S
      OBVIOUS
    <3>1. r[n - 1] \in A
      OBVIOUS
    <3> QED BY <1>7, <1>3, <3>1
  <2> HIDE DEF S
  <2>3. \A n \in 0 .. N : n \in S
    BY <2>1, <2>2, InductionUpTo
  <2> QED BY <2>3 DEF S
<1> HIDE DEF r, it
<1> QED BY <1>1, <1>6, <1>7, <1>8, <1>9 DEF ToldSteps

(* The accepted texts, patch by patch.                                       *)
AcceptedSteps(r, A, N, L, map) ==
  /\ r[0] = map /\ r[N] = AcceptedOf(map, L)
  /\ \A n \in 0 .. N : r[n] \in A
  /\ \A n \in 1 .. N : r[n] = Accepted(r[n - 1], L[n])

LEMMA AcceptedRun ==
  ASSUME NEW A, NEW N \in Nat, NEW L, DOMAIN L = 1 .. N, NEW map,
         map \in A, \A m \in A, n \in 1 .. N : Accepted(m, L[n]) \in A
  PROVE  \E r : AcceptedSteps(r, A, N, L, map)
<1> DEFINE Op(m, p) == Accepted(m, p)
           Body(h) == [s \in SUBSET (1 .. N) |->
                        IF s = {} THEN map ELSE Op(h[s \ {Max(s)}], L[Max(s)])]
           it == CHOOSE h : h = Body(h)
           step == [x \in A \X Nat |-> IF x[2] \in 1 .. N THEN Op(x[1], L[x[2]]) ELSE x[1]]
<1>1. AcceptedOf(map, L) = it[1 .. N]
  BY DEF AcceptedOf, FoldLeft, MapThenFoldSet
<1>2. it = Body(it)
  <2>1. step \in [A \X Nat -> A]
    <3> HIDE DEF Op
    <3> SUFFICES ASSUME NEW x \in A \X Nat PROVE step[x] \in A
      OBVIOUS
    <3> QED BY DEF Op
  <2>2. PICK f \in [SUBSET (1 .. N) -> A] :
          \A S \in SUBSET (1 .. N) : f[S] = Taken(f, map, step, S)
    <3> HIDE DEF step
    <3>1. Leads(A, map, step, N)
      BY <2>1, StepsLead
    <3> QED BY <3>1 DEF Leads
  <2>3. ASSUME NEW S \in SUBSET (1 .. N), S # {} PROVE f[S] = Op(f[S \ {Max(S)}], L[Max(S)])
    <3> DEFINE x == <<f[S \ {Max(S)}], Max(S)>>
    <3>1. Max(S) \in S
      BY <2>3, PlacesHaveLast
    <3>2. Max(S) \in 1 .. N /\ Max(S) \in Nat /\ f[S \ {Max(S)}] \in A
      <4>1. S \ {Max(S)} \in SUBSET (1 .. N) /\ Max(S) \in 1 .. N
        BY <3>1
      <4> HIDE DEF step
      <4> QED BY <2>2, <4>1
    <3>3. f[S] = step[x]
      BY <2>2, <2>3 DEF Taken
    <3>4. x \in A \X Nat /\ x[1] = f[S \ {Max(S)}] /\ x[2] = Max(S)
      BY <3>2
    <3>5. step[x] = Op(x[1], L[x[2]])
      <4> HIDE DEF Op, x
      <4> QED BY <3>2, <3>4
    <3> HIDE DEF Op, step, x
    <3> QED BY <3>3, <3>4, <3>5
  <2>4. \A S \in SUBSET (1 .. N) : S = {} => f[S] = map
    BY <2>2 DEF Taken
  <2>5. f = Body(f)
    <3> HIDE DEF Op, step
    <3> QED BY <2>3, <2>4
  <2> HIDE DEF Body
  <2> QED BY <2>5
<1>3. \A x \in A, n \in 1 .. N : Op(x, L[n]) \in A
  OBVIOUS
<1> DEFINE r == [n \in 0 .. N |-> it[1 .. n]]
<1>4. it[{}] = map
  <2> HIDE DEF Op, it
  <2> QED BY <1>2
<1>5. ASSUME NEW n \in 1 .. N PROVE it[1 .. n] = Op(it[1 .. n - 1], L[n])
  <2> HIDE DEF Op, it
  <2>1. 1 .. n \in SUBSET (1 .. N) /\ 1 .. n # {} /\ Max(1 .. n) = n /\ (1 .. n) \ {n} = 1 .. n - 1
    BY PrefixSteps
  <2> QED BY <1>2, <2>1
<1>6. r[0] = map
  <2>1. 0 \in 0 .. N /\ 1 .. 0 = {}
    OBVIOUS
  <2> HIDE DEF it
  <2> QED BY <1>4, <2>1
<1>7. \A n \in 1 .. N : r[n] = Op(r[n - 1], L[n])
  <2> HIDE DEF Op, it
  <2> QED BY <1>5
<1>8. r[N] = it[1 .. N]
  OBVIOUS
<1>9. \A n \in 0 .. N : r[n] \in A
  <2> DEFINE S == {n \in Nat : r[n] \in A}
  <2> HIDE DEF r
  <2>1. 0 \in S
    BY <1>6
  <2>2. \A n \in 1 .. N : n - 1 \in S => n \in S
    <3> HIDE DEF Op
    <3> SUFFICES ASSUME NEW n \in 1 .. N, n - 1 \in S PROVE n \in S
      OBVIOUS
    <3>1. r[n - 1] \in A
      OBVIOUS
    <3> QED BY <1>7, <1>3, <3>1
  <2> HIDE DEF S
  <2>3. \A n \in 0 .. N : n \in S
    BY <2>1, <2>2, InductionUpTo
  <2> QED BY <2>3 DEF S
<1> HIDE DEF r, it
<1> QED BY <1>1, <1>6, <1>7, <1>8, <1>9 DEF AcceptedSteps

(* The accepted texts, call by call.                                         *)
AnsweredSteps(r, A, N, L, map) ==
  /\ r[0] = map /\ r[N] = AnsweredOf(map, L)
  /\ \A n \in 0 .. N : r[n] \in A
  /\ \A n \in 1 .. N : r[n] = Answered(r[n - 1], L[n])

LEMMA AnsweredRun ==
  ASSUME NEW A, NEW N \in Nat, NEW L, DOMAIN L = 1 .. N, NEW map,
         map \in A, \A m \in A, n \in 1 .. N : Answered(m, L[n]) \in A
  PROVE  \E r : AnsweredSteps(r, A, N, L, map)
<1> DEFINE Op(m, answer) == Answered(m, answer)
           Body(h) == [s \in SUBSET (1 .. N) |->
                        IF s = {} THEN map ELSE Op(h[s \ {Max(s)}], L[Max(s)])]
           it == CHOOSE h : h = Body(h)
           step == [x \in A \X Nat |-> IF x[2] \in 1 .. N THEN Op(x[1], L[x[2]]) ELSE x[1]]
<1>1. AnsweredOf(map, L) = it[1 .. N]
  BY DEF AnsweredOf, FoldLeft, MapThenFoldSet
<1>2. it = Body(it)
  <2>1. step \in [A \X Nat -> A]
    <3> HIDE DEF Op
    <3> SUFFICES ASSUME NEW x \in A \X Nat PROVE step[x] \in A
      OBVIOUS
    <3> QED BY DEF Op
  <2>2. PICK f \in [SUBSET (1 .. N) -> A] :
          \A S \in SUBSET (1 .. N) : f[S] = Taken(f, map, step, S)
    <3> HIDE DEF step
    <3>1. Leads(A, map, step, N)
      BY <2>1, StepsLead
    <3> QED BY <3>1 DEF Leads
  <2>3. ASSUME NEW S \in SUBSET (1 .. N), S # {} PROVE f[S] = Op(f[S \ {Max(S)}], L[Max(S)])
    <3> DEFINE x == <<f[S \ {Max(S)}], Max(S)>>
    <3>1. Max(S) \in S
      BY <2>3, PlacesHaveLast
    <3>2. Max(S) \in 1 .. N /\ Max(S) \in Nat /\ f[S \ {Max(S)}] \in A
      <4>1. S \ {Max(S)} \in SUBSET (1 .. N) /\ Max(S) \in 1 .. N
        BY <3>1
      <4> HIDE DEF step
      <4> QED BY <2>2, <4>1
    <3>3. f[S] = step[x]
      BY <2>2, <2>3 DEF Taken
    <3>4. x \in A \X Nat /\ x[1] = f[S \ {Max(S)}] /\ x[2] = Max(S)
      BY <3>2
    <3>5. step[x] = Op(x[1], L[x[2]])
      <4> HIDE DEF Op, x
      <4> QED BY <3>2, <3>4
    <3> HIDE DEF Op, step, x
    <3> QED BY <3>3, <3>4, <3>5
  <2>4. \A S \in SUBSET (1 .. N) : S = {} => f[S] = map
    BY <2>2 DEF Taken
  <2>5. f = Body(f)
    <3> HIDE DEF Op, step
    <3> QED BY <2>3, <2>4
  <2> HIDE DEF Body
  <2> QED BY <2>5
<1>3. \A x \in A, n \in 1 .. N : Op(x, L[n]) \in A
  OBVIOUS
<1> DEFINE r == [n \in 0 .. N |-> it[1 .. n]]
<1>4. it[{}] = map
  <2> HIDE DEF Op, it
  <2> QED BY <1>2
<1>5. ASSUME NEW n \in 1 .. N PROVE it[1 .. n] = Op(it[1 .. n - 1], L[n])
  <2> HIDE DEF Op, it
  <2>1. 1 .. n \in SUBSET (1 .. N) /\ 1 .. n # {} /\ Max(1 .. n) = n /\ (1 .. n) \ {n} = 1 .. n - 1
    BY PrefixSteps
  <2> QED BY <1>2, <2>1
<1>6. r[0] = map
  <2>1. 0 \in 0 .. N /\ 1 .. 0 = {}
    OBVIOUS
  <2> HIDE DEF it
  <2> QED BY <1>4, <2>1
<1>7. \A n \in 1 .. N : r[n] = Op(r[n - 1], L[n])
  <2> HIDE DEF Op, it
  <2> QED BY <1>5
<1>8. r[N] = it[1 .. N]
  OBVIOUS
<1>9. \A n \in 0 .. N : r[n] \in A
  <2> DEFINE S == {n \in Nat : r[n] \in A}
  <2> HIDE DEF r
  <2>1. 0 \in S
    BY <1>6
  <2>2. \A n \in 1 .. N : n - 1 \in S => n \in S
    <3> HIDE DEF Op
    <3> SUFFICES ASSUME NEW n \in 1 .. N, n - 1 \in S PROVE n \in S
      OBVIOUS
    <3>1. r[n - 1] \in A
      OBVIOUS
    <3> QED BY <1>7, <1>3, <3>1
  <2> HIDE DEF S
  <2>3. \A n \in 0 .. N : n \in S
    BY <2>1, <2>2, InductionUpTo
  <2> QED BY <2>3 DEF S
<1> HIDE DEF r, it
<1> QED BY <1>1, <1>6, <1>7, <1>8, <1>9 DEF AnsweredSteps

(* The document, text by text.                                               *)
AppliedSteps(r, A, N, L, start) ==
  /\ r[0] = start /\ r[N] = applyDocPatches(start, L)
  /\ \A n \in 0 .. N : r[n] \in A
  /\ \A n \in 1 .. N : r[n] = [r[n - 1] EXCEPT ![FieldAt[L[n].path]] = L[n].text]

LEMMA AppliedRun ==
  ASSUME NEW A, NEW N \in Nat, NEW L, DOMAIN L = 1 .. N, NEW start,
         start \in A, \A d \in A, n \in 1 .. N : [d EXCEPT ![FieldAt[L[n].path]] = L[n].text] \in A
  PROVE  \E r : AppliedSteps(r, A, N, L, start)
<1> DEFINE Op(d, p) == [d EXCEPT ![FieldAt[p.path]] = p.text]
           Body(h) == [s \in SUBSET (1 .. N) |->
                        IF s = {} THEN start ELSE Op(h[s \ {Max(s)}], L[Max(s)])]
           it == CHOOSE h : h = Body(h)
           step == [x \in A \X Nat |-> IF x[2] \in 1 .. N THEN Op(x[1], L[x[2]]) ELSE x[1]]
<1>1. applyDocPatches(start, L) = it[1 .. N]
  BY DEF applyDocPatches, FoldLeft, MapThenFoldSet
<1>2. it = Body(it)
  <2>1. step \in [A \X Nat -> A]
    <3> HIDE DEF Op
    <3> SUFFICES ASSUME NEW x \in A \X Nat PROVE step[x] \in A
      OBVIOUS
    <3> QED BY DEF Op
  <2>2. PICK f \in [SUBSET (1 .. N) -> A] :
          \A S \in SUBSET (1 .. N) : f[S] = Taken(f, start, step, S)
    <3> HIDE DEF step
    <3>1. Leads(A, start, step, N)
      BY <2>1, StepsLead
    <3> QED BY <3>1 DEF Leads
  <2>3. ASSUME NEW S \in SUBSET (1 .. N), S # {} PROVE f[S] = Op(f[S \ {Max(S)}], L[Max(S)])
    <3> DEFINE x == <<f[S \ {Max(S)}], Max(S)>>
    <3>1. Max(S) \in S
      BY <2>3, PlacesHaveLast
    <3>2. Max(S) \in 1 .. N /\ Max(S) \in Nat /\ f[S \ {Max(S)}] \in A
      <4>1. S \ {Max(S)} \in SUBSET (1 .. N) /\ Max(S) \in 1 .. N
        BY <3>1
      <4> HIDE DEF step
      <4> QED BY <2>2, <4>1
    <3>3. f[S] = step[x]
      BY <2>2, <2>3 DEF Taken
    <3>4. x \in A \X Nat /\ x[1] = f[S \ {Max(S)}] /\ x[2] = Max(S)
      BY <3>2
    <3>5. step[x] = Op(x[1], L[x[2]])
      <4> HIDE DEF Op, x
      <4> QED BY <3>2, <3>4
    <3> HIDE DEF Op, step, x
    <3> QED BY <3>3, <3>4, <3>5
  <2>4. \A S \in SUBSET (1 .. N) : S = {} => f[S] = start
    BY <2>2 DEF Taken
  <2>5. f = Body(f)
    <3> HIDE DEF Op, step
    <3> QED BY <2>3, <2>4
  <2> HIDE DEF Body
  <2> QED BY <2>5
<1>3. \A x \in A, n \in 1 .. N : Op(x, L[n]) \in A
  OBVIOUS
<1> DEFINE r == [n \in 0 .. N |-> it[1 .. n]]
<1>4. it[{}] = start
  <2> HIDE DEF Op, it
  <2> QED BY <1>2
<1>5. ASSUME NEW n \in 1 .. N PROVE it[1 .. n] = Op(it[1 .. n - 1], L[n])
  <2> HIDE DEF Op, it
  <2>1. 1 .. n \in SUBSET (1 .. N) /\ 1 .. n # {} /\ Max(1 .. n) = n /\ (1 .. n) \ {n} = 1 .. n - 1
    BY PrefixSteps
  <2> QED BY <1>2, <2>1
<1>6. r[0] = start
  <2>1. 0 \in 0 .. N /\ 1 .. 0 = {}
    OBVIOUS
  <2> HIDE DEF it
  <2> QED BY <1>4, <2>1
<1>7. \A n \in 1 .. N : r[n] = Op(r[n - 1], L[n])
  <2> HIDE DEF Op, it
  <2> QED BY <1>5
<1>8. r[N] = it[1 .. N]
  OBVIOUS
<1>9. \A n \in 0 .. N : r[n] \in A
  <2> DEFINE S == {n \in Nat : r[n] \in A}
  <2> HIDE DEF r
  <2>1. 0 \in S
    BY <1>6
  <2>2. \A n \in 1 .. N : n - 1 \in S => n \in S
    <3> HIDE DEF Op
    <3> SUFFICES ASSUME NEW n \in 1 .. N, n - 1 \in S PROVE n \in S
      OBVIOUS
    <3>1. r[n - 1] \in A
      OBVIOUS
    <3> QED BY <1>7, <1>3, <3>1
  <2> HIDE DEF S
  <2>3. \A n \in 0 .. N : n \in S
    BY <2>1, <2>2, InductionUpTo
  <2> QED BY <2>3 DEF S
<1> HIDE DEF r, it
<1> QED BY <1>1, <1>6, <1>7, <1>8, <1>9 DEF AppliedSteps

-----------------------------------------------------------------------------
(* The layouts, by place.                                                    *)
LEMMA LayoutFacts ==
  ASSUME NEW blocks \in Layout
  PROVE  /\ Len(blocks) \in Nat /\ DOMAIN blocks = 1 .. Len(blocks)
         /\ \A i \in DOMAIN blocks :
              /\ blocks[i].start \in Nat /\ blocks[i].end \in Nat
              /\ blocks[i].start < blocks[i].end /\ blocks[i].end <= HtmlLength
         /\ \A i, j \in DOMAIN blocks : i < j =>
              /\ blocks[i].start < blocks[j].start
              /\ blocks[i].end <= blocks[j].start \/ blocks[j].end <= blocks[i].end
BY PatchAssumption

(* Seen from the end, blocks come by falling index, each once.               *)
LEMMA LastComesFirst ==
  ASSUME NEW blocks \in Layout, NEW which \in SUBSET DOMAIN blocks
  PROVE  \E C \in Nat :
           /\ LastFirst(blocks, which) \in [1 .. C -> which]
           /\ \A m, n \in 1 .. C : m < n => LastFirst(blocks, which)[m] > LastFirst(blocks, which)[n]
           /\ \A i \in which : \E n \in 1 .. C : LastFirst(blocks, which)[n] = i
<1> DEFINE C == Cardinality(which)
           rank(i) == Cardinality({j \in which : blocks[j].start >= blocks[i].start})
           L == LastFirst(blocks, which)
<1>1. which \in SUBSET Nat /\ IsFiniteSet(which) /\ C \in Nat
  <2>1. DOMAIN blocks \in SUBSET Nat /\ IsFiniteSet(DOMAIN blocks)
    <3>1. Len(blocks) \in Nat /\ DOMAIN blocks = 1 .. Len(blocks)
      BY LayoutFacts
    <3>2. IsFiniteSet(1 .. Len(blocks))
      BY <3>1, FS_Interval
    <3> QED BY <3>1, <3>2
  <2> QED BY <2>1, FS_Subset, FS_CardinalityType
<1>2. ASSUME NEW i \in which PROVE rank(i) = C + 1 - Rank(which, i) /\ Rank(which, i) \in 1 .. C
  <2>1. {j \in which : blocks[j].start >= blocks[i].start} = which \ Below(which, i)
    <3>1. ASSUME NEW j \in which PROVE blocks[j].start >= blocks[i].start <=> ~(j < i)
      <4>1. i \in DOMAIN blocks /\ j \in DOMAIN blocks /\ i \in Nat /\ j \in Nat
        BY <1>1
      <4>2. j < i => blocks[j].start < blocks[i].start
        BY <4>1, LayoutFacts
      <4>3. i < j => blocks[i].start < blocks[j].start
        BY <4>1, LayoutFacts
      <4>4. blocks[i].start \in Nat /\ blocks[j].start \in Nat
        BY <4>1, LayoutFacts
      <4> QED BY <4>1, <4>2, <4>3, <4>4
    <3> QED BY <3>1 DEF Below
  <2>2. IsFiniteSet(Upto(which, i)) /\ i \in Upto(which, i) /\ Below(which, i) = Upto(which, i) \ {i}
    <3>1. Upto(which, i) \in SUBSET which
      BY DEF Upto
    <3>2. \A j \in which : j <= i /\ j # i <=> j < i
      BY <1>1
    <3> QED BY <1>1, <3>1, <3>2, FS_Subset DEF Upto, Below
  <2>3. Cardinality(Below(which, i)) = Rank(which, i) - 1
    BY <2>2, FS_RemoveElement DEF Rank
  <2>4. Rank(which, i) \in 1 .. C
    BY <1>1, RankGrows
  <2>5. Cardinality(which \ Below(which, i)) = C - Cardinality(which \intersect Below(which, i))
    BY <1>1, FS_Difference
  <2>6. which \intersect Below(which, i) = Below(which, i)
    BY DEF Below
  <2>7. rank(i) = C - (Rank(which, i) - 1)
    BY <2>1, <2>3, <2>5, <2>6
  <2> HIDE DEF rank, C
  <2> QED BY <1>1, <2>4, <2>7
<1>3. L = [n \in 1 .. C |-> CHOOSE i \in which : rank(i) = n]
  BY DEF LastFirst, FromEnd
<1>4. ASSUME NEW n \in 1 .. C PROVE L[n] \in which /\ Rank(which, L[n]) = C + 1 - n
  <2> HIDE DEF rank
  <2>1. C + 1 - n \in 1 .. C
    BY <1>1
  <2>2. Nth(which, C + 1 - n) \in which /\ Rank(which, Nth(which, C + 1 - n)) = C + 1 - n
    BY <1>1, <2>1, NthPlace
  <2>3. rank(Nth(which, C + 1 - n)) = n
    BY <1>1, <1>2, <2>2
  <2>4. L[n] \in which /\ rank(L[n]) = n
    BY <1>3, <2>2, <2>3
  <2> HIDE DEF L, C
  <2>5. rank(L[n]) = C + 1 - Rank(which, L[n]) /\ Rank(which, L[n]) \in 1 .. C
    BY <1>2, <2>4
  <2> QED BY <1>1, <2>4, <2>5
<1>5. ASSUME NEW m \in 1 .. C, NEW n \in 1 .. C, m < n PROVE L[m] > L[n]
  <2> HIDE DEF L, C
  <2>1. L[m] \in which /\ L[n] \in which /\ Rank(which, L[m]) > Rank(which, L[n])
    BY <1>1, <1>4, <1>5
  <2>2. L[m] \in Nat /\ L[n] \in Nat
    BY <1>1, <2>1
  <2>3. L[m] < L[n] => Rank(which, L[m]) < Rank(which, L[n])
    BY <1>1, <2>1, RankGrows
  <2>4. Rank(which, L[m]) \in Nat /\ Rank(which, L[n]) \in Nat
    BY <1>1, <2>1, RankGrows
  <2> QED BY <2>1, <2>2, <2>3, <2>4
<1>6. ASSUME NEW i \in which PROVE \E n \in 1 .. C : L[n] = i
  <2> HIDE DEF L, C
  <2>1. Rank(which, i) \in 1 .. C
    BY <1>2
  <2>2. C + 1 - Rank(which, i) \in 1 .. C
    BY <1>1, <2>1
  <2> DEFINE n == C + 1 - Rank(which, i)
  <2>3. L[n] \in which /\ Rank(which, L[n]) = Rank(which, i)
    BY <1>1, <1>4, <2>1, <2>2
  <2>4. L[n] \in Nat /\ i \in Nat
    BY <1>1, <2>3
  <2>5. ~(L[n] < i) /\ ~(i < L[n])
    <3>1. L[n] < i => Rank(which, L[n]) < Rank(which, i)
      BY <1>1, <2>3, RankGrows
    <3>2. i < L[n] => Rank(which, i) < Rank(which, L[n])
      BY <1>1, <2>3, RankGrows
    <3> QED BY <2>1, <2>3, <3>1, <3>2
  <2>6. L[n] = i
    BY <2>4, <2>5
  <2> QED BY <2>2, <2>6
<1>7. L \in [1 .. C -> which]
  BY <1>3, <1>4
<1> HIDE DEF L, C
<1> QED BY <1>1, <1>5, <1>6, <1>7 DEF L, C

(* Of two blocks one lies behind the other or within it.                     *)
Within(blocks, j, i) == blocks[i].start <= blocks[j].start /\ blocks[j].end <= blocks[i].end

LEMMA BlocksNest ==
  ASSUME NEW blocks \in Layout, NEW i \in DOMAIN blocks, NEW j \in DOMAIN blocks
  PROVE  /\ i < j /\ Overlap(blocks[j], blocks[i]) => Within(blocks, j, i)
         /\ i < j /\ Within(blocks, j, i) => Overlap(blocks[j], blocks[i])
         /\ j < i => ~Within(blocks, j, i)
         /\ i < j /\ ~Within(blocks, j, i) => blocks[i].end <= blocks[j].start
         /\ \A k \in DOMAIN blocks :
              Within(blocks, k, j) /\ Within(blocks, j, i) => Within(blocks, k, i)
<1>1. i \in Nat /\ j \in Nat
  BY LayoutFacts
<1>2. /\ blocks[i].start \in Nat /\ blocks[i].end \in Nat /\ blocks[i].start < blocks[i].end
      /\ blocks[j].start \in Nat /\ blocks[j].end \in Nat /\ blocks[j].start < blocks[j].end
  BY LayoutFacts
<1>3. i < j => /\ blocks[i].start < blocks[j].start
               /\ blocks[i].end <= blocks[j].start \/ blocks[j].end <= blocks[i].end
  BY LayoutFacts
<1>4. j < i => blocks[j].start < blocks[i].start
  BY LayoutFacts
<1>5. \A k \in DOMAIN blocks : blocks[k].start \in Nat /\ blocks[k].end \in Nat
  BY LayoutFacts
<1> QED BY <1>1, <1>2, <1>3, <1>4, <1>5 DEF Overlap, Within

(* A block with others in it has an innermost one in it, behind its start.   *)
LEMMA InnermostWithin ==
  ASSUME NEW blocks \in Layout, NEW which \in SUBSET DOMAIN blocks,
         NEW i \in which, i \notin Innermost(blocks, which)
  PROVE  \E k \in Innermost(blocks, which) : i < k /\ Within(blocks, k, i)
<1> DEFINE S == {j \in which : i < j /\ Within(blocks, j, i)}
<1>1. Len(blocks) \in Nat /\ DOMAIN blocks = 1 .. Len(blocks)
  BY LayoutFacts
<1>2. S \in SUBSET (1 .. Len(blocks)) /\ S # {}
  <2>1. PICK j \in which \ {i} : Within(blocks, j, i)
    BY DEF Innermost, Within
  <2>2. ~(j < i)
    BY <2>1, BlocksNest
  <2>3. i \in Nat /\ j \in Nat /\ j # i
    BY <1>1, <2>1
  <2>4. i < j
    BY <2>2, <2>3
  <2> QED BY <1>1, <2>1, <2>4
<1> DEFINE k == Max(S)
<1>3. k \in S /\ \A y \in S : y <= k
  <2> HIDE DEF S
  <2> QED BY <1>1, <1>2, PlacesHaveLast
<1> HIDE DEF k
<1>4. k \in which /\ i < k /\ Within(blocks, k, i)
  BY <1>3
<1>5. k \in Innermost(blocks, which)
  <2> SUFFICES ASSUME NEW j \in which \ {k}, Within(blocks, j, k) PROVE FALSE
    BY <1>4 DEF Innermost, Within
  <2>1. ~(j < k) /\ Within(blocks, j, i)
    BY <1>4, BlocksNest
  <2>2. i \in Nat /\ j \in Nat /\ k \in Nat /\ j # k
    BY <1>1, <1>4
  <2>3. k < j /\ i < j
    BY <1>4, <2>1, <2>2
  <2>4. j \in S
    BY <2>1, <2>3
  <2> QED BY <1>3, <2>2, <2>3, <2>4
<1> QED BY <1>4, <1>5

(* Taking blocks from the end and leaving those that overlap one already     *)
(* taken keeps exactly the innermost ones.                                   *)
LEMMA ClaimedInnermost ==
  ASSUME NEW blocks \in Layout, NEW which \in SUBSET DOMAIN blocks
  PROVE  Claimed(blocks, which) = Innermost(blocks, which)
<1> DEFINE L == LastFirst(blocks, which)
           I == Innermost(blocks, which)
           A == SUBSET which
<1>1. PICK C \in Nat : /\ L \in [1 .. C -> which]
                       /\ \A m, n \in 1 .. C : m < n => L[m] > L[n]
                       /\ \A i \in which : \E n \in 1 .. C : L[n] = i
  <2> HIDE DEF L
  <2> QED BY LastComesFirst DEF L
<1> DEFINE Seen(n) == {L[m] : m \in 1 .. n}
<1>2. PICK r : /\ r[0] = {}
               /\ \A n \in 0 .. C : r[n] \in A
               /\ \A n \in 1 .. C : r[n] = Claim(blocks, r[n - 1], L[n])
               /\ Claimed(blocks, which) = r[C]
  <2>1. DOMAIN L = 1 .. C /\ {} \in A
    BY <1>1
  <2>2. \A kept \in A, n \in 1 .. C : Claim(blocks, kept, L[n]) \in A
    BY <1>1 DEF Claim
  <2>3. Claimed(blocks, which) = ClaimedOf(blocks, L)
    BY DEF Claimed, ClaimedOf
  <2> HIDE DEF A, L
  <2>4. PICK r : ClaimedSteps(r, A, C, L, blocks)
    BY <2>1, <2>2, ClaimedRun
  <2> QED BY <2>3, <2>4 DEF ClaimedSteps
<1> DEFINE S == {n \in Nat : r[n] = Seen(n) \intersect I}
<1> HIDE DEF L
<1>3. 0 \in S
  BY <1>2
<1>4. ASSUME NEW n \in 1 .. C, n - 1 \in S PROVE n \in S
  <2> DEFINE i == L[n]
  <2>1. i \in which /\ r[n - 1] = Seen(n - 1) \intersect I
    BY <1>1, <1>4
  <2>2. Seen(n) = Seen(n - 1) \union {i}
    <3>1. 1 .. n = (1 .. n - 1) \union {n}
      OBVIOUS
    <3> QED BY <3>1
  <2>3. \A k \in Seen(n - 1) : i < k
    <3>1. \A m \in 1 .. n - 1 : m \in 1 .. C /\ m < n
      OBVIOUS
    <3>2. \A m \in 1 .. n - 1 : L[m] > L[n]
      BY <1>1, <3>1
    <3> QED BY <3>2
  <2>4. \A k \in which : i < k => k \in Seen(n - 1)
    <3> SUFFICES ASSUME NEW k \in which, i < k PROVE k \in Seen(n - 1)
      OBVIOUS
    <3>1. PICK m \in 1 .. C : L[m] = k
      BY <1>1
    <3>2. m # n /\ ~(n < m)
      <4>1. n < m => L[n] > L[m]
        BY <1>1
      <4>2. k \in Nat /\ i \in Nat
        BY <2>1, LayoutFacts
      <4> QED BY <3>1, <4>1, <4>2
    <3>3. m \in 1 .. n - 1
      BY <3>2
    <3> QED BY <3>1, <3>3
  <2> HIDE DEF i, I, Seen
  <2>5. i \in I <=> ~\E k \in r[n - 1] : Overlap(blocks[k], blocks[i])
    <3>1. ASSUME i \in I, NEW k \in r[n - 1], Overlap(blocks[k], blocks[i]) PROVE FALSE
      <4>1. k \in which /\ i < k /\ k \in Seen(n - 1) /\ k \in I
        BY <2>1, <2>3, <3>1 DEF I, Innermost
      <4>2. Within(blocks, k, i)
        BY <2>1, <3>1, <4>1, BlocksNest
      <4>3. k # i
        BY <4>1, LayoutFacts
      <4> QED BY <3>1, <4>1, <4>2, <4>3 DEF I, Innermost, Within
    <3>2. ASSUME i \notin I PROVE \E k \in r[n - 1] : Overlap(blocks[k], blocks[i])
      <4>1. PICK k \in I : i < k /\ Within(blocks, k, i)
        BY <2>1, <3>2, InnermostWithin DEF I
      <4>2. k \in which
        BY <4>1 DEF I, Innermost
      <4>3. k \in r[n - 1]
        BY <2>1, <2>4, <4>1, <4>2
      <4>4. Overlap(blocks[k], blocks[i])
        BY <2>1, <4>1, <4>2, BlocksNest
      <4> QED BY <4>3, <4>4
    <3> QED BY <3>1, <3>2
  <2>6. r[n] = IF i \in I THEN r[n - 1] \union {i} ELSE r[n - 1]
    BY <1>2, <2>5 DEF i, Claim
  <2>7. r[n] = Seen(n) \intersect I
    BY <2>1, <2>2, <2>6
  <2> QED BY <2>7 DEF Seen
<1>5. r[C] = Seen(C) \intersect I
  <2> HIDE DEF S
  <2>1. \A n \in 0 .. C : n \in S
    BY <1>3, <1>4, InductionUpTo
  <2>2. C \in S
    BY <2>1
  <2> QED BY <2>2 DEF S
<1>6. Seen(C) = which
  BY <1>1
<1>7. I \in SUBSET which
  BY DEF Innermost
<1> QED BY <1>2, <1>5, <1>6, <1>7

-----------------------------------------------------------------------------
(* What a splice leaves is a list again.                                     *)
LEMMA SpliceType ==
  ASSUME NEW B, NEW html \in Seq(B), NEW new \in Seq(B), NEW b, b.start \in Nat, b.end \in Nat
  PROVE  Splice(html, b, new) \in Seq(B)
<1> DEFINE start == IF b.start < Len(html) THEN b.start ELSE Len(html)
<1>1. start \in Nat /\ start <= Len(html)
  OBVIOUS
<1> HIDE DEF start
<1>2. SubSeq(html, 1, start) \in Seq(B)
  BY <1>1
<1>3. SubSeq(html, b.end + 1, Len(html)) \in Seq(B)
  OBVIOUS
<1>4. Splice(html, b, new) = SubSeq(html, 1, start) \o new \o SubSeq(html, b.end + 1, Len(html))
  BY DEF Splice, start
<1> QED BY <1>2, <1>3, <1>4

(* What stands for a byte: the patch for the first of a block, nothing for   *)
(* the rest of it, and the byte itself outside of all blocks.                *)
LEMMA InsteadCases ==
  ASSUME NEW blocks \in Layout, NEW patches, DOMAIN patches \in SUBSET DOMAIN blocks,
         NEW html, NEW K, K = Innermost(blocks, DOMAIN patches)
  PROVE  /\ \A i, j \in K : i < j => blocks[i].end <= blocks[j].start
         /\ \A i \in K : Instead(html, blocks, patches, K, blocks[i].start + 1) = patches[i]
         /\ \A i \in K : \A p \in (blocks[i].start + 2) .. blocks[i].end :
              Instead(html, blocks, patches, K, p) = << >>
         /\ \A p \in Nat : (\A i \in K : ~(blocks[i].start < p /\ p <= blocks[i].end)) =>
              Instead(html, blocks, patches, K, p) = <<html[p]>>
<1>1. /\ K \in SUBSET DOMAIN patches /\ K \in SUBSET DOMAIN blocks /\ K \in SUBSET Nat
      /\ \A i \in K : /\ blocks[i].start \in Nat /\ blocks[i].end \in Nat
                      /\ blocks[i].start < blocks[i].end
  BY LayoutFacts DEF Innermost
<1>2. ASSUME NEW i \in K, NEW j \in K, i < j PROVE blocks[i].end <= blocks[j].start
  <2>1. ~Within(blocks, j, i)
    BY <1>1, <1>2 DEF Innermost, Within
  <2> QED BY <1>1, <1>2, <2>1, BlocksNest
<1>3. ASSUME NEW i \in K, NEW j \in K, i # j
      PROVE  blocks[i].end <= blocks[j].start \/ blocks[j].end <= blocks[i].start
  <2>1. i < j \/ j < i
    BY <1>1, <1>3
  <2> QED BY <1>2, <2>1
<1>4. ASSUME NEW i \in K
      PROVE  Instead(html, blocks, patches, K, blocks[i].start + 1) = patches[i]
  <2>1. (blocks[i].start + 1) - 1 = blocks[i].start
    BY <1>1
  <2>2. \A j \in K : blocks[j].start = blocks[i].start => j = i
    <3> SUFFICES ASSUME NEW j \in K, blocks[j].start = blocks[i].start, j # i PROVE FALSE
      OBVIOUS
    <3>1. blocks[i].end <= blocks[j].start \/ blocks[j].end <= blocks[i].start
      BY <1>3
    <3> QED BY <1>1, <3>1
  <2>3. (CHOOSE j \in K : blocks[j].start = blocks[i].start) = i
    BY <2>2
  <2> QED BY <2>1, <2>3 DEF Instead
<1>5. ASSUME NEW i \in K, NEW p \in (blocks[i].start + 2) .. blocks[i].end
      PROVE  Instead(html, blocks, patches, K, p) = << >>
  <2>1. p \in Nat /\ blocks[i].start < p /\ p <= blocks[i].end /\ blocks[i].start < p - 1
    BY <1>1
  <2>2. ASSUME NEW j \in K, blocks[j].start = p - 1 PROVE FALSE
    <3>1. j # i
      BY <1>1, <2>1, <2>2
    <3>2. blocks[i].end <= blocks[j].start \/ blocks[j].end <= blocks[i].start
      BY <1>3, <3>1
    <3> QED BY <1>1, <2>1, <2>2, <3>2
  <2> QED BY <2>1, <2>2 DEF Instead
<1>6. ASSUME NEW p \in Nat, \A i \in K : ~(blocks[i].start < p /\ p <= blocks[i].end)
      PROVE  Instead(html, blocks, patches, K, p) = <<html[p]>>
  <2>1. ASSUME NEW j \in K, blocks[j].start = p - 1 PROVE FALSE
    BY <1>1, <1>6, <2>1
  <2> QED BY <1>6, <2>1 DEF Instead
<1> QED BY <1>2, <1>4, <1>5, <1>6

(* One byte more.                                                            *)
LEMMA OneMore ==
  ASSUME NEW B, NEW html \in Seq(B), NEW front \in Seq(B), NEW s \in Nat, NEW p \in Nat,
         s < p, p <= Len(html)
  PROVE  (front \o SubSeq(html, s + 1, p - 1)) \o <<html[p]>> = front \o SubSeq(html, s + 1, p)
<1> DEFINE u == SubSeq(html, s + 1, p - 1)
<1>1. u \in Seq(B)
  OBVIOUS
<1>2. <<html[p]>> \in Seq(B)
  OBVIOUS
<1>3. SubSeq(html, s + 1, p) = u \o <<html[p]>>
  OBVIOUS
<1> HIDE DEF u
<1>4. (front \o u) \o <<html[p]>> = front \o (u \o <<html[p]>>)
  BY <1>1, <1>2, ConcatAssociative, SMTT(30)
<1> QED BY <1>3, <1>4 DEF u

LEMMA BehindFirst ==
  ASSUME NEW start \in Nat, NEW end \in Nat, NEW len \in Nat, end <= len,
         NEW d \in 1 .. end - (start + 1)
  PROVE  (start + 1) + d \in (start + 2) .. end /\ (start + 1) + d \in 1 .. len
OBVIOUS

(* The HTML told byte by byte: over a block the patch is added, and over     *)
(* bytes outside of all blocks those.                                        *)
PartsTold(F, html, blocks, patches, K) ==
  /\ \A i \in K : blocks[i].end <= Len(html) =>
       F[blocks[i].end] = F[blocks[i].start] \o patches[i]
  /\ \A s, e \in 0 .. Len(html) :
       s <= e /\ (\A p \in s + 1 .. e : \A i \in K : ~(blocks[i].start < p /\ p <= blocks[i].end))
       => F[e] = F[s] \o SubSeq(html, s + 1, e)

LEMMA ToldParts ==
  ASSUME NEW blocks \in Layout, NEW patches, DOMAIN patches \in SUBSET DOMAIN blocks,
         NEW K, K = Innermost(blocks, DOMAIN patches),
         NEW B, NEW html \in Seq(B), \A i \in DOMAIN patches : patches[i] \in Seq(B),
         NEW P, P = [p \in 1 .. Len(html) |-> p],
         NEW F, ToldSteps(F, Seq(B), Len(html), P, html, blocks, patches, K)
  PROVE  PartsTold(F, html, blocks, patches, K)
<1>1. /\ F[0] = << >> /\ \A n \in 0 .. Len(html) : F[n] \in Seq(B)
      /\ \A n \in 1 .. Len(html) : F[n] = F[n - 1] \o Instead(html, blocks, patches, K, n)
  BY DEF ToldSteps
<1>2. /\ K \in SUBSET DOMAIN patches /\ K \in SUBSET DOMAIN blocks
      /\ \A i \in K : /\ blocks[i].start \in Nat /\ blocks[i].end \in Nat
                      /\ blocks[i].start < blocks[i].end
  BY LayoutFacts DEF Innermost
<1>3. ASSUME NEW i \in K, blocks[i].end <= Len(html)
      PROVE  F[blocks[i].end] = F[blocks[i].start] \o patches[i]
  <2> DEFINE a == blocks[i].start + 1
             e == blocks[i].end
             S == {d \in Nat : F[a + d] = F[a]}
  <2>1. a \in Nat /\ e \in Nat /\ 1 <= a /\ a <= e /\ e - a \in Nat /\ Len(html) \in Nat
    BY <1>2
  <2>2. F[a] = F[a - 1] \o patches[i] /\ a - 1 = blocks[i].start
    <3>1. Instead(html, blocks, patches, K, a) = patches[i]
      BY InsteadCases
    <3>2. a \in 1 .. Len(html) /\ a - 1 = blocks[i].start
      BY <1>2, <1>3, <2>1
    <3> QED BY <1>1, <3>1, <3>2
  <2>3. ASSUME NEW d \in 1 .. e - a, d - 1 \in S PROVE d \in S
    <3>1. a + d \in (blocks[i].start + 2) .. e /\ a + d \in 1 .. Len(html)
      BY <1>2, <1>3, <2>1, BehindFirst
    <3>2. Instead(html, blocks, patches, K, a + d) = << >>
      BY <3>1, InsteadCases
    <3>3. (a + d) - 1 = a + (d - 1) /\ (a + d) - 1 \in 0 .. Len(html)
      BY <2>1, <3>1, SMTT(30)
    <3>4. F[a + d] = F[a + (d - 1)] \o << >> /\ F[a + (d - 1)] \in Seq(B)
      BY <1>1, <3>1, <3>2, <3>3
    <3>5. F[a + d] = F[a + (d - 1)]
      BY <3>4, ConcatEmptySeq
    <3> QED BY <2>3, <3>5
  <2>4. 0 \in S
    BY <2>1
  <2>5. \A d \in 0 .. e - a : d \in S
    <3> HIDE DEF S
    <3> QED BY <2>1, <2>3, <2>4, InductionUpTo
  <2>6. F[a + (e - a)] = F[a] /\ a + (e - a) = e
    <3>1. e - a \in 0 .. e - a
      BY <2>1
    <3>2. F[a + (e - a)] = F[a]
      BY <2>5, <3>1
    <3> HIDE DEF a, e
    <3> QED BY <2>1, <3>2
  <2> QED BY <2>2, <2>6
<1>4. ASSUME NEW s \in 0 .. Len(html), NEW e \in 0 .. Len(html), s <= e,
             \A p \in s + 1 .. e : \A i \in K : ~(blocks[i].start < p /\ p <= blocks[i].end)
      PROVE  F[e] = F[s] \o SubSeq(html, s + 1, e)
  <2> DEFINE S == {d \in Nat : F[s + d] = F[s] \o SubSeq(html, s + 1, s + d)}
  <2>1. s \in Nat /\ e \in Nat /\ e - s \in Nat /\ Len(html) \in Nat /\ F[s] \in Seq(B)
    BY <1>4, <1>1
  <2>2. 0 \in S
    <3>1. SubSeq(html, s + 1, s + 0) = << >>
      BY <2>1
    <3>2. F[s] \o << >> = F[s] /\ s + 0 = s
      BY <2>1, ConcatEmptySeq
    <3> QED BY <3>1, <3>2
  <2>3. ASSUME NEW d \in 1 .. e - s, d - 1 \in S PROVE d \in S
    <3> DEFINE p == s + d
               u == SubSeq(html, s + 1, p - 1)
    <3>1. p \in s + 1 .. e /\ p \in 1 .. Len(html) /\ p \in Nat /\ p - 1 = s + (d - 1) /\ p - 1 \in Nat
      BY <1>4, <2>1
    <3>2. Instead(html, blocks, patches, K, p) = <<html[p]>>
      BY <1>4, <3>1, InsteadCases
    <3>3. F[p] = F[p - 1] \o <<html[p]>>
      BY <1>1, <3>1, <3>2
    <3>4. F[p - 1] = F[s] \o u
      BY <2>3, <3>1
    <3>5. F[p] = F[s] \o SubSeq(html, s + 1, p)
      <4>1. s < p /\ p <= Len(html)
        BY <2>1, <3>1
      <4> HIDE DEF p
      <4>2. (F[s] \o SubSeq(html, s + 1, p - 1)) \o <<html[p]>> = F[s] \o SubSeq(html, s + 1, p)
        <5>1. p \in Nat /\ s \in Nat /\ F[s] \in Seq(B) /\ html \in Seq(B)
          BY <2>1, <3>1
        <5> QED BY <4>1, <5>1, OneMore, Zenon
      <4> QED BY <3>3, <3>4, <4>2
    <3>6. d \in Nat
      BY <2>1
    <3> QED BY <3>5, <3>6
  <2>4. \A d \in 0 .. e - s : d \in S
    <3> HIDE DEF S
    <3> QED BY <2>1, <2>2, <2>3, InductionUpTo
  <2>5. s + (e - s) = e /\ e - s \in 0 .. e - s
    BY <2>1
  <2>6. F[s + (e - s)] = F[s] \o SubSeq(html, s + 1, s + (e - s))
    BY <2>4, <2>5
  <2> QED BY <2>5, <2>6
<1> QED BY <1>3, <1>4 DEF PartsTold

(* Rewriting the blocks from the end gives the HTML told byte by byte: what  *)
(* stands behind the last rewritten block is told, what stands before is as  *)
(* it was.                                                                   *)
LEMMA RewrittenAsTold ==
  ASSUME NEW blocks \in Layout, NEW patches, DOMAIN patches \in SUBSET DOMAIN blocks,
         NEW B, NEW html \in Seq(B), Len(html) = HtmlLength,
         \A i \in DOMAIN patches : patches[i] \in Seq(B)
  PROVE  applyBlockPatches(html, blocks, patches) = Replaced(html, blocks, patches)
<1> DEFINE K == Innermost(blocks, DOMAIN patches)
           L == LastFirst(blocks, K)
           N == Len(html)
<1>1. \A x, y, z \in Seq(B) : (x \o y) \o z = x \o (y \o z)
  BY ConcatAssociative
<1>2. /\ K \in SUBSET DOMAIN patches /\ K \in SUBSET DOMAIN blocks /\ N \in Nat
      /\ \A i \in K : /\ blocks[i].start \in Nat /\ blocks[i].end \in Nat
                      /\ blocks[i].start < blocks[i].end /\ blocks[i].end <= N
  <2>1. K \in SUBSET DOMAIN patches
    BY DEF Innermost
  <2> HIDE DEF K
  <2> QED BY <2>1, LayoutFacts, PatchAssumption
<1>3. applyBlockPatches(html, blocks, patches) = RewrittenOf(html, blocks, patches, L)
  <2>1. DOMAIN patches \intersect DOMAIN blocks = DOMAIN patches
    OBVIOUS
  <2>2. Claimed(blocks, DOMAIN patches \intersect DOMAIN blocks) = K
    BY <2>1, ClaimedInnermost
  <2> QED BY <2>2 DEF applyBlockPatches, RewrittenOf
<1>4. Replaced(html, blocks, patches) = ToldOf(html, blocks, patches, K, [p \in 1 .. N |-> p])
  <2>1. DOMAIN html = 1 .. N
    OBVIOUS
  <2> QED BY <2>1 DEF Replaced, ToldOf
<1>5. PICK C \in Nat : /\ L \in [1 .. C -> K]
                       /\ \A m, n \in 1 .. C : m < n => L[m] > L[n]
                       /\ \A i \in K : \E n \in 1 .. C : L[n] = i
  <2> HIDE DEF L, K
  <2> QED BY <1>2, LastComesFirst DEF L
<1>6. PICK G : RewrittenSteps(G, Seq(B), C, L, blocks, patches, html)
  <2>1. DOMAIN L = 1 .. C
    BY <1>5
  <2>2. ASSUME NEW out \in Seq(B), NEW n \in 1 .. C
        PROVE  Splice(out, blocks[L[n]], patches[L[n]]) \in Seq(B)
    <3> HIDE DEF L, K
    <3>1. L[n] \in K
      BY <1>5
    <3> QED BY <1>2, <3>1, SpliceType
  <2> HIDE DEF L
  <2> QED BY <2>1, <2>2, RewrittenRun
<1> DEFINE P == [p \in 1 .. N |-> p]
<1>7. PICK F : ToldSteps(F, Seq(B), N, P, html, blocks, patches, K)
  <2>1. DOMAIN P = 1 .. N /\ << >> \in Seq(B)
    OBVIOUS
  <2>2. ASSUME NEW out \in Seq(B), NEW p \in 1 .. N
        PROVE  out \o Instead(html, blocks, patches, K, P[p]) \in Seq(B)
    <3>1. P[p] = p /\ p \in Nat
      BY <1>2
    <3> HIDE DEF K, P
    <3>2. Instead(html, blocks, patches, K, p) \in Seq(B)
      <4>1. CASE \E i \in K : blocks[i].start = p - 1
        <5> DEFINE i == CHOOSE i \in K : blocks[i].start = p - 1
        <5>1. i \in K
          BY <4>1
        <5>2. patches[i] \in Seq(B)
          <6> HIDE DEF i
          <6> QED BY <1>2, <5>1
        <5> QED BY <4>1, <5>2 DEF Instead
      <4>2. CASE ~\E i \in K : blocks[i].start = p - 1
        <5>1. html[p] \in B
          OBVIOUS
        <5>2. <<html[p]>> \in Seq(B) /\ << >> \in Seq(B)
          BY <5>1
        <5> QED BY <4>2, <5>2 DEF Instead
      <4> QED BY <4>1, <4>2
    <3>3. out \o Instead(html, blocks, patches, K, p) \in Seq(B)
      BY <3>2, ConcatProperties
    <3> QED BY <3>1, <3>3
  <2> HIDE DEF P, K
  <2> QED BY <1>2, <2>1, <2>2, ToldRun
<1> HIDE DEF L, K
<1>8. /\ F[0] = << >> /\ \A n \in 0 .. Len(html) : F[n] \in Seq(B)
      /\ \A n \in 1 .. Len(html) : F[n] = F[n - 1] \o Instead(html, blocks, patches, K, n)
  BY <1>7 DEF ToldSteps
<1>9. PartsTold(F, html, blocks, patches, K)
  <2>1. K = Innermost(blocks, DOMAIN patches)
    BY DEF K
  <2>2. P = [p \in 1 .. Len(html) |-> p]
    OBVIOUS
  <2> HIDE DEF P
  <2> QED BY <1>7, <2>1, <2>2, ToldParts
<1>10. \A i \in K : F[blocks[i].end] = F[blocks[i].start] \o patches[i]
  BY <1>2, <1>9 DEF PartsTold
<1>11. ASSUME NEW s \in 0 .. N, NEW e \in 0 .. N, s <= e,
             \A p \in s + 1 .. e : \A i \in K : ~(blocks[i].start < p /\ p <= blocks[i].end)
      PROVE  F[e] = F[s] \o SubSeq(html, s + 1, e)
  BY <1>11, <1>9 DEF PartsTold
<1>12. \A i, j \in K : i < j => blocks[i].end <= blocks[j].start
  BY <1>2, InsteadCases DEF K
<1> DEFINE St(n) == IF n = 0 THEN N ELSE blocks[L[n]].start
           S == {n \in Nat : \E t \in Seq(B) : /\ G[n] = SubSeq(html, 1, St(n)) \o t
                                               /\ F[N] = F[St(n)] \o t}
<1>13. ASSUME NEW n \in 0 .. C PROVE St(n) \in 0 .. N
  <2>1. n # 0 => L[n] \in K
    BY <1>5
  <2> QED BY <1>2, <2>1
<1>14. 0 \in S
  <2>1. SubSeq(html, 1, N) = html /\ html \o << >> = html /\ << >> \in Seq(B)
    OBVIOUS
  <2>2. F[N] \o << >> = F[N]
    <3>1. F[N] \in Seq(B)
      BY <1>2, <1>8
    <3> QED BY <3>1, ConcatEmptySeq
  <2>3. G[0] = html
    BY <1>6 DEF RewrittenSteps
  <2>4. St(0) = N
    OBVIOUS
  <2> HIDE DEF St
  <2> QED BY <2>1, <2>2, <2>3, <2>4
<1>15. ASSUME NEW n \in 1 .. C, n - 1 \in S PROVE n \in S
  <2> DEFINE i == L[n]
             s == St(n - 1)
             a == blocks[i].start
             e == blocks[i].end
  <2>1. PICK t \in Seq(B) : G[n - 1] = SubSeq(html, 1, s) \o t /\ F[N] = F[s] \o t
    BY <1>15
  <2>2. /\ i \in K /\ a \in Nat /\ e \in Nat /\ a < e /\ e <= N /\ patches[i] \in Seq(B)
        /\ St(n) = a
    BY <1>2, <1>5
  <2>3. s \in 0 .. N /\ e <= s
    <3>1. CASE n - 1 = 0
      BY <1>2, <2>2, <3>1
    <3>2. CASE n - 1 # 0
      <4>1. n - 1 \in 1 .. C /\ n - 1 < n
        BY <3>2
      <4>2. L[n - 1] \in K /\ L[n - 1] > i
        BY <1>5, <4>1
      <4>3. e <= blocks[L[n - 1]].start
        BY <1>12, <2>2, <4>2
      <4>4. n - 1 \in 0 .. C
        BY <4>1
      <4> QED BY <1>13, <3>2, <4>3, <4>4
    <3> QED BY <3>1, <3>2
  <2>4. \A j \in K : j # i => blocks[j].end <= a \/ s <= blocks[j].start
    <3> SUFFICES ASSUME NEW j \in K, j # i PROVE blocks[j].end <= a \/ s <= blocks[j].start
      OBVIOUS
    <3>1. PICK m \in 1 .. C : L[m] = j
      BY <1>5
    <3>2. m # n
      BY <3>1
    <3>3. CASE n < m
      <4>1. i > j
        BY <1>5, <3>1, <3>3
      <4>2. blocks[j].end <= a
        BY <1>12, <2>2, <4>1
      <4> QED BY <4>2
    <3>4. CASE m = n - 1
      <4>1. n - 1 # 0
        BY <3>4
      <4>2. s = blocks[j].start
        BY <3>1, <3>4, <4>1
      <4> QED BY <1>2, <4>2
    <3>5. CASE m < n - 1
      <4>1. n - 1 \in 1 .. C /\ n - 1 # 0
        BY <3>5
      <4>2. L[n - 1] \in K /\ L[m] > L[n - 1]
        BY <1>5, <3>5, <4>1
      <4>3. blocks[L[n - 1]].end <= blocks[j].start
        BY <1>12, <3>1, <4>2
      <4>4. s = blocks[L[n - 1]].start /\ blocks[L[n - 1]].start < blocks[L[n - 1]].end
        BY <1>2, <4>1, <4>2
      <4>5. blocks[L[n - 1]].start \in Nat /\ blocks[L[n - 1]].end \in Nat /\ blocks[j].start \in Nat
        BY <1>2, <4>2
      <4> QED BY <4>3, <4>4, <4>5
    <3> QED BY <3>2, <3>3, <3>4, <3>5
  <2> DEFINE u == SubSeq(html, e + 1, s)
             new == patches[i]
             t1 == new \o (u \o t)
  <2>5. u \in Seq(B) /\ u \o t \in Seq(B) /\ t1 \in Seq(B)
    <3>1. u \in Seq(B)
      <4> HIDE DEF s, e
      <4> QED BY <1>2, <2>2, <2>3, PartsJoin
    <3>2. u \o t \in Seq(B)
      <4> HIDE DEF u
      <4> QED BY <3>1, ConcatProperties
    <3> HIDE DEF u
    <3> QED BY <2>2, <3>1, <3>2, ConcatProperties
  <2>6. G[n] = SubSeq(html, 1, a) \o t1
    <3>1. G[n] = Splice(G[n - 1], blocks[i], new)
      BY <1>6 DEF RewrittenSteps
    <3> DEFINE g == SubSeq(html, 1, s) \o t
    <3> HIDE DEF s, a, e, i, St
    <3>2. /\ g \in Seq(B) /\ Len(g) >= s
          /\ SubSeq(g, 1, a) = SubSeq(html, 1, a)
          /\ SubSeq(g, e + 1, Len(g)) = u \o t
      <4>1. a \in Nat /\ e \in Nat /\ s \in Nat /\ a <= e /\ e <= s /\ s <= Len(html)
        BY <1>2, <2>2, <2>3
      <4>2. html \in Seq(B) /\ t \in Seq(B)
        BY <1>2, <2>1
      <4> HIDE DEF g
      <4>3. LET h == SubSeq(html, 1, s) \o t
            IN  /\ h \in Seq(B) /\ Len(h) >= s
                /\ SubSeq(h, 1, a) = SubSeq(html, 1, a)
                /\ SubSeq(h, e + 1, Len(h)) = SubSeq(html, e + 1, s) \o t
        BY ONLY <4>1, <4>2, FrontOfJoined, SMTT(60)
      <4> QED BY ONLY <4>3, ZenonT(60) DEF g
    <3>3. a <= Len(g) /\ Len(g) \in Nat
      BY <2>2, <2>3, <3>2
    <3> HIDE DEF g, u
    <3>4. Splice(g, blocks[i], new) = SubSeq(g, 1, a) \o new \o SubSeq(g, e + 1, Len(g))
      <4>1. (IF a < Len(g) THEN a ELSE Len(g)) = a
        BY <2>2, <3>3
      <4> QED BY <4>1 DEF Splice, a, e
    <3>5. G[n] = (SubSeq(html, 1, a) \o new) \o (u \o t)
      BY <2>1, <3>1, <3>2, <3>4 DEF g
    <3>6. SubSeq(html, 1, a) \in Seq(B)
      BY <1>2, <2>2
    <3>7. (SubSeq(html, 1, a) \o new) \o (u \o t) = SubSeq(html, 1, a) \o t1
      BY <2>2, <2>5, <3>6, <1>1, ZenonT(60)
    <3> HIDE DEF t1
    <3> QED BY <3>5, <3>7
  <2>7. F[N] = F[a] \o t1
    <3> HIDE DEF s, a, e, i, St
    <3>1. F[e] = F[a] \o new
      BY <1>10, <2>2 DEF a, e
    <3>2. F[s] = F[e] \o u
      <4>1. ASSUME NEW p \in e + 1 .. s, NEW j \in K, blocks[j].start < p, p <= blocks[j].end
            PROVE FALSE
        <5>1. blocks[j].start \in Nat /\ blocks[j].end \in Nat
          BY <1>2
        <5>2. CASE j = i
          BY <2>2, <2>3, <4>1, <5>1, <5>2 DEF e
        <5>3. CASE j # i
          BY <2>2, <2>3, <2>4, <4>1, <5>1, <5>3, SMTT(30)
        <5> QED BY <5>2, <5>3
      <4>2. e \in 0 .. N /\ s \in 0 .. N /\ e <= s
        BY <1>2, <2>2, <2>3
      <4>3. \A p \in e + 1 .. s : \A j \in K : ~(blocks[j].start < p /\ p <= blocks[j].end)
        BY <4>1
      <4> QED BY <1>11, <4>2, <4>3, Zenon
    <3>3. F[a] \in Seq(B) /\ F[e] \in Seq(B)
      BY <1>2, <1>8, <2>2
    <3> HIDE DEF u
    <3>4. F[N] = (F[e] \o u) \o t
      BY <2>1, <3>2
    <3>5. (F[e] \o u) \o t = F[e] \o (u \o t)
      <4>1. F[e] \in Seq(B) /\ u \in Seq(B) /\ t \in Seq(B)
        BY <2>5, <3>3
      <4> QED BY <1>1, <4>1, ZenonT(60)
    <3>6. (F[a] \o new) \o (u \o t) = F[a] \o t1
      <4>1. F[a] \in Seq(B) /\ new \in Seq(B) /\ u \o t \in Seq(B)
        BY <2>2, <2>5, <3>3
      <4> QED BY <1>1, <4>1, ZenonT(60)
    <3> QED BY <3>1, <3>4, <3>5, <3>6
  <2>8. n \in Nat /\ St(n) = a /\ t1 \in Seq(B)
    BY <2>2, <2>5
  <2> HIDE DEF t1, a, St
  <2> QED BY <2>6, <2>7, <2>8
<1>16. PICK t \in Seq(B) : G[C] = SubSeq(html, 1, St(C)) \o t /\ F[N] = F[St(C)] \o t
  <2> HIDE DEF S
  <2>1. \A n \in 0 .. C : n \in S
    BY <1>14, <1>15, InductionUpTo
  <2>2. C \in S
    BY <2>1
  <2> QED BY <2>2 DEF S
<1>17. F[St(C)] = SubSeq(html, 1, St(C))
  <2>1. ASSUME NEW p \in 1 .. St(C), NEW j \in K, blocks[j].start < p, p <= blocks[j].end PROVE FALSE
    <3>1. PICK m \in 1 .. C : L[m] = j
      BY <1>5
    <3>2. St(C) = blocks[L[C]].start /\ L[C] \in K
      BY <1>5
    <3>3. CASE m = C
      BY <1>2, <2>1, <3>1, <3>2, <3>3
    <3>4. CASE m # C
      <4>1. m < C /\ C \in 1 .. C
        BY <3>4
      <4>2. j > L[C]
        BY <1>5, <3>1, <4>1
      <4>3. blocks[L[C]].end <= blocks[j].start
        BY <1>12, <3>2, <4>2
      <4>4. blocks[L[C]].start \in Nat /\ blocks[L[C]].end \in Nat /\ blocks[j].start \in Nat
            /\ blocks[L[C]].start < blocks[L[C]].end
        BY <1>2, <3>2
      <4> QED BY <2>1, <3>2, <4>3, <4>4
    <3> QED BY <3>3, <3>4
  <2>2. St(C) \in 0 .. N
    BY <1>13
  <2> HIDE DEF St
  <2>3. F[St(C)] = F[0] \o SubSeq(html, 0 + 1, St(C))
    <3>1. 0 \in 0 .. N /\ 0 <= St(C) /\ 0 + 1 = 1
      BY <1>2, <2>2
    <3>2. \A p \in 0 + 1 .. St(C) : \A j \in K : ~(blocks[j].start < p /\ p <= blocks[j].end)
      BY <2>1, <3>1
    <3> QED BY <1>11, <2>2, <3>1, <3>2, Zenon
  <2>4. SubSeq(html, 1, St(C)) \in Seq(B)
    BY <1>2, <2>2
  <2> QED BY <1>8, <2>3, <2>4, ConcatEmptySeq
<1>18. G[C] = F[N]
  <2> HIDE DEF St, S, P, N
  <2> QED BY ONLY <1>16, <1>17, ZenonT(60)
<1> QED BY <1>3, <1>4, <1>6, <1>7, <1>18 DEF RewrittenSteps, ToldSteps

-----------------------------------------------------------------------------
(* The first patch of a block that is not empty.                             *)
Firsts(r) ==
  {k \in DOMAIN r : /\ r[k].new # << >>
                    /\ ~\E j \in DOMAIN r : r[j].new # << >> /\ j < k /\ r[j].at = r[k].at}

FirstFor(r, i) ==
  CHOOSE k \in DOMAIN r : /\ r[k].at = i /\ r[k].new # << >>
                         /\ \A j \in 1..k - 1 : r[j].at # i \/ r[j].new = << >>

(* Whatever is answered for a place, some answer for it is the first one.    *)
LEMMA FirstThere ==
  ASSUME NEW E, NEW r \in Seq(E), NEW k \in DOMAIN r, r[k].new # << >>
  PROVE  \E m \in Firsts(r) : r[m].at = r[k].at
<1> DEFINE T == {j \in DOMAIN r : r[j].new # << >> /\ r[j].at = r[k].at}
<1>1. T \in SUBSET Nat /\ T # {}
  OBVIOUS
<1>2. PICK m \in T : \A j \in T : m <= j
  <2> HIDE DEF T
  <2> QED BY <1>1, LeastNatural
<1>3. m \in DOMAIN r /\ m \in Nat /\ r[m].new # << >> /\ r[m].at = r[k].at
  BY <1>1, <1>2
<1>4. ~\E j \in DOMAIN r : r[j].new # << >> /\ j < m /\ r[j].at = r[m].at
  <2> SUFFICES ASSUME NEW j \in DOMAIN r, r[j].new # << >>, j < m, r[j].at = r[m].at PROVE FALSE
    OBVIOUS
  <2>1. j \in T /\ j \in Nat
    BY <1>3
  <2> QED BY <1>2, <1>3, <2>1
<1> QED BY <1>3, <1>4 DEF Firsts

LEMMA FirstOnes ==
  ASSUME NEW E, NEW r \in Seq(E)
  PROVE  /\ \A k, m \in Firsts(r) : r[k].at = r[m].at => k = m
         /\ \A k \in Firsts(r) : FirstFor(r, r[k].at) = k
<1>1. DOMAIN r = 1 .. Len(r) /\ Len(r) \in Nat
  OBVIOUS
<1>2. ASSUME NEW k \in Firsts(r), NEW m \in Firsts(r), r[k].at = r[m].at PROVE k = m
  <2>1. ~(k < m) /\ ~(m < k) /\ k \in Nat /\ m \in Nat
    BY <1>1, <1>2 DEF Firsts
  <2> QED BY <2>1
<1>3. ASSUME NEW k \in Firsts(r) PROVE FirstFor(r, r[k].at) = k
  <2> DEFINE Is(m) == /\ r[m].at = r[k].at /\ r[m].new # << >>
                      /\ \A j \in 1..m - 1 : r[j].at # r[k].at \/ r[j].new = << >>
  <2>1. k \in DOMAIN r /\ k \in Nat
    BY <1>1 DEF Firsts
  <2>2. Is(k)
    <3>1. \A j \in 1 .. k - 1 : j \in DOMAIN r /\ j < k
      BY <1>1, <2>1
    <3> QED BY <3>1 DEF Firsts
  <2>3. ASSUME NEW m \in DOMAIN r, Is(m) PROVE m = k
    <3>1. m \in Firsts(r)
      <4>1. \A j \in DOMAIN r : j < m => j \in 1 .. m - 1
        BY <1>1
      <4> QED BY <2>3, <4>1 DEF Firsts
    <3> QED BY <1>2, <2>3, <3>1
  <2> HIDE DEF Is
  <2>4. (CHOOSE m \in DOMAIN r : Is(m)) = k
    BY <2>1, <2>2, <2>3
  <2> QED BY <2>4 DEF Is, FirstFor
<1> QED BY <1>2, <1>3

(* What is parsed of an answer: the first patches, in order.                 *)
LEMMA ParsedFirsts ==
  ASSUME NEW E, NEW r \in Seq(E)
  PROVE  /\ Parsed(r) \in Seq(E)
         /\ \A n \in DOMAIN Parsed(r) : \E k \in Firsts(r) : Parsed(r)[n] = r[k]
         /\ \A k \in Firsts(r) : \E n \in DOMAIN Parsed(r) : Parsed(r)[n] = r[k]
<1>1. Parsed(r) = Filtered(r, Firsts(r))
  <2> DEFINE full == {k \in DOMAIN r : r[k].new # << >>}
  <2>1. {k \in full : ~\E j \in full : j < k /\ r[j].at = r[k].at} = Firsts(r)
    BY DEF Firsts
  <2> QED BY <2>1 DEF Parsed
<1>2. Firsts(r) \in SUBSET DOMAIN r
  BY DEF Firsts
<1> QED BY <1>1, <1>2, FilterKeeps

(* The patches a repair of single blocks may put in: of the blocks that are  *)
(* there, those whose first patch fits.                                      *)
Good(blocks, r) ==
  {i \in DOMAIN blocks : /\ \E k \in DOMAIN r : r[k].at = i /\ r[k].new # << >>
                         /\ r[FirstFor(r, i)].fits}

Meant(blocks, found, r) ==
  IF r = NoAnswer \/ found \intersect DOMAIN blocks = {} THEN Html
  ELSE Replaced(Html, blocks, [i \in Good(blocks, r) |-> r[FirstFor(r, i)].new])

Byte == (1 .. HtmlLength) \union UNION {{f[k] : k \in 1 .. Len(f)} : f \in Fragment}

Patch == [at : Address, new : Fragment, fits : BOOLEAN]

LEMMA BytesKnown ==
  /\ Html \in Seq(Byte) /\ Len(Html) = HtmlLength /\ HtmlLength \in Nat
  /\ \A f \in Fragment : f \in Seq(Byte)
<1>1. HtmlLength \in Nat
  BY PatchAssumption
<1>2. Html \in Seq(Byte) /\ Len(Html) = HtmlLength
  BY <1>1 DEF Html, Byte
<1>3. ASSUME NEW f \in Fragment PROVE f \in Seq(Byte)
  <2>1. Len(f) \in Nat /\ f = [k \in 1 .. Len(f) |-> f[k]]
    BY PatchAssumption
  <2>2. \A k \in 1 .. Len(f) : f[k] \in Byte
    BY DEF Byte
  <2> QED BY <2>1, <2>2, IsASeq
<1> QED BY <1>1, <1>2, <1>3

(* The patches put in are those.                                             *)
LEMMA PatchesTaken ==
  ASSUME NEW blocks, NEW r \in Seq(Patch)
  PROVE  LET good == {p \in Range(Parsed(r)) : p.at \in DOMAIN blocks /\ p.fits}
         IN  [i \in {p.at : p \in good} |-> (CHOOSE p \in good : p.at = i).new]
               = [i \in Good(blocks, r) |-> r[FirstFor(r, i)].new]
<1> DEFINE good == {p \in Range(Parsed(r)) : p.at \in DOMAIN blocks /\ p.fits}
<1>1. Range(Parsed(r)) = {r[k] : k \in Firsts(r)}
  <2>1. Range(Parsed(r)) = {Parsed(r)[n] : n \in DOMAIN Parsed(r)}
    BY DEF Range
  <2>2. \A n \in DOMAIN Parsed(r) : Parsed(r)[n] \in {r[k] : k \in Firsts(r)}
    BY ParsedFirsts
  <2>3. \A k \in Firsts(r) : r[k] \in {Parsed(r)[n] : n \in DOMAIN Parsed(r)}
    BY ParsedFirsts
  <2> QED BY <2>1, <2>2, <2>3
<1>2. \A p \in good : \E k \in Firsts(r) : p = r[k] /\ FirstFor(r, p.at) = k
  BY <1>1, FirstOnes
<1>3. ASSUME NEW i \in Good(blocks, r)
      PROVE  FirstFor(r, i) \in Firsts(r) /\ r[FirstFor(r, i)] \in good /\ r[FirstFor(r, i)].at = i
  <2>1. PICK k \in DOMAIN r : r[k].at = i /\ r[k].new # << >>
    BY DEF Good
  <2>2. PICK m \in Firsts(r) : r[m].at = i
    BY <2>1, FirstThere
  <2>3. FirstFor(r, i) = m
    BY <2>2, FirstOnes
  <2>4. i \in DOMAIN blocks /\ r[m].fits
    BY <2>3 DEF Good
  <2> QED BY <1>1, <2>2, <2>3, <2>4
<1>4. ASSUME NEW p \in good PROVE p.at \in Good(blocks, r) /\ p = r[FirstFor(r, p.at)]
  <2>1. PICK k \in Firsts(r) : p = r[k] /\ FirstFor(r, p.at) = k
    BY <1>2
  <2>2. k \in DOMAIN r /\ r[k].new # << >>
    BY DEF Firsts
  <2> QED BY <2>1, <2>2 DEF Good
<1> HIDE DEF good
<1>5. {p.at : p \in good} = Good(blocks, r)
  BY <1>3, <1>4
<1>6. ASSUME NEW i \in Good(blocks, r)
      PROVE  (CHOOSE p \in good : p.at = i) = r[FirstFor(r, i)]
  <2>1. \A p \in good : p.at = i => p = r[FirstFor(r, i)]
    BY <1>4
  <2> QED BY <1>3, <2>1
<1>7. \A i \in Good(blocks, r) :
        (CHOOSE p \in good : p.at = i).new = r[FirstFor(r, i)].new
  BY <1>6
<1>8. [i \in {p.at : p \in good} |-> (CHOOSE p \in good : p.at = i).new]
        = [i \in Good(blocks, r) |-> r[FirstFor(r, i)].new]
  <2> DEFINE new(i) == (CHOOSE p \in good : p.at = i).new
             old(i) == r[FirstFor(r, i)].new
  <2>1. \A i \in Good(blocks, r) : new(i) = old(i)
    BY <1>7
  <2>2. [i \in {p.at : p \in good} |-> new(i)] = [i \in Good(blocks, r) |-> new(i)]
    BY <1>5
  <2> HIDE DEF new, old
  <2>3. [i \in Good(blocks, r) |-> new(i)] = [i \in Good(blocks, r) |-> old(i)]
    BY <2>1
  <2>4. [i \in {p.at : p \in good} |-> new(i)] = [i \in Good(blocks, r) |-> old(i)]
    BY <2>2, <2>3
  <2> QED BY <2>4 DEF new, old
<1> QED BY <1>8 DEF good

(* A repair of single blocks does what it is meant to.                       *)
LEMMA BlocksRepaired ==
  ASSUME NEW blocks \in Layout, NEW found, NEW r, r \in Seq(Patch) \/ r = NoAnswer
  PROVE  repairBlocks(Html, blocks, found, r) = Meant(blocks, found, r)
<1>1. CASE Planned(blocks, found) = {} \/ r = NoAnswer
  BY <1>1 DEF repairBlocks, Meant, Planned
<1>2. CASE ~(Planned(blocks, found) = {} \/ r = NoAnswer)
  <2> DEFINE patches == [i \in Good(blocks, r) |-> r[FirstFor(r, i)].new]
  <2>1. r \in Seq(Patch)
    BY <1>2
  <2>2. repairBlocks(Html, blocks, found, r) = applyBlockPatches(Html, blocks, patches)
    BY <1>2, <2>1, PatchesTaken DEF repairBlocks
  <2>3. DOMAIN patches \in SUBSET DOMAIN blocks
    BY DEF Good
  <2>4. ASSUME NEW i \in DOMAIN patches PROVE patches[i] \in Seq(Byte)
    <3>1. PICK k \in DOMAIN r : r[k].at = i /\ r[k].new # << >>
      BY DEF Good
    <3>2. PICK m \in Firsts(r) : r[m].at = i
      BY <2>1, <3>1, FirstThere
    <3>3. FirstFor(r, i) = m /\ m \in DOMAIN r
      BY <2>1, <3>2, FirstOnes DEF Firsts
    <3>4. r[m] \in Patch
      BY <2>1, <3>3, ElementOfSeq
    <3>5. r[m].new \in Seq(Byte)
      BY <3>4, BytesKnown DEF Patch
    <3> QED BY <3>3, <3>5
  <2> HIDE DEF patches
  <2>5. applyBlockPatches(Html, blocks, patches) = Replaced(Html, blocks, patches)
    BY <2>3, <2>4, BytesKnown, RewrittenAsTold
  <2>6. Meant(blocks, found, r) = Replaced(Html, blocks, patches)
    BY <1>2 DEF Meant, Planned, patches
  <2> QED BY <2>2, <2>5, <2>6
<1> QED BY <1>1, <1>2

-----------------------------------------------------------------------------
(* The paths that lead to prose, each once.                                  *)
LEMMA AddressedOnce ==
  ASSUME NEW n \in Nat, NEW paths \in [1 .. n -> Path], IsInjective(paths)
  PROVE  /\ Addressed(paths) \in Seq(Path)
         /\ \A j, k \in DOMAIN Addressed(paths) : Addressed(paths)[j] = Addressed(paths)[k] => j = k
         /\ \A p \in Range(paths) \intersect DOMAIN FieldAt :
              \E k \in DOMAIN Addressed(paths) : Addressed(paths)[k] = p
<1> DEFINE places == {k \in DOMAIN paths : paths[k] \in DOMAIN FieldAt}
           A == Filtered(paths, places)
<1>1. paths \in Seq(Path) /\ places \in SUBSET DOMAIN paths
  OBVIOUS
<1>2. /\ A \in Seq(Path)
      /\ \A k \in DOMAIN A : A[k] = paths[Nth(places, k)] /\ Nth(places, k) \in places
      /\ \A j, k \in DOMAIN A : Nth(places, j) = Nth(places, k) => j = k
      /\ \A k \in places : \E j \in DOMAIN A : Nth(places, j) = k
  <2> HIDE DEF places
  <2> QED BY <1>1, FilterKeeps
<1>3. A = Addressed(paths)
  BY DEF Addressed
<1>4. \A j, k \in DOMAIN A : A[j] = A[k] => j = k
  <2>1. \A j, k \in DOMAIN paths : paths[j] = paths[k] => j = k
    BY DEF IsInjective
  <2> HIDE DEF A
  <2> QED BY <1>2, <2>1
<1>5. \A p \in Range(paths) \intersect DOMAIN FieldAt : \E k \in DOMAIN A : A[k] = p
  <2> SUFFICES ASSUME NEW p \in Range(paths) \intersect DOMAIN FieldAt 
               PROVE  \E k \in DOMAIN A : A[k] = p
    OBVIOUS
  <2>1. PICK k \in places : paths[k] = p
    BY DEF Range
  <2> HIDE DEF A
  <2> QED BY <1>2, <2>1
<1> QED BY <1>2, <1>3, <1>4, <1>5

(* Rounding up keeps the order of products.                                  *)
LEMMA MoreTimes ==
  ASSUME NEW a \in Nat, NEW b \in Nat, a <= b, NEW c \in Nat
  PROVE  a * c \in Nat /\ b * c \in Nat /\ a * c <= b * c
<1>1. (b - a) \in Nat /\ b = a + (b - a)
  OBVIOUS
<1>2. (b - a) * c >= 0 /\ b * c = a * c + (b - a) * c
  BY <1>1
<1> QED BY <1>2

(* The calls share the paths out: each path is in one of them, and no call   *)
(* has more than it may.                                                     *)
LEMMA PathsSharedOut ==
  ASSUME NEW paths \in Seq(Path)
  PROVE  \E C \in Nat :
           /\ DOMAIN Batches(paths) = 1 .. C
           /\ \A b \in 1 .. C : Batches(paths)[b] \in Seq(Path) /\ Len(Batches(paths)[b]) <= PerCall
           /\ \A b \in 1 .. C : \A i \in DOMAIN Batches(paths)[b] :
                /\ (b - 1) * PerCall + i \in 1 .. Len(paths)
                /\ i \in Nat /\ (b - 1) * PerCall + i <= b * PerCall
                /\ Batches(paths)[b][i] = paths[(b - 1) * PerCall + i]
           /\ \A b \in 1 .. C : \A n \in 1 .. Len(paths) :
                (b - 1) * PerCall < n /\ n <= b * PerCall
                => n - (b - 1) * PerCall \in DOMAIN Batches(paths)[b]
           /\ \A n \in 1 .. Len(paths) :
                \E b \in 1 .. C : (b - 1) * PerCall < n /\ n <= b * PerCall
<1> DEFINE N == Len(paths)
           C == (N + PerCall - 1) \div PerCall
<1>1. N \in Nat /\ PerCall \in Nat \ {0}
  BY PatchAssumption
<1>2. C \in Nat /\ (N # 0 => C * PerCall >= N)
  <2>1. CASE N = 0
    <3>1. (0 + PerCall - 1) \div PerCall = 0
      <4>1. PerCall - 1 \in 0 .. PerCall - 1
        BY <1>1
      <4> DEFINE q == (0 + PerCall - 1) \div PerCall
                 m == (0 + PerCall - 1) % PerCall
      <4>2. q \in Int /\ m \in 0 .. PerCall - 1 /\ 0 + PerCall - 1 = q * PerCall + m
        BY <1>1
      <4> HIDE DEF q, m
      <4>3. q < 1
        <5>1. q >= 1 => q * PerCall >= PerCall
          BY <1>1, <4>2
        <5> QED BY <1>1, <4>2, <5>1
      <4>4. q > -1
        <5>1. q <= -1 => q * PerCall <= -PerCall
          BY <1>1, <4>2
        <5> QED BY <1>1, <4>2, <5>1
      <4>5. q = 0
        BY <4>2, <4>3, <4>4
      <4> QED BY <4>5 DEF q
    <3> QED BY <2>1, <3>1
  <2>2. CASE N # 0
    <3>1. N \in Nat \ {0}
      BY <1>1, <2>2
    <3> HIDE DEF N
    <3> QED BY <1>1, <3>1, Ceiling
  <2> QED BY <2>1, <2>2
<1> HIDE DEF C
<1>3. Batches(paths) = [b \in 1 .. C |->
        SubSeq(paths, (b - 1) * PerCall + 1, IF b * PerCall < N THEN b * PerCall ELSE N)]
  BY DEF Batches, C
<1>4. ASSUME NEW b \in 1 .. C
      PROVE  /\ Batches(paths)[b] \in Seq(Path)
             /\ Len(Batches(paths)[b]) <= PerCall
             /\ \A i \in DOMAIN Batches(paths)[b] :
                  /\ (b - 1) * PerCall + i \in 1 .. N
                  /\ i \in Nat /\ (b - 1) * PerCall + i <= b * PerCall
                  /\ Batches(paths)[b][i] = paths[(b - 1) * PerCall + i]
             /\ \A n \in 1 .. N :
                  (b - 1) * PerCall < n /\ n <= b * PerCall
                  => n - (b - 1) * PerCall \in DOMAIN Batches(paths)[b]
  <2> DEFINE s == (b - 1) * PerCall
             e == b * PerCall
             to == IF e < N THEN e ELSE N
             batch == SubSeq(paths, s + 1, to)
  <2>1. s \in Nat /\ e \in Nat /\ e = s + PerCall
    BY <1>1, <1>2
  <2>2. Batches(paths)[b] = batch
    BY <1>3
  <2>3. to \in Nat /\ to <= N /\ to <= e
    BY <1>1, <2>1
  <2> HIDE DEF s, e
  <2>4. batch \in Seq(Path) /\ Len(batch) = (IF s + 1 <= to THEN to - s ELSE 0)
        /\ \A i \in 1 .. Len(batch) : batch[i] = paths[s + i]
    <3> HIDE DEF to
    <3>1. s + 1 \in Nat /\ \A i \in (s + 1) .. to : i \in 1 .. Len(paths)
      BY <2>1, <2>3
    <3> QED BY <2>1, <2>3, <3>1
  <2>5. Len(batch) <= PerCall
    BY <1>1, <2>1, <2>3, <2>4
  <2>6. DOMAIN batch = 1 .. Len(batch) /\ Len(batch) \in Nat
    BY <2>4
  <2> HIDE DEF batch
  <2>7. \A i \in DOMAIN batch :
          /\ s + i \in 1 .. N /\ i \in Nat /\ s + i <= e
          /\ batch[i] = paths[s + i]
    <3> HIDE DEF to
    <3> QED BY <1>1, <2>1, <2>3, <2>4, <2>6
  <2>8. \A n \in 1 .. N : s < n /\ n <= e => n - s \in DOMAIN batch
    BY <1>1, <2>1, <2>4, <2>6
  <2> QED BY <2>2, <2>4, <2>5, <2>7, <2>8 DEF s, e
<1>5. ASSUME NEW n \in 1 .. N PROVE \E b \in 1 .. C : (b - 1) * PerCall < n /\ n <= b * PerCall
  <2> DEFINE b == (n + PerCall - 1) \div PerCall
  <2>1. b \in Nat \ {0} /\ b * PerCall >= n /\ b * PerCall - PerCall < n
    <3>1. n \in Nat \ {0}
      BY <1>1
    <3> QED BY <1>1, <3>1, Ceiling
  <2> HIDE DEF b
  <2>2. (b - 1) * PerCall = b * PerCall - PerCall
    BY <1>1, <2>1
  <2>3. b <= C
    <3>1. ASSUME C <= b - 1 PROVE FALSE
      <4>1. C * PerCall <= (b - 1) * PerCall
        BY <1>1, <1>2, <2>1, <3>1, MoreTimes
      <4>2. C * PerCall >= N /\ n <= N /\ C * PerCall \in Nat /\ (b - 1) * PerCall \in Nat
        BY <1>1, <1>2, <2>1, MoreTimes
      <4> QED BY <1>1, <2>1, <2>2, <4>1, <4>2
    <3> QED BY <1>2, <2>1, <3>1
  <2>4. b \in 1 .. C
    BY <1>2, <2>1, <2>3
  <2> QED BY <2>1, <2>2, <2>4
<1>6. DOMAIN Batches(paths) = 1 .. C
  BY <1>3
<1> HIDE DEF N
<1> QED BY <1>2, <1>4, <1>5, <1>6 DEF N

(* Every addressed path is asked for in exactly one call.                    *)
LEMMA AskedOnce ==
  ASSUME NEW n \in Nat, NEW paths \in [1 .. n -> Path], IsInjective(paths),
         NEW p \in Range(paths) \intersect DOMAIN FieldAt
  PROVE  LET asked == Batches(Addressed(paths))
         IN  Cardinality({b \in DOMAIN asked : p \in Range(asked[b])}) = 1
<1> DEFINE A == Addressed(paths)
           asked == Batches(A)
           Lo(b) == (b - 1) * PerCall
           Hi(b) == b * PerCall
<1>1. /\ A \in Seq(Path)
      /\ \A j, k \in DOMAIN A : A[j] = A[k] => j = k
      /\ \E k \in DOMAIN A : A[k] = p
  <2> HIDE DEF A
  <2> QED BY AddressedOnce DEF A
<1>2. PICK k \in DOMAIN A : A[k] = p
  BY <1>1
<1> HIDE DEF A
<1>3. DOMAIN A = 1 .. Len(A) /\ Len(A) \in Nat /\ k \in 1 .. Len(A)
  BY <1>1, <1>2
<1>4. PICK C \in Nat :
        /\ DOMAIN asked = 1 .. C
        /\ \A b \in 1 .. C : asked[b] \in Seq(Path) /\ Len(asked[b]) <= PerCall
        /\ \A b \in 1 .. C : \A i \in DOMAIN asked[b] :
             /\ Lo(b) + i \in 1 .. Len(A)
             /\ i \in Nat /\ Lo(b) + i <= Hi(b)
             /\ asked[b][i] = A[Lo(b) + i]
        /\ \A b \in 1 .. C : \A m \in 1 .. Len(A) :
             Lo(b) < m /\ m <= Hi(b) => m - Lo(b) \in DOMAIN asked[b]
        /\ \A m \in 1 .. Len(A) : \E b \in 1 .. C : Lo(b) < m /\ m <= Hi(b)
  <2> HIDE DEF asked
  <2> QED BY <1>1, PathsSharedOut DEF asked
<1>5. PICK b \in 1 .. C : Lo(b) < k /\ k <= Hi(b)
  BY <1>3, <1>4
<1>6. \A m \in 1 .. Len(A) : Lo(b) < m /\ m <= Hi(b) => m - Lo(b) \in DOMAIN asked[b]
  <2> HIDE DEF asked, Lo, Hi
  <2> QED BY <1>4
<1> HIDE DEF asked
<1>7. \A c \in 1 .. C : Lo(c) \in Nat /\ Hi(c) \in Nat
  <2>1. \A c \in 1 .. C : c \in Nat /\ c - 1 \in Nat /\ PerCall \in Nat
    BY PatchAssumption
  <2> QED BY <2>1, MoreTimes
<1>8. p \in Range(asked[b])
  <2>1. k - Lo(b) \in DOMAIN asked[b]
    BY <1>3, <1>5, <1>6, Zenon
  <2>2. Lo(b) + (k - Lo(b)) = k
    BY <1>3, <1>7
  <2>3. asked[b][k - Lo(b)] = A[k]
    BY <1>4, <2>1, <2>2
  <2> QED BY <1>2, <2>1, <2>3 DEF Range
<1>9. ASSUME NEW c \in 1 .. C, p \in Range(asked[c]) PROVE c = b
  <2>1. PICK i \in DOMAIN asked[c] : asked[c][i] = p
    BY <1>9 DEF Range
  <2>2. /\ Lo(c) + i \in DOMAIN A /\ A[Lo(c) + i] = p
        /\ i \in Nat /\ Lo(c) + i <= Hi(c) /\ i # 0
    <3>1. i \in 1 .. Len(asked[c]) /\ Len(asked[c]) \in Nat
      <4>1. asked[c] \in Seq(Path)
        BY <1>4
      <4> QED BY ONLY <2>1, <4>1
    <3> QED BY <1>3, <1>4, <2>1, <3>1
  <2>3. Lo(c) + i = k
    BY <1>1, <1>2, <2>2
  <2>4. Lo(c) < k /\ k <= Hi(c)
    BY <1>7, <2>2, <2>3
  <2>5. ~(c < b)
    <3>1. ASSUME c < b PROVE Hi(c) <= Lo(b)
      <4>1. c \in Nat /\ b - 1 \in Nat /\ c <= b - 1 /\ PerCall \in Nat
        BY <3>1, PatchAssumption
      <4> QED BY <4>1, MoreTimes
    <3> HIDE DEF Lo, Hi
    <3> QED BY <1>3, <1>5, <1>7, <2>4, <3>1
  <2>6. ~(b < c)
    <3>1. ASSUME b < c PROVE Hi(b) <= Lo(c)
      <4>1. b \in Nat /\ c - 1 \in Nat /\ b <= c - 1 /\ PerCall \in Nat
        BY <3>1, PatchAssumption
      <4> QED BY <4>1, MoreTimes
    <3> HIDE DEF Lo, Hi
    <3> QED BY <1>3, <1>5, <1>7, <2>4, <3>1
  <2> QED BY <2>5, <2>6
<1>10. {c \in DOMAIN asked : p \in Range(asked[c])} = {b}
  <2> HIDE DEF Lo, Hi
  <2> QED BY <1>4, <1>8, <1>9
<1>11. Cardinality({b}) = 1
  BY FS_Singleton
<1> QED BY <1>10, <1>11 DEF asked, A

-----------------------------------------------------------------------------
(* The texts that were accepted for a field.                                 *)
Texts(answers, f) ==
  UNION {{answers[b][i].new : i \in {j \in DOMAIN answers[b] :
                                       answers[b][j].fits /\ answers[b][j].at \in DOMAIN FieldAt
                                       /\ FieldAt[answers[b][j].at] = f}} :
         b \in {c \in DOMAIN answers : answers[c] # NoAnswer}}

Written == Path \X Nat
DocPatch == [at : Path, new : Written, fits : BOOLEAN]
Entry == [path : DOMAIN FieldAt, text : Written]

(* The maps whose texts were accepted for the fields of their paths.         *)
TextMaps(answers) ==
  {m \in Seq(Entry) : \A k \in DOMAIN m : m[k].text \in Texts(answers, FieldAt[m[k].path])}

InMap(map, p) == \E k \in DOMAIN map : map[k].path = p

(* What the calls answered: for each one a list of patches with a text, of   *)
(* which those of one path are all refused or all accepted.                  *)
GoodAnswers(answers, C) ==
  /\ DOMAIN answers = 1 .. C
  /\ \A b \in 1 .. C : answers[b] # NoAnswer =>
       /\ answers[b] \in Seq(DocPatch)
       /\ \A i \in DOMAIN answers[b] : answers[b][i].new # << >>
       /\ \A i, j \in DOMAIN answers[b] : answers[b][i].at = answers[b][j].at
                                        => answers[b][i].fits = answers[b][j].fits

(* Setting a path keeps the other entries, and the path is there then.       *)
LEMMA MapSetKeeps ==
  ASSUME NEW map \in Seq(Entry), NEW path \in DOMAIN FieldAt, NEW text \in Written
  PROVE  /\ MapSet(map, path, text) \in Seq(Entry)
         /\ \A k \in DOMAIN MapSet(map, path, text) :
              \/ MapSet(map, path, text)[k] = [path |-> path, text |-> text]
              \/ k \in DOMAIN map /\ MapSet(map, path, text)[k] = map[k]
         /\ InMap(MapSet(map, path, text), path)
         /\ \A p : InMap(map, p) => InMap(MapSet(map, path, text), p)
<1> DEFINE e == [path |-> path, text |-> text]
<1>1. e \in Entry /\ e.path = path
  BY DEF Entry
<1>2. CASE InMap(map, path)
  <2> DEFINE new == [k \in DOMAIN map |-> IF map[k].path = path THEN e ELSE map[k]]
  <2>1. MapSet(map, path, text) = new
    BY <1>2 DEF MapSet, InMap
  <2>2. DOMAIN map = 1 .. Len(map) /\ Len(map) \in Nat /\ \A k \in 1 .. Len(map) : map[k] \in Entry
    OBVIOUS
  <2> HIDE DEF e
  <2>3. new \in Seq(Entry) /\ DOMAIN new = DOMAIN map
    BY <1>1, <2>2, IsASeq
  <2>4. \A k \in DOMAIN map : new[k].path = map[k].path
    BY <1>1
  <2>5. \A k \in DOMAIN new : new[k] = e \/ (k \in DOMAIN map /\ new[k] = map[k])
    OBVIOUS
  <2> HIDE DEF new
  <2>6. \A p : InMap(map, p) => InMap(new, p)
    BY <2>3, <2>4 DEF InMap
  <2> QED BY <1>2, <2>1, <2>3, <2>5, <2>6 DEF e
<1>3. CASE ~InMap(map, path)
  <2> DEFINE new == Append(map, e)
  <2>1. MapSet(map, path, text) = new
    BY <1>3 DEF MapSet, InMap
  <2> HIDE DEF e
  <2>2. /\ new \in Seq(Entry) /\ DOMAIN map = 1 .. Len(map) /\ Len(map) \in Nat
        /\ DOMAIN new = 1 .. Len(map) + 1 /\ new[Len(map) + 1] = e
        /\ \A k \in 1 .. Len(map) : new[k] = map[k]
    BY <1>1
  <2> HIDE DEF new
  <2>3. \A k \in DOMAIN new : new[k] = e \/ (k \in DOMAIN map /\ new[k] = map[k])
    <3>1. \A k \in 1 .. Len(map) + 1 : k = Len(map) + 1 \/ k \in 1 .. Len(map)
      BY <2>2
    <3> QED BY <2>2, <3>1
  <2>4. \A p : InMap(map, p) => InMap(new, p)
    <3>1. \A k \in DOMAIN map : k \in DOMAIN new /\ new[k] = map[k]
      BY <2>2
    <3> QED BY <3>1 DEF InMap
  <2>5. InMap(new, path)
    <3>1. Len(map) + 1 \in DOMAIN new
      BY <2>2
    <3> QED BY <1>1, <2>2, <3>1 DEF InMap
  <2> QED BY <2>1, <2>2, <2>3, <2>4, <2>5 DEF e
<1> QED BY <1>2, <1>3

(* One answer: the map stays one of accepted texts and keeps its paths, and  *)
(* has a text for every path the answer has an accepted one for.             *)
LEMMA AnswerTaken ==
  ASSUME NEW C \in Nat, NEW answers, GoodAnswers(answers, C), NEW b \in 1 .. C,
         NEW map \in TextMaps(answers)
  PROVE  /\ Answered(map, answers[b]) \in TextMaps(answers)
         /\ \A p : InMap(map, p) => InMap(Answered(map, answers[b]), p)
         /\ answers[b] # NoAnswer =>
              \A i \in DOMAIN answers[b] :
                answers[b][i].fits /\ answers[b][i].at \in DOMAIN FieldAt
                => InMap(Answered(map, answers[b]), answers[b][i].at)
<1> DEFINE r == answers[b]
           L == Parsed(r)
           A == TextMaps(answers)
<1>1. CASE r = NoAnswer
  BY <1>1 DEF Answered
<1>2. CASE r # NoAnswer
  <2>1. /\ r \in Seq(DocPatch) /\ b \in DOMAIN answers
        /\ \A i \in DOMAIN r : r[i].new # << >>
        /\ \A i, j \in DOMAIN r : r[i].at = r[j].at => r[i].fits = r[j].fits
    BY <1>2 DEF GoodAnswers
  <2> HIDE DEF r
  <2>2. /\ L \in Seq(DocPatch)
        /\ \A n \in DOMAIN L : \E k \in Firsts(r) : L[n] = r[k]
        /\ \A k \in Firsts(r) : \E n \in DOMAIN L : L[n] = r[k]
    BY <2>1, ParsedFirsts
  <2>3. Answered(map, r) = AcceptedOf(map, L)
    BY <1>2 DEF Answered, AcceptedOf
  <2> HIDE DEF L
  <2> DEFINE N == Len(L)
  <2>4. N \in Nat /\ DOMAIN L = 1 .. N
    BY <2>2
  <2>5. \A n \in 1 .. N : L[n].fits /\ L[n].at \in DOMAIN FieldAt =>
          L[n].new \in Texts(answers, FieldAt[L[n].at]) /\ L[n].new \in Written
    <3> SUFFICES ASSUME NEW n \in 1 .. N, L[n].fits, L[n].at \in DOMAIN FieldAt
                 PROVE  L[n].new \in Texts(answers, FieldAt[L[n].at]) /\ L[n].new \in Written
      OBVIOUS
    <3>1. PICK k \in DOMAIN r : L[n] = r[k]
      BY <2>2, <2>4 DEF Firsts
    <3>2. r[k] \in DocPatch
      BY <2>1, <3>1, ElementOfSeq
    <3>3. r[k].new \in Written
      BY <3>2 DEF DocPatch
    <3> DEFINE f == FieldAt[r[k].at]
               of(c) == {answers[c][i].new : i \in {j \in DOMAIN answers[c] :
                           answers[c][j].fits /\ answers[c][j].at \in DOMAIN FieldAt
                           /\ FieldAt[answers[c][j].at] = f}}
    <3>4. r[k].new \in of(b)
      BY <3>1 DEF r
    <3>5. b \in {c \in DOMAIN answers : answers[c] # NoAnswer}
      BY <1>2, <2>1 DEF r
    <3>6. r[k].new \in UNION {of(c) : c \in {c \in DOMAIN answers : answers[c] # NoAnswer}}
      <4> HIDE DEF of
      <4> QED BY <3>4, <3>5
    <3> QED BY <3>1, <3>3, <3>6 DEF Texts
  <2>6. ASSUME NEW m \in A, NEW n \in 1 .. N
        PROVE  /\ Accepted(m, L[n]) \in A
               /\ \A p : InMap(m, p) => InMap(Accepted(m, L[n]), p)
               /\ L[n].fits /\ L[n].at \in DOMAIN FieldAt => InMap(Accepted(m, L[n]), L[n].at)
    <3>1. CASE ~(L[n].fits /\ L[n].at \in DOMAIN FieldAt)
      BY <3>1 DEF Accepted
    <3>2. CASE L[n].fits /\ L[n].at \in DOMAIN FieldAt
      <4> DEFINE new == MapSet(m, L[n].at, L[n].new)
      <4>1. Accepted(m, L[n]) = new
        BY <3>2 DEF Accepted
      <4>2. m \in Seq(Entry) /\ \A k \in DOMAIN m : m[k].text \in Texts(answers, FieldAt[m[k].path])
        BY DEF TextMaps
      <4>3. /\ new \in Seq(Entry)
            /\ \A k \in DOMAIN new : \/ new[k] = [path |-> L[n].at, text |-> L[n].new]
                                     \/ k \in DOMAIN m /\ new[k] = m[k]
            /\ InMap(new, L[n].at)
            /\ \A p : InMap(m, p) => InMap(new, p)
        BY <2>5, <3>2, <4>2, MapSetKeeps
      <4> HIDE DEF new
      <4>4. \A k \in DOMAIN new : new[k].text \in Texts(answers, FieldAt[new[k].path])
        BY <2>5, <3>2, <4>2, <4>3
      <4>5. new \in A
        BY <4>3, <4>4 DEF TextMaps
      <4> QED BY <4>1, <4>3, <4>5
    <3> QED BY <3>1, <3>2
  <2>7. PICK q : AcceptedSteps(q, A, N, L, map)
    <3>1. map \in A /\ \A m \in A, n \in 1 .. N : Accepted(m, L[n]) \in A
      BY <2>6
    <3> HIDE DEF A, N
    <3> QED BY <2>4, <3>1, AcceptedRun
  <2> HIDE DEF A, N
  <2>8. /\ q[0] = map /\ q[N] = AcceptedOf(map, L) /\ \A n \in 0 .. N : q[n] \in A
        /\ \A n \in 1 .. N : q[n] = Accepted(q[n - 1], L[n])
    BY <2>7 DEF AcceptedSteps
  <2> DEFINE S == {n \in Nat : /\ \A p : InMap(map, p) => InMap(q[n], p)
                               /\ \A j \in 1 .. n : L[j].fits /\ L[j].at \in DOMAIN FieldAt
                                                    => InMap(q[n], L[j].at)}
  <2>9. \A n \in 0 .. N : n \in S
    <3>1. 0 \in S
      BY <2>8
    <3>2. ASSUME NEW n \in 1 .. N, n - 1 \in S PROVE n \in S
      <4>1. q[n - 1] \in A /\ q[n] = Accepted(q[n - 1], L[n])
        BY <2>4, <2>8
      <4>2. \A p : InMap(q[n - 1], p) => InMap(q[n], p)
        BY <2>6, <4>1
      <4>3. L[n].fits /\ L[n].at \in DOMAIN FieldAt => InMap(q[n], L[n].at)
        BY <2>6, <4>1
      <4>4. \A j \in 1 .. n : j = n \/ j \in 1 .. n - 1
        OBVIOUS
      <4>5. /\ \A p : InMap(map, p) => InMap(q[n - 1], p)
            /\ \A j \in 1 .. n - 1 : L[j].fits /\ L[j].at \in DOMAIN FieldAt
                                     => InMap(q[n - 1], L[j].at)
        BY <3>2
      <4>6. \A p : InMap(map, p) => InMap(q[n], p)
        BY <4>2, <4>5
      <4>7. ASSUME NEW j \in 1 .. n, L[j].fits, L[j].at \in DOMAIN FieldAt PROVE InMap(q[n], L[j].at)
        BY <4>2, <4>3, <4>4, <4>5, <4>7
      <4> QED BY <4>6, <4>7
    <3> HIDE DEF S
    <3> QED BY <2>4, <3>1, <3>2, InductionUpTo
  <2>10. N \in S /\ q[N] = Answered(map, r) /\ q[N] \in A
    <3> HIDE DEF S
    <3> QED BY <2>3, <2>4, <2>8, <2>9
  <2>11. ASSUME NEW i \in DOMAIN r, r[i].fits, r[i].at \in DOMAIN FieldAt
         PROVE  InMap(q[N], r[i].at)
    <3>1. PICK k \in Firsts(r) : r[k].at = r[i].at
      BY <2>1, FirstThere
    <3>2. k \in DOMAIN r
      BY DEF Firsts
    <3>3. r[k].fits
      BY <2>1, <2>11, <3>1, <3>2
    <3>4. PICK n \in 1 .. N : L[n] = r[k]
      BY <2>2, <2>4
    <3> QED BY <2>10, <2>11, <3>1, <3>3, <3>4
  <2> QED BY <2>10, <2>11 DEF r, A
<1> QED BY <1>1, <1>2

(* All calls: the map holds accepted texts only, and one for every path that *)
(* has an accepted text.                                                     *)
LEMMA CallsTaken ==
  ASSUME NEW C \in Nat, NEW answers, GoodAnswers(answers, C)
  PROVE  /\ AnsweredOf(<< >>, [b \in 1 .. C |-> answers[b]]) \in TextMaps(answers)
         /\ \A b \in 1 .. C : answers[b] # NoAnswer =>
              \A i \in DOMAIN answers[b] :
                answers[b][i].fits /\ answers[b][i].at \in DOMAIN FieldAt
                => InMap(AnsweredOf(<< >>, [c \in 1 .. C |-> answers[c]]), answers[b][i].at)
<1> DEFINE L == [b \in 1 .. C |-> answers[b]]
           A == TextMaps(answers)
           Has(m, b) == answers[b] # NoAnswer =>
                          \A i \in DOMAIN answers[b] :
                            answers[b][i].fits /\ answers[b][i].at \in DOMAIN FieldAt
                            => InMap(m, answers[b][i].at)
<1>1. ASSUME NEW m \in A, NEW b \in 1 .. C
      PROVE  /\ Answered(m, L[b]) \in A
             /\ \A p : InMap(m, p) => InMap(Answered(m, L[b]), p)
             /\ Has(Answered(m, L[b]), b)
  <2>1. L[b] = answers[b]
    OBVIOUS
  <2> HIDE DEF L
  <2> QED BY <2>1, AnswerTaken
<1>2. << >> \in A
  BY DEF TextMaps
<1>3. PICK q : AnsweredSteps(q, A, C, L, << >>)
  <2>1. DOMAIN L = 1 .. C
    OBVIOUS
  <2>2. \A m \in A, b \in 1 .. C : Answered(m, L[b]) \in A
    BY <1>1
  <2> HIDE DEF A, L
  <2> QED BY <1>2, <2>1, <2>2, AnsweredRun
<1> HIDE DEF A, L
<1>4. /\ q[C] = AnsweredOf(<< >>, L) /\ \A n \in 0 .. C : q[n] \in A
      /\ \A n \in 1 .. C : q[n] = Answered(q[n - 1], L[n])
  BY <1>3 DEF AnsweredSteps
<1> DEFINE S == {n \in Nat : \A b \in 1 .. n : Has(q[n], b)}
<1>5. \A n \in 0 .. C : n \in S
  <2>1. 0 \in S
    <3>1. 1 .. 0 = {}
      OBVIOUS
    <3> HIDE DEF Has
    <3> QED BY <3>1
  <2>2. ASSUME NEW n \in 1 .. C, n - 1 \in S PROVE n \in S
    <3>1. q[n - 1] \in A /\ q[n] = Answered(q[n - 1], L[n])
      BY <1>4
    <3>2. \A p : InMap(q[n - 1], p) => InMap(q[n], p)
      BY <1>1, <3>1
    <3>3. Has(q[n], n)
      <4> HIDE DEF Has
      <4> QED BY <1>1, <3>1
    <3>4. ASSUME NEW b \in 1 .. n PROVE Has(q[n], b)
      <4>1. CASE b = n
        BY <3>3, <4>1
      <4>2. CASE b # n
        <5>1. b \in 1 .. n - 1
          BY <4>2
        <5>2. Has(q[n - 1], b)
          <6> HIDE DEF Has
          <6> QED BY <2>2, <5>1
        <5> QED BY <3>2, <5>2
      <4> QED BY <4>1, <4>2
    <3> HIDE DEF Has
    <3> QED BY <3>4
  <2> HIDE DEF S
  <2> QED BY <2>1, <2>2, InductionUpTo
<1>6. q[C] \in A /\ \A b \in 1 .. C : Has(q[C], b)
  <2>1. C \in 0 .. C
    OBVIOUS
  <2> HIDE DEF Has
  <2> QED BY <1>4, <1>5, <2>1
<1> QED BY <1>4, <1>6 DEF A, L

(* A document with the texts of a map put in: a field has a text accepted    *)
(* for it, or it is as it was and the map has no text for it.                *)
LEMMA TextsPutIn ==
  ASSUME NEW answers, NEW map \in TextMaps(answers), NEW f \in Field
  PROVE  \/ applyDocPatches(Original, map)[f] \in Texts(answers, f)
         \/ /\ applyDocPatches(Original, map)[f] = Original[f]
            /\ \A k \in DOMAIN map : FieldAt[map[k].path] # f
<1> DEFINE N == Len(map)
           V == {Original[g] : g \in Field} \union Written
           A == [Field -> V]
<1>1. /\ N \in Nat /\ DOMAIN map = 1 .. N
      /\ \A k \in 1 .. N : /\ map[k].path \in DOMAIN FieldAt /\ map[k].text \in Written
                           /\ map[k].text \in Texts(answers, FieldAt[map[k].path])
                           /\ FieldAt[map[k].path] \in Field
  <2>1. map \in Seq(Entry)
    BY DEF TextMaps
  <2>2. N \in Nat /\ DOMAIN map = 1 .. N /\ \A k \in 1 .. N : map[k] \in Entry
    BY <2>1
  <2>3. \A k \in 1 .. N : map[k].path \in DOMAIN FieldAt /\ map[k].text \in Written
    BY <2>2 DEF Entry
  <2>4. \A k \in 1 .. N : map[k].text \in Texts(answers, FieldAt[map[k].path])
    BY <2>2 DEF TextMaps
  <2> QED BY <2>2, <2>3, <2>4, PatchAssumption
<1>2. Original \in A
  BY DEF Original
<1>3. PICK d : AppliedSteps(d, A, N, map, Original)
  <2>1. \A e \in A, n \in 1 .. N : [e EXCEPT ![FieldAt[map[n].path]] = map[n].text] \in A
    BY <1>1
  <2> HIDE DEF A, N
  <2> QED BY <1>1, <1>2, <2>1, AppliedRun
<1>4. /\ d[0] = Original /\ d[N] = applyDocPatches(Original, map) /\ \A n \in 0 .. N : d[n] \in A
      /\ \A n \in 1 .. N : d[n] = [d[n - 1] EXCEPT ![FieldAt[map[n].path]] = map[n].text]
  BY <1>3 DEF AppliedSteps
<1> HIDE DEF N
<1> DEFINE S == {n \in Nat : \/ d[n][f] \in Texts(answers, f)
                             \/ /\ d[n][f] = Original[f]
                                /\ \A k \in 1 .. n : FieldAt[map[k].path] # f}
<1>5. \A n \in 0 .. N : n \in S
  <2>1. 0 \in S
    BY <1>4
  <2>2. ASSUME NEW n \in 1 .. N, n - 1 \in S PROVE n \in S
    <3>1. d[n - 1] \in A /\ d[n] = [d[n - 1] EXCEPT ![FieldAt[map[n].path]] = map[n].text]
      BY <1>1, <1>4
    <3>2. CASE FieldAt[map[n].path] = f
      <4>1. d[n][f] = map[n].text
        BY <3>1, <3>2
      <4> QED BY <1>1, <3>2, <4>1
    <3>3. CASE FieldAt[map[n].path] # f
      <4>1. d[n][f] = d[n - 1][f]
        BY <3>1, <3>3
      <4>2. \A k \in 1 .. n : k = n \/ k \in 1 .. n - 1
        OBVIOUS
      <4> HIDE DEF V
      <4> QED BY <2>2, <3>3, <4>1, <4>2
    <3> QED BY <3>2, <3>3
  <2> HIDE DEF S
  <2> QED BY <1>1, <2>1, <2>2, InductionUpTo
<1>6. N \in S
  <2> HIDE DEF S
  <2> QED BY <1>1, <1>5
<1> QED BY <1>1, <1>4, <1>6

(* The answers a model gives are good ones.                                  *)
LEMMA AnswersGood ==
  ASSUME NEW C \in Nat, NEW batches, DOMAIN batches = 1 .. C,
         \A b \in 1 .. C : batches[b] \in Seq(Path),
         NEW lost, NEW refused,
         NEW more \in ((DOMAIN batches) \X Path) \union {<<0, 0>>}
  PROVE  GoodAnswers(Answers(batches, lost, refused, more), C)
<1> DEFINE answers == Answers(batches, lost, refused, more)
           asked(b) == batches[b] \o (IF more[1] = b THEN <<more[2]>> ELSE << >>)
           list(b) == [i \in DOMAIN asked(b) |-> [at |-> asked(b)[i], new |-> <<asked(b)[i], b>>,
                                                fits |-> asked(b)[i] \notin refused]]
<1>1. answers = [b \in 1 .. C |-> IF b \in lost THEN NoAnswer ELSE list(b)]
  BY DEF Answers
<1>2. ASSUME NEW b \in 1 .. C PROVE asked(b) \in Seq(Path)
  <2>1. more[1] = b => more[2] \in Path
    OBVIOUS
  <2>2. (IF more[1] = b THEN <<more[2]>> ELSE << >>) \in Seq(Path)
    BY <2>1
  <2> QED BY <2>2, ConcatProperties
<1> HIDE DEF asked
<1>3. ASSUME NEW b \in 1 .. C
      PROVE  /\ list(b) \in Seq(DocPatch)
             /\ \A i \in DOMAIN list(b) : list(b)[i].new # << >>
             /\ \A i, j \in DOMAIN list(b) :
                  list(b)[i].at = list(b)[j].at => list(b)[i].fits = list(b)[j].fits
  <2>1. /\ DOMAIN asked(b) = 1 .. Len(asked(b)) /\ Len(asked(b)) \in Nat
        /\ \A i \in 1 .. Len(asked(b)) : asked(b)[i] \in Path
    BY <1>2
  <2>2. \A i \in 1 .. Len(asked(b)) :
          [at |-> asked(b)[i], new |-> <<asked(b)[i], b>>,
           fits |-> asked(b)[i] \notin refused] \in DocPatch
    BY <2>1 DEF DocPatch, Written
  <2>3. list(b) \in Seq(DocPatch)
    BY <2>1, <2>2, IsASeq
  <2>4. DOMAIN list(b) = DOMAIN asked(b)
    OBVIOUS
  <2>5. \A i \in DOMAIN asked(b) :
          /\ list(b)[i].at = asked(b)[i] /\ list(b)[i].new = <<asked(b)[i], b>>
          /\ list(b)[i].fits = (asked(b)[i] \notin refused)
    OBVIOUS
  <2>6. \A i \in DOMAIN asked(b) : <<asked(b)[i], b>> # << >>
    OBVIOUS
  <2> HIDE DEF list
  <2> QED BY <2>3, <2>4, <2>5, <2>6
<1> HIDE DEF list, answers
<1>4. \A b \in 1 .. C : answers[b] # NoAnswer => answers[b] = list(b)
  BY <1>1
<1>5. DOMAIN answers = 1 .. C
  BY <1>1
<1>6. ASSUME NEW b \in 1 .. C, answers[b] # NoAnswer
      PROVE  /\ answers[b] \in Seq(DocPatch)
             /\ \A i \in DOMAIN answers[b] : answers[b][i].new # << >>
             /\ \A i, j \in DOMAIN answers[b] :
                  answers[b][i].at = answers[b][j].at => answers[b][i].fits = answers[b][j].fits
  <2>1. answers[b] = list(b)
    BY <1>4, <1>6
  <2>2. /\ list(b) \in Seq(DocPatch)
        /\ \A i \in DOMAIN list(b) : list(b)[i].new # << >>
        /\ \A i, j \in DOMAIN list(b) :
             list(b)[i].at = list(b)[j].at => list(b)[i].fits = list(b)[j].fits
    BY <1>3
  <2> QED BY <2>1, <2>2, Zenon
<1>7. GoodAnswers(answers, C)
  BY <1>5, <1>6 DEF GoodAnswers
<1> QED BY <1>7 DEF answers

-----------------------------------------------------------------------------
LEMMA HtmlStep ==
  ASSUME RepairHtml
  PROVE  PatchesLandInPlace'
<1>1. PICK blocks \in Layout, found \in SUBSET WithFindings,
           r \in BoundedSeq([at : Address, new : Fragment, fits : BOOLEAN], MaxPatches)
                 \union {NoAnswer} :
        /\ job' = [blocks |-> blocks, found |-> found, response |-> r]
        /\ repaired' = repairBlocks(Html, blocks, found, r)
  BY DEF RepairHtml
<1>2. r \in Seq(Patch) \/ r = NoAnswer
  <2>1. \A n \in 0 .. MaxPatches : [1 .. n -> Patch] \in SUBSET Seq(Patch)
    <3>1. \A n \in 0 .. MaxPatches : n \in Nat
      BY PatchAssumption
    <3> QED BY <3>1
  <2>2. BoundedSeq(Patch, MaxPatches) \in SUBSET Seq(Patch)
    BY <2>1 DEF BoundedSeq, SeqOf
  <2> QED BY <2>2 DEF Patch
<1>3. repaired' = Meant(blocks, found, r)
  BY <1>1, <1>2, BlocksRepaired
<1>4. repaired' = Meant(job'.blocks, job'.found, job'.response)
  BY <1>1, <1>3
<1>5. OtherBytesStay'
  BY <1>4 DEF OtherBytesStay, Meant, Good, FirstFor
<1>6. OtherFieldsStay'
  BY DEF RepairHtml, OtherFieldsStay
<1> QED BY <1>5, <1>6 DEF PatchesLandInPlace

(* What is promised of a repaired document.                                  *)
FieldsStay(j, result) ==
  /\ \A p \in Range(j.paths) \intersect DOMAIN FieldAt :
       Cardinality({b \in DOMAIN j.asked : p \in Range(j.asked[b])}) = 1
  /\ \A b \in DOMAIN j.asked : Len(j.asked[b]) <= PerCall
  /\ \A f \in Field : IF Texts(j.answers, f) = {} THEN result[f] = Original[f]
                       ELSE result[f] \in Texts(j.answers, f)

LEMMA DocStep ==
  ASSUME RepairDoc
  PROVE  PatchesLandInPlace'
<1>1. PICK k \in 0..Cardinality(Path) : \E paths \in {s \in [1..k -> Path] : IsInjective(s)} :
        \E lost \in SUBSET DOMAIN Batches(Addressed(paths)), refused \in SUBSET Path,
           more \in ((DOMAIN Batches(Addressed(paths))) \X Path) \union {<<0, 0>>} :
          /\ job' = [paths |-> paths, asked |-> Batches(Addressed(paths)),
                     answers |-> Answers(Batches(Addressed(paths)), lost, refused, more)]
          /\ repaired' = repairDocBlocks(Original, paths,
                                         Answers(Batches(Addressed(paths)), lost, refused, more))
  BY DEF RepairDoc
<1>2. PICK paths \in {s \in [1..k -> Path] : IsInjective(s)} :
        \E lost \in SUBSET DOMAIN Batches(Addressed(paths)), refused \in SUBSET Path,
           more \in ((DOMAIN Batches(Addressed(paths))) \X Path) \union {<<0, 0>>} :
          /\ job' = [paths |-> paths, asked |-> Batches(Addressed(paths)),
                     answers |-> Answers(Batches(Addressed(paths)), lost, refused, more)]
          /\ repaired' = repairDocBlocks(Original, paths,
                                         Answers(Batches(Addressed(paths)), lost, refused, more))
  BY <1>1
<1> DEFINE batches == Batches(Addressed(paths))
<1>3. PICK lost \in SUBSET DOMAIN batches, refused \in SUBSET Path,
           more \in ((DOMAIN batches) \X Path) \union {<<0, 0>>} :
        /\ job' = [paths |-> paths, asked |-> batches,
                   answers |-> Answers(batches, lost, refused, more)]
        /\ repaired' = repairDocBlocks(Original, paths, Answers(batches, lost, refused, more))
  BY <1>2
<1>4. k \in Nat /\ paths \in [1 .. k -> Path] /\ IsInjective(paths)
  <2>1. Cardinality(Path) \in Nat
    BY PatchAssumption, FS_CardinalityType
  <2> QED BY <2>1
<1>5. Addressed(paths) \in Seq(Path)
  BY <1>4, AddressedOnce
<1>6. PICK C \in Nat : /\ DOMAIN batches = 1 .. C
                       /\ \A b \in 1 .. C : batches[b] \in Seq(Path) /\ Len(batches[b]) <= PerCall
  <2>1. \A list \in Seq(Path) : \E C \in Nat :
          /\ DOMAIN Batches(list) = 1 .. C
          /\ \A b \in 1 .. C : Batches(list)[b] \in Seq(Path) /\ Len(Batches(list)[b]) <= PerCall
    BY PathsSharedOut
  <2> QED BY <1>5, <2>1
<1> DEFINE answers == Answers(batches, lost, refused, more)
           map == AnsweredOf(<< >>, [b \in 1 .. C |-> answers[b]])
<1> HIDE DEF answers
<1>7. GoodAnswers(answers, C)
  <2> HIDE DEF batches
  <2> QED BY <1>6, AnswersGood DEF answers
<1>8. /\ map \in TextMaps(answers)
      /\ \A b \in 1 .. C : answers[b] # NoAnswer =>
           \A i \in DOMAIN answers[b] :
             answers[b][i].fits /\ answers[b][i].at \in DOMAIN FieldAt => InMap(map, answers[b][i].at)
  <2> HIDE DEF map
  <2> QED BY <1>7, CallsTaken DEF map
<1>9. repaired' = applyDocPatches(Original, map)
  <2>1. [b \in DOMAIN batches |-> answers[b]] = [b \in 1 .. C |-> answers[b]]
    <3> HIDE DEF batches
    <3> QED BY <1>6
  <2>2. repairDocBlocks(Original, paths, answers)
          = applyDocPatches(Original, AnsweredOf(<< >>, [b \in DOMAIN batches |-> answers[b]]))
    BY DEF repairDocBlocks, AnsweredOf
  <2>3. repaired' = repairDocBlocks(Original, paths, answers)
    BY <1>3 DEF answers
  <2> HIDE DEF batches
  <2> QED BY <2>1, <2>2, <2>3
<1>10. ASSUME NEW p \in Range(paths) \intersect DOMAIN FieldAt
       PROVE  Cardinality({b \in DOMAIN batches : p \in Range(batches[b])}) = 1
  <2> HIDE DEF batches
  <2> QED BY <1>4, AskedOnce DEF batches
<1> HIDE DEF batches, map
<1>11. ASSUME NEW f \in Field
       PROVE  IF Texts(answers, f) = {} THEN repaired'[f] = Original[f]
              ELSE repaired'[f] \in Texts(answers, f)
  <2>1. \/ repaired'[f] \in Texts(answers, f)
        \/ /\ repaired'[f] = Original[f]
           /\ \A n \in DOMAIN map : FieldAt[map[n].path] # f
    BY <1>8, <1>9, TextsPutIn
  <2>2. ASSUME Texts(answers, f) # {} PROVE \E n \in DOMAIN map : FieldAt[map[n].path] = f
    <3> DEFINE of(b) == {answers[b][i].new : i \in {j \in DOMAIN answers[b] :
                           answers[b][j].fits /\ answers[b][j].at \in DOMAIN FieldAt
                           /\ FieldAt[answers[b][j].at] = f}}
    <3>1. Texts(answers, f) = UNION {of(b) : b \in {c \in DOMAIN answers : answers[c] # NoAnswer}}
      BY DEF Texts
    <3>2. PICK b \in {c \in DOMAIN answers : answers[c] # NoAnswer} : of(b) # {}
      <4> HIDE DEF of
      <4> QED BY <2>2, <3>1
    <3>3. PICK i \in DOMAIN answers[b] :
            answers[b][i].fits /\ answers[b][i].at \in DOMAIN FieldAt /\ FieldAt[answers[b][i].at] = f
      BY <3>2
    <3>4. b \in 1 .. C /\ answers[b] # NoAnswer
      BY <1>7 DEF GoodAnswers
    <3>5. InMap(map, answers[b][i].at)
      BY <1>8, <3>3, <3>4
    <3> QED BY <3>3, <3>5 DEF InMap
  <2> QED BY <2>1, <2>2
<1>12. /\ job'.paths = paths /\ job'.asked = batches /\ job'.answers = answers
  BY <1>3 DEF answers
<1>13. OtherFieldsStay'
  <2>1. \A p \in Range(job'.paths) \intersect DOMAIN FieldAt :
          Cardinality({b \in DOMAIN job'.asked : p \in Range(job'.asked[b])}) = 1
    BY <1>10, <1>12
  <2>2. \A b \in DOMAIN job'.asked : Len(job'.asked[b]) <= PerCall
    BY <1>6, <1>12
  <2>3. \A f \in Field : IF Texts(job'.answers, f) = {} THEN repaired'[f] = Original[f]
                         ELSE repaired'[f] \in Texts(job'.answers, f)
    BY <1>11, <1>12
  <2> QED BY <2>1, <2>2, <2>3 DEF OtherFieldsStay, Texts
<1>14. OtherBytesStay'
  BY DEF RepairDoc, OtherBytesStay
<1> QED BY <1>13, <1>14 DEF PatchesLandInPlace

(* "leave every other byte alone" (block-repair.ts:5), for HTML of any       *)
(* length with any blocks and any answer, and the same for the fields of a   *)
(* document: a repair of single blocks replaces exactly the innermost of the *)
(* blocks whose first patch fits, and a failed call of repairDocBlocks       *)
(* loses its own fields only.                                                *)
THEOREM PatchesLand == PatchSpec => []PatchesLandInPlace
<1>1. PatchInit => PatchesLandInPlace
  BY DEF PatchInit, PatchesLandInPlace, OtherBytesStay, OtherFieldsStay
<1>2. PatchesLandInPlace /\ [PatchNext]_patchVars => PatchesLandInPlace'
  <2> SUFFICES ASSUME PatchesLandInPlace, [PatchNext]_patchVars PROVE PatchesLandInPlace'
    OBVIOUS
  <2>1. CASE RepairHtml
    BY <2>1, HtmlStep
  <2>2. CASE RepairDoc
    BY <2>2, DocStep
  <2>3. CASE UNCHANGED patchVars
    <3>1. patching' = patching /\ job' = job /\ repaired' = repaired
      BY <2>3 DEF patchVars
    <3>2. OtherBytesStay'
      <4>1. patching = "html" => repaired = Meant(job.blocks, job.found, job.response)
        BY DEF PatchesLandInPlace, OtherBytesStay, Meant, Good, FirstFor
      <4>2. patching' = "html" => repaired' = Meant(job'.blocks, job'.found, job'.response)
        BY <3>1, <4>1
      <4> QED BY <4>2 DEF OtherBytesStay, Meant, Good, FirstFor
    <3>3. OtherFieldsStay'
      <4>1. patching = "doc" => FieldsStay(job, repaired)
        BY DEF PatchesLandInPlace, OtherFieldsStay, FieldsStay, Texts
      <4>2. patching' = "doc" => FieldsStay(job', repaired')
        BY <3>1, <4>1
      <4> QED BY <4>2 DEF OtherFieldsStay, FieldsStay, Texts
    <3> QED BY <3>2, <3>3 DEF PatchesLandInPlace
  <2> QED BY <2>1, <2>2, <2>3 DEF PatchNext
<1> QED BY <1>1, <1>2, PTL DEF PatchSpec

-----------------------------------------------------------------------------
(* The folds of the marker step, each told as a run of its steps.            *)
ScrubbedBy(manifest, t, pieces) ==
  FoldLeft(LAMBDA u, p : IF p \in Marker THEN visit(manifest, u, p, << >>) ELSE u, t, pieces)
SplitBy(manifest, w, pieces) ==
  FoldLeft(LAMBDA a, p : OnePiece(manifest, a, p), [s |-> w, cur |-> << >>], pieces)
AppendedBy(manifest, d, files) ==
  FoldLeft(LAMBDA e, f : appendFigureAtEndDoc(e, UrlOf(manifest, f)), d, files)
EndedBy(manifest, blocks, files) ==
  FoldLeft(LAMBDA all, f : AtEnd(all, UrlOf(manifest, f)), blocks, files)

(* The markers of a carrier, piece by piece.                                 *)
ScrubSteps(r, N, L, manifest, t) ==
  /\ r[0] = t /\ r[N] = ScrubbedBy(manifest, t, L)
  /\ \A n \in 1 .. N : r[n] = (IF L[n] \in Marker THEN visit(manifest, r[n - 1], L[n], << >>) ELSE r[n - 1])

LEMMA ScrubRun ==
  ASSUME NEW N \in Nat, NEW L, DOMAIN L = 1 .. N, NEW manifest, NEW t
  PROVE  \E r : ScrubSteps(r, N, L, manifest, t)
<1> DEFINE Op(a, i) == (IF i \in Marker THEN visit(manifest, a, i, << >>) ELSE a)
           Value(h, s) == IF s = {} THEN t ELSE Op(h[s \ {Max(s)}], L[Max(s)])
           it == CHOOSE h : h = [s \in SUBSET (1 .. N) |-> Value(h, s)]
           Known(n, h) == \A s \in SUBSET (1 .. n) : h[s] = Value(h, s)
           M == {n \in Nat : n <= N => \E h : Known(n, h)}
<1>1. ScrubbedBy(manifest, t, L) = it[1 .. N]
  BY DEF ScrubbedBy, FoldLeft, MapThenFoldSet
<1>2. 0 \in M
  <2> DEFINE h == [s \in SUBSET (1 .. 0) |-> t]
  <2>1. Known(0, h)
    <3> HIDE DEF Op
    <3>1. \A s \in SUBSET (1 .. 0) : s = {}
      OBVIOUS
    <3> QED BY <3>1
  <2> HIDE DEF Known, h
  <2> QED BY <2>1
<1>3. ASSUME NEW n \in Nat, n \in M PROVE n + 1 \in M
  <2> SUFFICES ASSUME n + 1 <= N PROVE \E h : Known(n + 1, h)
    <3> HIDE DEF Known
    <3> QED OBVIOUS
  <2>1. PICK f : Known(n, f)
    <3> HIDE DEF Known
    <3> QED BY <1>3
  <2> DEFINE h == [s \in SUBSET (1 .. n + 1) |-> Value(f, s)]
  <2> HIDE DEF Op
  <2>2. ASSUME NEW s \in SUBSET (1 .. n + 1) PROVE h[s] = Value(h, s)
    <3>1. CASE s = {}
      BY <3>1
    <3>2. CASE s # {}
      <4> DEFINE m == n + 1
      <4>0. m \in Nat /\ s \in SUBSET (1 .. m)
        OBVIOUS
      <4>1. Max(s) \in s /\ \A y \in s : y <= Max(s)
        <5> HIDE DEF m
        <5> QED BY <3>2, <4>0, PlacesHaveLast
      <4>2. s \ {Max(s)} \in SUBSET (1 .. n) /\ s \ {Max(s)} \in SUBSET (1 .. n + 1)
        <5>1. \A y \in s : y # Max(s) => y \in 1 .. n
          <6> SUFFICES ASSUME NEW y \in s, y # Max(s) PROVE y \in 1 .. n
            OBVIOUS
          <6>1. y \in 1 .. n + 1 /\ Max(s) \in 1 .. n + 1 /\ y <= Max(s)
            BY <4>0, <4>1
          <6> HIDE DEF m
          <6> QED BY <6>1
        <5> QED BY <5>1
      <4>3. h[s \ {Max(s)}] = f[s \ {Max(s)}]
        BY <2>1, <4>2
      <4> QED BY <3>2, <4>3
    <3> QED BY <3>1, <3>2
  <2> HIDE DEF h
  <2>3. Known(n + 1, h)
    BY <2>2
  <2> QED BY <2>3
<1>4. PICK f : Known(N, f)
  <2> HIDE DEF M, Known
  <2>1. \A n \in Nat : n \in M
    BY <1>2, <1>3, Induction
  <2> QED BY <2>1 DEF M
<1>5. it = [s \in SUBSET (1 .. N) |-> Value(it, s)]
  <2> DEFINE h == [s \in SUBSET (1 .. N) |-> f[s]]
  <2> HIDE DEF Op
  <2>1. h = [s \in SUBSET (1 .. N) |-> Value(h, s)]
    <3>1. \A s \in SUBSET (1 .. N) : s \ {Max(s)} \in SUBSET (1 .. N)
      OBVIOUS
    <3> QED BY <1>4, <3>1
  <2> HIDE DEF h, Value
  <2> QED BY <2>1
<1> DEFINE r == [n \in 0 .. N |-> it[1 .. n]]
<1>6. r[0] = t
  <2>1. 0 \in 0 .. N /\ 1 .. 0 = {} /\ {} \in SUBSET (1 .. N)
    OBVIOUS
  <2> HIDE DEF Op, it
  <2> QED BY <1>5, <2>1
<1>7. ASSUME NEW n \in 1 .. N PROVE r[n] = Op(r[n - 1], L[n])
  <2>1. 1 .. n \in SUBSET (1 .. N) /\ 1 .. n # {} /\ Max(1 .. n) = n /\ (1 .. n) \ {n} = 1 .. n - 1
    BY PrefixSteps
  <2>2. n \in 0 .. N /\ n - 1 \in 0 .. N
    OBVIOUS
  <2> HIDE DEF Op, it
  <2> QED BY <1>5, <2>1, <2>2
<1>8. r[N] = it[1 .. N]
  OBVIOUS
<1> HIDE DEF r, it
<1> QED BY <1>1, <1>6, <1>7, <1>8 DEF ScrubSteps

(* A paragraph, piece by piece.                                              *)
SplitSteps(r, N, L, manifest, w) ==
  /\ r[0] = [s |-> w, cur |-> << >>] /\ r[N] = SplitBy(manifest, w, L)
  /\ \A n \in 1 .. N : r[n] = OnePiece(manifest, r[n - 1], L[n])

LEMMA SplitRun ==
  ASSUME NEW N \in Nat, NEW L, DOMAIN L = 1 .. N, NEW manifest, NEW w
  PROVE  \E r : SplitSteps(r, N, L, manifest, w)
<1> DEFINE Op(a, i) == OnePiece(manifest, a, i)
           Value(h, s) == IF s = {} THEN [s |-> w, cur |-> << >>] ELSE Op(h[s \ {Max(s)}], L[Max(s)])
           it == CHOOSE h : h = [s \in SUBSET (1 .. N) |-> Value(h, s)]
           Known(n, h) == \A s \in SUBSET (1 .. n) : h[s] = Value(h, s)
           M == {n \in Nat : n <= N => \E h : Known(n, h)}
<1>1. SplitBy(manifest, w, L) = it[1 .. N]
  BY DEF SplitBy, FoldLeft, MapThenFoldSet
<1>2. 0 \in M
  <2> DEFINE h == [s \in SUBSET (1 .. 0) |-> [s |-> w, cur |-> << >>]]
  <2>1. Known(0, h)
    <3> HIDE DEF Op
    <3>1. \A s \in SUBSET (1 .. 0) : s = {}
      OBVIOUS
    <3> QED BY <3>1
  <2> HIDE DEF Known, h
  <2> QED BY <2>1
<1>3. ASSUME NEW n \in Nat, n \in M PROVE n + 1 \in M
  <2> SUFFICES ASSUME n + 1 <= N PROVE \E h : Known(n + 1, h)
    <3> HIDE DEF Known
    <3> QED OBVIOUS
  <2>1. PICK f : Known(n, f)
    <3> HIDE DEF Known
    <3> QED BY <1>3
  <2> DEFINE h == [s \in SUBSET (1 .. n + 1) |-> Value(f, s)]
  <2> HIDE DEF Op
  <2>2. ASSUME NEW s \in SUBSET (1 .. n + 1) PROVE h[s] = Value(h, s)
    <3>1. CASE s = {}
      BY <3>1
    <3>2. CASE s # {}
      <4> DEFINE m == n + 1
      <4>0. m \in Nat /\ s \in SUBSET (1 .. m)
        OBVIOUS
      <4>1. Max(s) \in s /\ \A y \in s : y <= Max(s)
        <5> HIDE DEF m
        <5> QED BY <3>2, <4>0, PlacesHaveLast
      <4>2. s \ {Max(s)} \in SUBSET (1 .. n) /\ s \ {Max(s)} \in SUBSET (1 .. n + 1)
        <5>1. \A y \in s : y # Max(s) => y \in 1 .. n
          <6> SUFFICES ASSUME NEW y \in s, y # Max(s) PROVE y \in 1 .. n
            OBVIOUS
          <6>1. y \in 1 .. n + 1 /\ Max(s) \in 1 .. n + 1 /\ y <= Max(s)
            BY <4>0, <4>1
          <6> HIDE DEF m
          <6> QED BY <6>1
        <5> QED BY <5>1
      <4>3. h[s \ {Max(s)}] = f[s \ {Max(s)}]
        BY <2>1, <4>2
      <4> QED BY <3>2, <4>3
    <3> QED BY <3>1, <3>2
  <2> HIDE DEF h
  <2>3. Known(n + 1, h)
    BY <2>2
  <2> QED BY <2>3
<1>4. PICK f : Known(N, f)
  <2> HIDE DEF M, Known
  <2>1. \A n \in Nat : n \in M
    BY <1>2, <1>3, Induction
  <2> QED BY <2>1 DEF M
<1>5. it = [s \in SUBSET (1 .. N) |-> Value(it, s)]
  <2> DEFINE h == [s \in SUBSET (1 .. N) |-> f[s]]
  <2> HIDE DEF Op
  <2>1. h = [s \in SUBSET (1 .. N) |-> Value(h, s)]
    <3>1. \A s \in SUBSET (1 .. N) : s \ {Max(s)} \in SUBSET (1 .. N)
      OBVIOUS
    <3> QED BY <1>4, <3>1
  <2> HIDE DEF h, Value
  <2> QED BY <2>1
<1> DEFINE r == [n \in 0 .. N |-> it[1 .. n]]
<1>6. r[0] = [s |-> w, cur |-> << >>]
  <2>1. 0 \in 0 .. N /\ 1 .. 0 = {} /\ {} \in SUBSET (1 .. N)
    OBVIOUS
  <2> HIDE DEF Op, it
  <2> QED BY <1>5, <2>1
<1>7. ASSUME NEW n \in 1 .. N PROVE r[n] = Op(r[n - 1], L[n])
  <2>1. 1 .. n \in SUBSET (1 .. N) /\ 1 .. n # {} /\ Max(1 .. n) = n /\ (1 .. n) \ {n} = 1 .. n - 1
    BY PrefixSteps
  <2>2. n \in 0 .. N /\ n - 1 \in 0 .. N
    OBVIOUS
  <2> HIDE DEF Op, it
  <2> QED BY <1>5, <2>1, <2>2
<1>8. r[N] = it[1 .. N]
  OBVIOUS
<1> HIDE DEF r, it
<1> QED BY <1>1, <1>6, <1>7, <1>8 DEF SplitSteps

(* The blocks, one by one.                                                   *)
WalkSteps(r, N, L, manifest) ==
  /\ r[0] = [t |-> Tracker, last |-> << >>, out |-> << >>] /\ r[N] = Walk(manifest, L)
  /\ \A n \in 1 .. N : r[n] = OneBlock(manifest, r[n - 1], L[n])

LEMMA WalkRun ==
  ASSUME NEW N \in Nat, NEW L, DOMAIN L = 1 .. N, NEW manifest
  PROVE  \E r : WalkSteps(r, N, L, manifest)
<1> DEFINE Op(a, i) == OneBlock(manifest, a, i)
           Value(h, s) == IF s = {} THEN [t |-> Tracker, last |-> << >>, out |-> << >>]
                          ELSE Op(h[s \ {Max(s)}], L[Max(s)])
           it == CHOOSE h : h = [s \in SUBSET (1 .. N) |-> Value(h, s)]
           Known(n, h) == \A s \in SUBSET (1 .. n) : h[s] = Value(h, s)
           M == {n \in Nat : n <= N => \E h : Known(n, h)}
<1>1. Walk(manifest, L) = it[1 .. N]
  BY DEF Walk, FoldLeft, MapThenFoldSet
<1>2. 0 \in M
  <2> DEFINE h == [s \in SUBSET (1 .. 0) |-> [t |-> Tracker, last |-> << >>, out |-> << >>]]
  <2>1. Known(0, h)
    <3> HIDE DEF Op
    <3>1. \A s \in SUBSET (1 .. 0) : s = {}
      OBVIOUS
    <3> QED BY <3>1
  <2> HIDE DEF Known, h
  <2> QED BY <2>1
<1>3. ASSUME NEW n \in Nat, n \in M PROVE n + 1 \in M
  <2> SUFFICES ASSUME n + 1 <= N PROVE \E h : Known(n + 1, h)
    <3> HIDE DEF Known
    <3> QED OBVIOUS
  <2>1. PICK f : Known(n, f)
    <3> HIDE DEF Known
    <3> QED BY <1>3
  <2> DEFINE h == [s \in SUBSET (1 .. n + 1) |-> Value(f, s)]
  <2> HIDE DEF Op
  <2>2. ASSUME NEW s \in SUBSET (1 .. n + 1) PROVE h[s] = Value(h, s)
    <3>1. CASE s = {}
      BY <3>1
    <3>2. CASE s # {}
      <4> DEFINE m == n + 1
      <4>0. m \in Nat /\ s \in SUBSET (1 .. m)
        OBVIOUS
      <4>1. Max(s) \in s /\ \A y \in s : y <= Max(s)
        <5> HIDE DEF m
        <5> QED BY <3>2, <4>0, PlacesHaveLast
      <4>2. s \ {Max(s)} \in SUBSET (1 .. n) /\ s \ {Max(s)} \in SUBSET (1 .. n + 1)
        <5>1. \A y \in s : y # Max(s) => y \in 1 .. n
          <6> SUFFICES ASSUME NEW y \in s, y # Max(s) PROVE y \in 1 .. n
            OBVIOUS
          <6>1. y \in 1 .. n + 1 /\ Max(s) \in 1 .. n + 1 /\ y <= Max(s)
            BY <4>0, <4>1
          <6> HIDE DEF m
          <6> QED BY <6>1
        <5> QED BY <5>1
      <4>3. h[s \ {Max(s)}] = f[s \ {Max(s)}]
        BY <2>1, <4>2
      <4> QED BY <3>2, <4>3
    <3> QED BY <3>1, <3>2
  <2> HIDE DEF h
  <2>3. Known(n + 1, h)
    BY <2>2
  <2> QED BY <2>3
<1>4. PICK f : Known(N, f)
  <2> HIDE DEF M, Known
  <2>1. \A n \in Nat : n \in M
    BY <1>2, <1>3, Induction
  <2> QED BY <2>1 DEF M
<1>5. it = [s \in SUBSET (1 .. N) |-> Value(it, s)]
  <2> DEFINE h == [s \in SUBSET (1 .. N) |-> f[s]]
  <2> HIDE DEF Op
  <2>1. h = [s \in SUBSET (1 .. N) |-> Value(h, s)]
    <3>1. \A s \in SUBSET (1 .. N) : s \ {Max(s)} \in SUBSET (1 .. N)
      OBVIOUS
    <3> QED BY <1>4, <3>1
  <2> HIDE DEF h, Value
  <2> QED BY <2>1
<1> DEFINE r == [n \in 0 .. N |-> it[1 .. n]]
<1>6. r[0] = [t |-> Tracker, last |-> << >>, out |-> << >>]
  <2>1. 0 \in 0 .. N /\ 1 .. 0 = {} /\ {} \in SUBSET (1 .. N)
    OBVIOUS
  <2> HIDE DEF Op, it
  <2> QED BY <1>5, <2>1
<1>7. ASSUME NEW n \in 1 .. N PROVE r[n] = Op(r[n - 1], L[n])
  <2>1. 1 .. n \in SUBSET (1 .. N) /\ 1 .. n # {} /\ Max(1 .. n) = n /\ (1 .. n) \ {n} = 1 .. n - 1
    BY PrefixSteps
  <2>2. n \in 0 .. N /\ n - 1 \in 0 .. N
    OBVIOUS
  <2> HIDE DEF Op, it
  <2> QED BY <1>5, <2>1, <2>2
<1>8. r[N] = it[1 .. N]
  OBVIOUS
<1> HIDE DEF r, it
<1> QED BY <1>1, <1>6, <1>7, <1>8 DEF WalkSteps

(* What the last resort appends, image by image.                             *)
AppendSteps(r, N, L, manifest, d) ==
  /\ r[0] = d /\ r[N] = AppendedBy(manifest, d, L)
  /\ \A n \in 1 .. N : r[n] = appendFigureAtEndDoc(r[n - 1], UrlOf(manifest, L[n]))

LEMMA AppendRun ==
  ASSUME NEW N \in Nat, NEW L, DOMAIN L = 1 .. N, NEW manifest, NEW d
  PROVE  \E r : AppendSteps(r, N, L, manifest, d)
<1> DEFINE Op(a, i) == appendFigureAtEndDoc(a, UrlOf(manifest, i))
           Value(h, s) == IF s = {} THEN d ELSE Op(h[s \ {Max(s)}], L[Max(s)])
           it == CHOOSE h : h = [s \in SUBSET (1 .. N) |-> Value(h, s)]
           Known(n, h) == \A s \in SUBSET (1 .. n) : h[s] = Value(h, s)
           M == {n \in Nat : n <= N => \E h : Known(n, h)}
<1>1. AppendedBy(manifest, d, L) = it[1 .. N]
  BY DEF AppendedBy, FoldLeft, MapThenFoldSet
<1>2. 0 \in M
  <2> DEFINE h == [s \in SUBSET (1 .. 0) |-> d]
  <2>1. Known(0, h)
    <3> HIDE DEF Op
    <3>1. \A s \in SUBSET (1 .. 0) : s = {}
      OBVIOUS
    <3> QED BY <3>1
  <2> HIDE DEF Known, h
  <2> QED BY <2>1
<1>3. ASSUME NEW n \in Nat, n \in M PROVE n + 1 \in M
  <2> SUFFICES ASSUME n + 1 <= N PROVE \E h : Known(n + 1, h)
    <3> HIDE DEF Known
    <3> QED OBVIOUS
  <2>1. PICK f : Known(n, f)
    <3> HIDE DEF Known
    <3> QED BY <1>3
  <2> DEFINE h == [s \in SUBSET (1 .. n + 1) |-> Value(f, s)]
  <2> HIDE DEF Op
  <2>2. ASSUME NEW s \in SUBSET (1 .. n + 1) PROVE h[s] = Value(h, s)
    <3>1. CASE s = {}
      BY <3>1
    <3>2. CASE s # {}
      <4> DEFINE m == n + 1
      <4>0. m \in Nat /\ s \in SUBSET (1 .. m)
        OBVIOUS
      <4>1. Max(s) \in s /\ \A y \in s : y <= Max(s)
        <5> HIDE DEF m
        <5> QED BY <3>2, <4>0, PlacesHaveLast
      <4>2. s \ {Max(s)} \in SUBSET (1 .. n) /\ s \ {Max(s)} \in SUBSET (1 .. n + 1)
        <5>1. \A y \in s : y # Max(s) => y \in 1 .. n
          <6> SUFFICES ASSUME NEW y \in s, y # Max(s) PROVE y \in 1 .. n
            OBVIOUS
          <6>1. y \in 1 .. n + 1 /\ Max(s) \in 1 .. n + 1 /\ y <= Max(s)
            BY <4>0, <4>1
          <6> HIDE DEF m
          <6> QED BY <6>1
        <5> QED BY <5>1
      <4>3. h[s \ {Max(s)}] = f[s \ {Max(s)}]
        BY <2>1, <4>2
      <4> QED BY <3>2, <4>3
    <3> QED BY <3>1, <3>2
  <2> HIDE DEF h
  <2>3. Known(n + 1, h)
    BY <2>2
  <2> QED BY <2>3
<1>4. PICK f : Known(N, f)
  <2> HIDE DEF M, Known
  <2>1. \A n \in Nat : n \in M
    BY <1>2, <1>3, Induction
  <2> QED BY <2>1 DEF M
<1>5. it = [s \in SUBSET (1 .. N) |-> Value(it, s)]
  <2> DEFINE h == [s \in SUBSET (1 .. N) |-> f[s]]
  <2> HIDE DEF Op
  <2>1. h = [s \in SUBSET (1 .. N) |-> Value(h, s)]
    <3>1. \A s \in SUBSET (1 .. N) : s \ {Max(s)} \in SUBSET (1 .. N)
      OBVIOUS
    <3> QED BY <1>4, <3>1
  <2> HIDE DEF h, Value
  <2> QED BY <2>1
<1> DEFINE r == [n \in 0 .. N |-> it[1 .. n]]
<1>6. r[0] = d
  <2>1. 0 \in 0 .. N /\ 1 .. 0 = {} /\ {} \in SUBSET (1 .. N)
    OBVIOUS
  <2> HIDE DEF Op, it
  <2> QED BY <1>5, <2>1
<1>7. ASSUME NEW n \in 1 .. N PROVE r[n] = Op(r[n - 1], L[n])
  <2>1. 1 .. n \in SUBSET (1 .. N) /\ 1 .. n # {} /\ Max(1 .. n) = n /\ (1 .. n) \ {n} = 1 .. n - 1
    BY PrefixSteps
  <2>2. n \in 0 .. N /\ n - 1 \in 0 .. N
    OBVIOUS
  <2> HIDE DEF Op, it
  <2> QED BY <1>5, <2>1, <2>2
<1>8. r[N] = it[1 .. N]
  OBVIOUS
<1> HIDE DEF r, it
<1> QED BY <1>1, <1>6, <1>7, <1>8 DEF AppendSteps

(* What is appended to HTML, image by image.                                 *)
EndSteps(r, N, L, manifest, blocks) ==
  /\ r[0] = blocks /\ r[N] = EndedBy(manifest, blocks, L)
  /\ \A n \in 1 .. N : r[n] = AtEnd(r[n - 1], UrlOf(manifest, L[n]))

LEMMA EndRun ==
  ASSUME NEW N \in Nat, NEW L, DOMAIN L = 1 .. N, NEW manifest, NEW blocks
  PROVE  \E r : EndSteps(r, N, L, manifest, blocks)
<1> DEFINE Op(a, i) == AtEnd(a, UrlOf(manifest, i))
           Value(h, s) == IF s = {} THEN blocks ELSE Op(h[s \ {Max(s)}], L[Max(s)])
           it == CHOOSE h : h = [s \in SUBSET (1 .. N) |-> Value(h, s)]
           Known(n, h) == \A s \in SUBSET (1 .. n) : h[s] = Value(h, s)
           M == {n \in Nat : n <= N => \E h : Known(n, h)}
<1>1. EndedBy(manifest, blocks, L) = it[1 .. N]
  BY DEF EndedBy, FoldLeft, MapThenFoldSet
<1>2. 0 \in M
  <2> DEFINE h == [s \in SUBSET (1 .. 0) |-> blocks]
  <2>1. Known(0, h)
    <3> HIDE DEF Op
    <3>1. \A s \in SUBSET (1 .. 0) : s = {}
      OBVIOUS
    <3> QED BY <3>1
  <2> HIDE DEF Known, h
  <2> QED BY <2>1
<1>3. ASSUME NEW n \in Nat, n \in M PROVE n + 1 \in M
  <2> SUFFICES ASSUME n + 1 <= N PROVE \E h : Known(n + 1, h)
    <3> HIDE DEF Known
    <3> QED OBVIOUS
  <2>1. PICK f : Known(n, f)
    <3> HIDE DEF Known
    <3> QED BY <1>3
  <2> DEFINE h == [s \in SUBSET (1 .. n + 1) |-> Value(f, s)]
  <2> HIDE DEF Op
  <2>2. ASSUME NEW s \in SUBSET (1 .. n + 1) PROVE h[s] = Value(h, s)
    <3>1. CASE s = {}
      BY <3>1
    <3>2. CASE s # {}
      <4> DEFINE m == n + 1
      <4>0. m \in Nat /\ s \in SUBSET (1 .. m)
        OBVIOUS
      <4>1. Max(s) \in s /\ \A y \in s : y <= Max(s)
        <5> HIDE DEF m
        <5> QED BY <3>2, <4>0, PlacesHaveLast
      <4>2. s \ {Max(s)} \in SUBSET (1 .. n) /\ s \ {Max(s)} \in SUBSET (1 .. n + 1)
        <5>1. \A y \in s : y # Max(s) => y \in 1 .. n
          <6> SUFFICES ASSUME NEW y \in s, y # Max(s) PROVE y \in 1 .. n
            OBVIOUS
          <6>1. y \in 1 .. n + 1 /\ Max(s) \in 1 .. n + 1 /\ y <= Max(s)
            BY <4>0, <4>1
          <6> HIDE DEF m
          <6> QED BY <6>1
        <5> QED BY <5>1
      <4>3. h[s \ {Max(s)}] = f[s \ {Max(s)}]
        BY <2>1, <4>2
      <4> QED BY <3>2, <4>3
    <3> QED BY <3>1, <3>2
  <2> HIDE DEF h
  <2>3. Known(n + 1, h)
    BY <2>2
  <2> QED BY <2>3
<1>4. PICK f : Known(N, f)
  <2> HIDE DEF M, Known
  <2>1. \A n \in Nat : n \in M
    BY <1>2, <1>3, Induction
  <2> QED BY <2>1 DEF M
<1>5. it = [s \in SUBSET (1 .. N) |-> Value(it, s)]
  <2> DEFINE h == [s \in SUBSET (1 .. N) |-> f[s]]
  <2> HIDE DEF Op
  <2>1. h = [s \in SUBSET (1 .. N) |-> Value(h, s)]
    <3>1. \A s \in SUBSET (1 .. N) : s \ {Max(s)} \in SUBSET (1 .. N)
      OBVIOUS
    <3> QED BY <1>4, <3>1
  <2> HIDE DEF h, Value
  <2> QED BY <2>1
<1> DEFINE r == [n \in 0 .. N |-> it[1 .. n]]
<1>6. r[0] = blocks
  <2>1. 0 \in 0 .. N /\ 1 .. 0 = {} /\ {} \in SUBSET (1 .. N)
    OBVIOUS
  <2> HIDE DEF Op, it
  <2> QED BY <1>5, <2>1
<1>7. ASSUME NEW n \in 1 .. N PROVE r[n] = Op(r[n - 1], L[n])
  <2>1. 1 .. n \in SUBSET (1 .. N) /\ 1 .. n # {} /\ Max(1 .. n) = n /\ (1 .. n) \ {n} = 1 .. n - 1
    BY PrefixSteps
  <2>2. n \in 0 .. N /\ n - 1 \in 0 .. N
    OBVIOUS
  <2> HIDE DEF Op, it
  <2> QED BY <1>5, <2>1, <2>2
<1>8. r[N] = it[1 .. N]
  OBVIOUS
<1> HIDE DEF r, it
<1> QED BY <1>1, <1>6, <1>7, <1>8 DEF EndSteps

-----------------------------------------------------------------------------
(* The tracker.  What it saw and the manifest has is matched, each file once; *)
(* a file that was placed has its image among those placed, and each of       *)
(* these belongs to a file that was placed.                                   *)
Upload == [file : Marker, url : Url, usable : BOOLEAN]
Trackers == [seen : SUBSET Marker, matched : Seq(Marker), placed : SUBSET Marker, images : Seq(Url)]

Tracked(m, t) ==
  /\ t \in Trackers
  /\ \A f \in t.seen : Match(m, f) # 0 => f \in Range(t.matched)
  /\ \A i \in DOMAIN t.matched : Match(m, t.matched[i]) # 0
  /\ \A i, j \in DOMAIN t.matched : t.matched[i] = t.matched[j] => i = j
  /\ \A f \in t.placed : Match(m, f) # 0 /\ UrlOf(m, f) \in Range(t.images)
  /\ \A k \in DOMAIN t.images : \E f \in t.placed : t.images[k] = UrlOf(m, f)

(* A file that matches has an entry.                                         *)
LEMMA MatchIs ==
  ASSUME NEW m \in Seq(Upload), NEW f, Match(m, f) # 0
  PROVE  Match(m, f) \in DOMAIN m /\ m[Match(m, f)].file = f /\ UrlOf(m, f) \in Url
<1> DEFINE fits == {i \in DOMAIN m : m[i].file = f /\ m[i].usable}
<1>1. fits # {} /\ Match(m, f) = CHOOSE i \in fits : \A j \in fits : i <= j
  BY DEF Match
<1>2. \E i \in fits : \A j \in fits : i <= j
  <2>1. fits \in SUBSET Nat
    OBVIOUS
  <2> HIDE DEF fits
  <2> QED BY <1>1, <2>1, LeastNatural
<1>3. Match(m, f) \in fits
  <2> HIDE DEF fits
  <2> QED BY <1>1, <1>2
<1>4. m[Match(m, f)] \in Upload
  BY <1>3
<1> QED BY <1>3, <1>4 DEF UrlOf, Upload

(* One more at the end of a list.                                            *)
LEMMA Longer ==
  ASSUME NEW E, NEW s \in Seq(E), NEW e \in E
  PROVE  /\ Append(s, e) \in Seq(E) /\ Len(Append(s, e)) = Len(s) + 1 /\ Len(s) \in Nat
         /\ DOMAIN s = 1 .. Len(s) /\ DOMAIN Append(s, e) = 1 .. Len(s) + 1
         /\ \A i \in DOMAIN s : Append(s, e)[i] = s[i]
         /\ Append(s, e)[Len(s) + 1] = e
         /\ Range(Append(s, e)) = Range(s) \union {e}
<1>1. /\ Append(s, e) \in Seq(E) /\ Len(Append(s, e)) = Len(s) + 1 /\ Len(s) \in Nat
      /\ DOMAIN s = 1 .. Len(s) /\ DOMAIN Append(s, e) = 1 .. Len(s) + 1
      /\ \A i \in DOMAIN s : Append(s, e)[i] = s[i]
      /\ Append(s, e)[Len(s) + 1] = e
  OBVIOUS
<1>2. 1 .. Len(s) + 1 = (1 .. Len(s)) \union {Len(s) + 1}
  BY <1>1
<1> DEFINE l == Append(s, e)
<1> HIDE DEF l
<1>3. Range(l) = Range(s) \union {e}
  BY <1>1, <1>2 DEF Range, l
<1> QED BY <1>1, <1>3 DEF l

(* A visit keeps the tracker right, and places one image or none.            *)
LEMMA Visited ==
  ASSUME NEW m \in Seq(Upload), NEW t, Tracked(m, t), NEW f \in Marker, NEW lead
  PROVE  LET u == visit(m, t, f, lead)
         IN  /\ Tracked(m, u) /\ f \in u.seen
             /\ \/ u.images = t.images
                \/ \E url \in Url : u.images = Append(t.images, url)
<1> DEFINE matches == Match(m, f) # 0
           news == matches /\ f \notin Range(t.matched)
           known == [t EXCEPT !.seen = @ \union {f},
                              !.matched = IF news THEN Append(@, f) ELSE @]
           places == matches /\ f \notin t.placed /\ lead \notin {<< >>, <<"caption">>}
           u == visit(m, t, f, lead)
           put == [known EXCEPT !.placed = @ \union {f}, !.images = Append(@, UrlOf(m, f))]
<1>1. /\ t \in Trackers /\ t.matched \in Seq(Marker) /\ t.images \in Seq(Url)
      /\ t.seen \in SUBSET Marker /\ t.placed \in SUBSET Marker
  BY DEF Tracked, Trackers
<1>2. u = IF places THEN put ELSE known
  BY DEF visit
<1>3. /\ known = [seen |-> t.seen \union {f}, matched |-> IF news THEN Append(t.matched, f) ELSE t.matched,
                  placed |-> t.placed, images |-> t.images]
      /\ put = [seen |-> t.seen \union {f}, matched |-> IF news THEN Append(t.matched, f) ELSE t.matched,
                placed |-> t.placed \union {f}, images |-> Append(t.images, UrlOf(m, f))]
  <2> DEFINE x == IF news THEN Append(t.matched, f) ELSE t.matched
  <2>1. t = [seen |-> t.seen, matched |-> t.matched, placed |-> t.placed, images |-> t.images]
    BY <1>1 DEF Trackers
  <2>2. known = [t EXCEPT !.seen = t.seen \union {f}, !.matched = x]
    OBVIOUS
  <2> HIDE DEF news, x, known
  <2>3. known = [seen |-> t.seen \union {f}, matched |-> x, placed |-> t.placed, images |-> t.images]
    BY <2>1, <2>2
  <2>4. put = [seen |-> t.seen \union {f}, matched |-> x, placed |-> t.placed \union {f},
               images |-> Append(t.images, UrlOf(m, f))]
    <3>1. /\ known.seen = t.seen \union {f} /\ known.matched = x
          /\ known.placed = t.placed /\ known.images = t.images
      BY <2>3
    <3>2. put = [known EXCEPT !.placed = t.placed \union {f}, !.images = Append(t.images, UrlOf(m, f))]
      BY <3>1
    <3> HIDE DEF put
    <3> QED BY <2>3, <3>2
  <2> QED BY <2>3, <2>4 DEF x
<1> DEFINE now == IF news THEN Append(t.matched, f) ELSE t.matched
<1>4. /\ now \in Seq(Marker) /\ \A g \in t.seen \union {f} : Match(m, g) # 0 => g \in Range(now)
      /\ \A i \in DOMAIN now : Match(m, now[i]) # 0
      /\ \A i, j \in DOMAIN now : now[i] = now[j] => i = j
  <2>1. CASE news
    <3>1. now = Append(t.matched, f)
      BY <2>1
    <3>2. /\ now \in Seq(Marker) /\ Len(t.matched) \in Nat
          /\ DOMAIN t.matched = 1 .. Len(t.matched) /\ DOMAIN now = 1 .. Len(t.matched) + 1
          /\ \A i \in DOMAIN t.matched : now[i] = t.matched[i]
          /\ now[Len(t.matched) + 1] = f
          /\ Range(now) = Range(t.matched) \union {f}
      BY <1>1, <3>1, Longer
    <3>3. \A i \in DOMAIN now : i \in DOMAIN t.matched \/ i = Len(t.matched) + 1
      BY <3>2
    <3>4. \A i \in DOMAIN t.matched : now[i] # f
      BY <2>1, <3>2 DEF Range
    <3> HIDE DEF now
    <3>5. \A g \in t.seen \union {f} : Match(m, g) # 0 => g \in Range(now)
      BY <3>2 DEF Tracked
    <3>6. \A i \in DOMAIN now : Match(m, now[i]) # 0
      BY <2>1, <3>2, <3>3 DEF Tracked
    <3>7. \A i, j \in DOMAIN now : now[i] = now[j] => i = j
      <4> SUFFICES ASSUME NEW i \in DOMAIN now, NEW j \in DOMAIN now, now[i] = now[j] PROVE i = j
        OBVIOUS
      <4>1. CASE i \in DOMAIN t.matched /\ j \in DOMAIN t.matched
        <5>1. t.matched[i] = t.matched[j]
          BY <3>2, <4>1
        <5> QED BY <4>1, <5>1 DEF Tracked
      <4>2. CASE i = Len(t.matched) + 1 /\ j = Len(t.matched) + 1
        BY <4>2
      <4> QED BY <3>2, <3>3, <3>4, <4>1, <4>2
    <3> QED BY <3>2, <3>5, <3>6, <3>7
  <2>2. CASE ~news
    <3>1. now = t.matched
      BY <2>2
    <3>2. Match(m, f) # 0 => f \in Range(t.matched)
      BY <2>2
    <3> HIDE DEF now, news
    <3> QED BY <1>1, <3>1, <3>2 DEF Tracked
  <2> QED BY <2>1, <2>2
<1>5. CASE ~places
  <2>1. u = [seen |-> t.seen \union {f}, matched |-> now, placed |-> t.placed, images |-> t.images]
    BY <1>2, <1>3, <1>5
  <2> HIDE DEF now, u
  <2>2. u \in Trackers
    BY <1>1, <1>4, <2>1 DEF Trackers
  <2>3. /\ u.seen = t.seen \union {f} /\ u.matched = now
        /\ u.placed = t.placed /\ u.images = t.images
    BY <2>1
  <2>4. Tracked(m, u)
    BY <1>4, <2>2, <2>3 DEF Tracked
  <2> QED BY <2>3, <2>4 DEF u
<1>6. CASE places
  <2>1. u = [seen |-> t.seen \union {f}, matched |-> now,
             placed |-> t.placed \union {f}, images |-> Append(t.images, UrlOf(m, f))]
    BY <1>2, <1>3, <1>6
  <2>2. Match(m, f) # 0 /\ UrlOf(m, f) \in Url
    BY <1>6, MatchIs
  <2> DEFINE urls == Append(t.images, UrlOf(m, f))
  <2>3. /\ urls \in Seq(Url) /\ Len(t.images) \in Nat
        /\ DOMAIN t.images = 1 .. Len(t.images) /\ DOMAIN urls = 1 .. Len(t.images) + 1
        /\ \A i \in DOMAIN t.images : urls[i] = t.images[i]
        /\ urls[Len(t.images) + 1] = UrlOf(m, f)
        /\ Range(urls) = Range(t.images) \union {UrlOf(m, f)}
    BY <1>1, <2>2, Longer
  <2>4. \A k \in DOMAIN urls : k \in DOMAIN t.images \/ k = Len(t.images) + 1
    BY <2>3
  <2> HIDE DEF now, u, urls
  <2>5. u.images = Append(t.images, UrlOf(m, f)) /\ f \in u.seen
    BY <2>1
  <2>6. u = [seen |-> t.seen \union {f}, matched |-> now,
             placed |-> t.placed \union {f}, images |-> urls]
    BY <2>1 DEF urls
  <2>7. u \in Trackers
    BY <1>1, <1>4, <2>3, <2>6 DEF Trackers
  <2>8. /\ u.seen = t.seen \union {f} /\ u.matched = now
        /\ u.placed = t.placed \union {f} /\ u.images = urls
    BY <2>6
  <2>9. \A g \in u.placed : Match(m, g) # 0 /\ UrlOf(m, g) \in Range(u.images)
    BY <2>2, <2>3, <2>8 DEF Tracked
  <2>10. ASSUME NEW k \in DOMAIN u.images PROVE \E g \in u.placed : u.images[k] = UrlOf(m, g)
    <3>1. CASE k \in DOMAIN t.images
      BY <2>3, <2>8, <3>1 DEF Tracked
    <3>2. CASE k = Len(t.images) + 1
      BY <2>3, <2>8, <3>2
    <3> QED BY <2>4, <2>8, <3>1, <3>2
  <2>11. Tracked(m, u)
    BY <1>4, <2>7, <2>8, <2>9, <2>10 DEF Tracked
  <2> QED BY <2>2, <2>5, <2>11 DEF u
<1> QED BY <1>5, <1>6

-----------------------------------------------------------------------------
(* The walk.  What comes in and what goes out: the text that is left has no  *)
(* marker, and every placed image has its place.                             *)
Pieces == Marker \union Words
InBlocks(R) ==
  [kind : {"paragraph", "carrier"}, pieces : Seq(Pieces)] \union [kind : {"figure"}, ref : R]
    \union {Boundary}
OutBlocks(R) ==
  [kind : {"paragraph", "carrier"}, pieces : Seq(Words)] \union [kind : {"figure"}, ref : R]
    \union [kind : {"placed"}, ref : Nat] \union {Boundary}

Walks(R) == [t : Trackers, last : Seq(Words), out : Seq(OutBlocks(R))]

Walked(m, R, s) ==
  /\ s \in Walks(R) /\ Tracked(m, s.t)
  /\ \A p \in DOMAIN s.out : s.out[p].kind = "placed" => s.out[p].ref \in DOMAIN s.t.images
  /\ \A k \in DOMAIN s.t.images : \E p \in DOMAIN s.out : s.out[p] = Placed(k)

(* Nothing that went out changes.                                            *)
Grew(before, after) == \A p \in DOMAIN before : p \in DOMAIN after /\ after[p] = before[p]

(* What a block of the input is.                                             *)
LEMMA InBlockIs ==
  ASSUME NEW R, NEW b \in InBlocks(R)
  PROVE  /\ b.kind \in {"paragraph", "carrier", "figure", "boundary"}
         /\ b.kind \in {"paragraph", "carrier"} => b.pieces \in Seq(Pieces)
         /\ b.kind = "figure" => b.ref \in R /\ b = Figure(b.ref)
         /\ b.kind = "boundary" => b = Boundary
<1>1. CASE b \in [kind : {"paragraph", "carrier"}, pieces : Seq(Pieces)]
  BY <1>1
<1>2. CASE b \in [kind : {"figure"}, ref : R]
  BY <1>2 DEF Figure
<1>3. CASE b = Boundary
  BY <1>3 DEF Boundary
<1> QED BY <1>1, <1>2, <1>3 DEF InBlocks

LEMMA OutBlockIs ==
  ASSUME NEW R, NEW b \in OutBlocks(R)
  PROVE  /\ b.kind \in {"paragraph", "carrier", "figure", "placed", "boundary"}
         /\ b.kind \in {"paragraph", "carrier"} => b.pieces \in Seq(Words)
         /\ b.kind = "figure" => b.ref \in R /\ b = Figure(b.ref)
         /\ b.kind = "placed" => b.ref \in Nat /\ b = Placed(b.ref)
         /\ b.kind = "boundary" => b = Boundary
<1>1. CASE b \in [kind : {"paragraph", "carrier"}, pieces : Seq(Words)]
  BY <1>1
<1>2. CASE b \in [kind : {"figure"}, ref : R]
  BY <1>2 DEF Figure
<1>3. CASE b \in [kind : {"placed"}, ref : Nat]
  BY <1>3 DEF Placed
<1>4. CASE b = Boundary
  BY <1>4 DEF Boundary
<1> QED BY <1>1, <1>2, <1>3, <1>4 DEF OutBlocks

LEMMA OutBlocksAre ==
  ASSUME NEW R
  PROVE  /\ \A pieces \in Seq(Words) : /\ Paragraph(pieces) \in OutBlocks(R)
                                       /\ Paragraph(pieces).kind = "paragraph"
                                       /\ Carrier(pieces) \in OutBlocks(R)
                                       /\ Carrier(pieces).kind = "carrier"
         /\ \A ref \in R : Figure(ref) \in OutBlocks(R)
         /\ \A k \in Nat : Placed(k) \in OutBlocks(R)
         /\ Boundary \in OutBlocks(R)
         /\ \A x : Figure(x).kind = "figure" /\ Figure(x).ref = x
         /\ \A x : Placed(x).kind = "placed" /\ Placed(x).ref = x
         /\ Boundary.kind = "boundary"
BY DEF OutBlocks, Paragraph, Carrier, Figure, Placed, Boundary

(* A block that is no placed image goes out.                                 *)
LEMMA OutGrows ==
  ASSUME NEW m \in Seq(Upload), NEW R, NEW s, Walked(m, R, s), NEW b \in OutBlocks(R), b.kind # "placed",
         NEW last \in Seq(Words), NEW t, Tracked(m, t), t.images = s.t.images
  PROVE  LET u == [t |-> t, last |-> last, out |-> Append(s.out, b)]
         IN  Walked(m, R, u) /\ Grew(s.out, u.out)
<1> DEFINE out == Append(s.out, b)
           u == [t |-> t, last |-> last, out |-> out]
<1>1. s.out \in Seq(OutBlocks(R)) /\ t \in Trackers
  BY DEF Walked, Walks, Tracked
<1>2. /\ out \in Seq(OutBlocks(R)) /\ Len(s.out) \in Nat
      /\ DOMAIN s.out = 1 .. Len(s.out) /\ DOMAIN out = 1 .. Len(s.out) + 1
      /\ \A i \in DOMAIN s.out : out[i] = s.out[i]
      /\ out[Len(s.out) + 1] = b
  BY <1>1, Longer
<1>3. \A p \in DOMAIN out : p \in DOMAIN s.out \/ p = Len(s.out) + 1
  BY <1>2
<1>4. \A p \in DOMAIN s.out : p \in DOMAIN out
  BY <1>2
<1> HIDE DEF out
<1>5. u \in Walks(R) /\ u.t = t /\ u.out = out
  BY <1>1, <1>2 DEF Walks
<1> HIDE DEF u
<1>6. \A p \in DOMAIN u.out : u.out[p].kind = "placed" => u.out[p].ref \in DOMAIN u.t.images
  BY <1>2, <1>3, <1>5 DEF Walked
<1>7. \A k \in DOMAIN u.t.images : \E p \in DOMAIN u.out : u.out[p] = Placed(k)
  BY <1>2, <1>4, <1>5 DEF Walked
<1>8. Walked(m, R, u)
  BY <1>5, <1>6, <1>7 DEF Walked
<1>9. Grew(s.out, u.out)
  BY <1>2, <1>4, <1>5 DEF Grew
<1> QED BY <1>8, <1>9 DEF u, out

(* A placed image goes out.                                                  *)
LEMMA OnePlaced ==
  ASSUME NEW m \in Seq(Upload), NEW R, NEW s, Walked(m, R, s), NEW t, Tracked(m, t),
         NEW url \in Url, t.images = Append(s.t.images, url)
  PROVE  LET u == [s EXCEPT !.t = t, !.out = Append(@, Placed(Len(t.images)))]
         IN  Walked(m, R, u) /\ Grew(s.out, u.out)
<1> DEFINE b == Placed(Len(t.images))
           out == Append(s.out, b)
           u == [s EXCEPT !.t = t, !.out = Append(@, Placed(Len(t.images)))]
           new == Len(s.t.images) + 1
<1>1. /\ s.out \in Seq(OutBlocks(R)) /\ t \in Trackers /\ s.t.images \in Seq(Url)
      /\ s.last \in Seq(Words)
  BY DEF Walked, Walks, Tracked, Trackers
<1>2. u = [t |-> t, last |-> s.last, out |-> out]
  <2>1. s = [t |-> s.t, last |-> s.last, out |-> s.out]
    BY DEF Walked, Walks
  <2>2. u = [s EXCEPT !.t = t, !.out = out]
    OBVIOUS
  <2> HIDE DEF u, out
  <2> QED BY <2>1, <2>2
<1>3. /\ Len(t.images) = new /\ new \in Nat /\ Len(s.t.images) \in Nat
      /\ DOMAIN s.t.images = 1 .. Len(s.t.images) /\ DOMAIN t.images = 1 .. new
  BY <1>1, Longer
<1>4. b \in OutBlocks(R) /\ b.kind = "placed" /\ b.ref = new /\ b = Placed(new)
  BY <1>3, OutBlocksAre
<1>5. \A k \in DOMAIN t.images : k \in DOMAIN s.t.images \/ k = new
  BY <1>3
<1>6. new \in DOMAIN t.images /\ \A k \in DOMAIN s.t.images : k \in DOMAIN t.images
  BY <1>3
<1> HIDE DEF b, new
<1>7. /\ out \in Seq(OutBlocks(R)) /\ Len(s.out) \in Nat
      /\ DOMAIN s.out = 1 .. Len(s.out) /\ DOMAIN out = 1 .. Len(s.out) + 1
      /\ \A i \in DOMAIN s.out : out[i] = s.out[i]
      /\ out[Len(s.out) + 1] = b
  BY <1>1, <1>4, Longer
<1>8. \A p \in DOMAIN out : p \in DOMAIN s.out \/ p = Len(s.out) + 1
  BY <1>7
<1>9. Len(s.out) + 1 \in DOMAIN out /\ \A p \in DOMAIN s.out : p \in DOMAIN out
  BY <1>7
<1> HIDE DEF out, u
<1>10. u \in Walks(R) /\ u.t = t /\ u.out = out
  BY <1>1, <1>2, <1>7 DEF Walks
<1>11. \A p \in DOMAIN u.out : u.out[p].kind = "placed" => u.out[p].ref \in DOMAIN u.t.images
  BY <1>4, <1>6, <1>7, <1>8, <1>10 DEF Walked
<1>12. \A k \in DOMAIN u.t.images : \E p \in DOMAIN u.out : u.out[p] = Placed(k)
  BY <1>4, <1>5, <1>7, <1>9, <1>10 DEF Walked
<1>13. Walked(m, R, u)
  BY <1>10, <1>11, <1>12 DEF Walked
<1>14. Grew(s.out, u.out)
  BY <1>7, <1>9, <1>10 DEF Grew
<1> QED BY <1>13, <1>14 DEF u


LEMMA GrewTwice ==
  ASSUME NEW x, NEW y, NEW z, Grew(x, y), Grew(y, z)
  PROVE  Grew(x, z)
BY DEF Grew

LEMMA FieldsOf ==
  ASSUME NEW R, NEW s \in Walks(R)
  PROVE  /\ s = [t |-> s.t, last |-> s.last, out |-> s.out]
         /\ s.t \in Trackers /\ s.last \in Seq(Words) /\ s.out \in Seq(OutBlocks(R))
BY DEF Walks

(* A marker that places nothing leaves all as it is.                         *)
LEMMA SameImages ==
  ASSUME NEW m, NEW R, NEW s, Walked(m, R, s), NEW t, Tracked(m, t), t.images = s.t.images
  PROVE  LET u == [s EXCEPT !.t = t]
         IN  Walked(m, R, u) /\ u.out = s.out
<1> DEFINE u == [s EXCEPT !.t = t]
<1>1. s \in Walks(R) /\ t \in Trackers
  BY DEF Walked, Tracked
<1>2. u = [t |-> t, last |-> s.last, out |-> s.out]
  BY <1>1, FieldsOf
<1> HIDE DEF u
<1>3. u.t = t /\ u.last = s.last /\ u.out = s.out /\ u \in Walks(R)
  BY <1>1, <1>2, FieldsOf DEF Walks
<1>4. Walked(m, R, u)
  BY <1>3 DEF Walked
<1> QED BY <1>3, <1>4 DEF u

(* A paragraph that is flushed goes out.                                     *)
LEMMA Flushed ==
  ASSUME NEW m \in Seq(Upload), NEW R, NEW s, Walked(m, R, s), NEW cur \in Seq(Words)
  PROVE  LET u == Flush(s, cur)
         IN  Walked(m, R, u) /\ Grew(s.out, u.out) /\ u.t = s.t
<1>1. CASE cur = << >>
  BY <1>1 DEF Flush, Grew
<1>2. CASE cur # << >>
  <2> DEFINE b == Paragraph(cur)
  <2>1. s \in Walks(R) /\ Tracked(m, s.t)
    BY DEF Walked
  <2>2. b \in OutBlocks(R) /\ b.kind # "placed"
    BY OutBlocksAre
  <2> HIDE DEF b
  <2>3. Flush(s, cur) = [s EXCEPT !.out = Append(s.out, b), !.last = cur]
    BY <1>2 DEF Flush, b
  <2>4. Flush(s, cur) = [t |-> s.t, last |-> cur, out |-> Append(s.out, b)]
    <3>1. s = [t |-> s.t, last |-> s.last, out |-> s.out]
      BY <2>1, FieldsOf
    <3> QED BY ONLY <2>3, <3>1
  <2> DEFINE u == [t |-> s.t, last |-> cur, out |-> Append(s.out, b)]
  <2>5. Walked(m, R, u) /\ Grew(s.out, u.out)
    BY <2>1, <2>2, OutGrows
  <2>6. u.t = s.t
    OBVIOUS
  <2> HIDE DEF u
  <2> QED BY <2>4, <2>5, <2>6 DEF u
<1> QED BY <1>1, <1>2

Splits(m, R, a) ==
  a \in [s : Walks(R), cur : Seq(Words)] /\ Walked(m, R, a.s)

LEMMA PieceTaken ==
  ASSUME NEW m \in Seq(Upload), NEW R, NEW a, Splits(m, R, a), NEW p \in Pieces
  PROVE  Splits(m, R, OnePiece(m, a, p)) /\ Grew(a.s.out, OnePiece(m, a, p).s.out)
<1> DEFINE after == OnePiece(m, a, p)
<1>1. /\ a = [s |-> a.s, cur |-> a.cur] /\ a.cur \in Seq(Words) /\ a.s \in Walks(R)
      /\ Walked(m, R, a.s) /\ Tracked(m, a.s.t)
  BY DEF Splits, Walked
<1>2. CASE p \notin Marker
  <2>1. p \in Words
    BY <1>2 DEF Pieces
  <2>2. after = [s |-> a.s, cur |-> Append(a.cur, p)]
    <3>1. after = [a EXCEPT !.cur = Append(a.cur, p)]
      BY <1>2 DEF OnePiece
    <3> HIDE DEF after
    <3> QED BY <1>1, <3>1
  <2>3. Append(a.cur, p) \in Seq(Words)
    BY <1>1, <2>1
  <2> HIDE DEF after
  <2>4. Splits(m, R, after)
    BY <1>1, <2>2, <2>3 DEF Splits
  <2>5. after.s.out = a.s.out
    BY <2>2
  <2> QED BY <2>4, <2>5 DEF after, Grew
<1>3. CASE p \in Marker
  <2> DEFINE lead == IF a.cur # << >> THEN a.cur ELSE a.s.last
             t == visit(m, a.s.t, p, lead)
  <2>1. /\ Tracked(m, t)
        /\ t.images = a.s.t.images \/ \E url \in Url : t.images = Append(a.s.t.images, url)
    <3>1. Tracked(m, a.s.t) /\ m \in Seq(Upload) /\ p \in Marker
      BY <1>1, <1>3
    <3> DEFINE w == a.s.t
    <3> HIDE DEF lead, w
    <3>2. LET u == visit(m, w, p, lead)
          IN  /\ Tracked(m, u)
              /\ u.images = w.images \/ \E url \in Url : u.images = Append(w.images, url)
      BY <3>1, Visited DEF w
    <3> QED BY <3>2 DEF w
  <2>2. after = SplitAt(a, t)
    BY <1>3 DEF OnePiece
  <2> HIDE DEF t
  <2>3. a.s.t.images \in Seq(Url)
    BY <1>1 DEF Tracked, Trackers
  <2>4. CASE t.images = a.s.t.images
    <3> DEFINE u == [a.s EXCEPT !.t = t]
    <3>1. Walked(m, R, u) /\ u.out = a.s.out
      BY <1>1, <2>1, <2>4, SameImages
    <3>2. after = [a EXCEPT !.s.t = t]
      BY <2>2, <2>4 DEF SplitAt
    <3>3. after = [s |-> u, cur |-> a.cur]
      <4> HIDE DEF after
      <4> QED BY <1>1, <3>2
    <3> HIDE DEF u, after
    <3>4. u \in Walks(R)
      BY <3>1 DEF Walked
    <3>5. after.s = u /\ Splits(m, R, after)
      BY <1>1, <3>1, <3>3, <3>4 DEF Splits
    <3> QED BY <3>1, <3>5 DEF after, Grew
  <2>5. ASSUME NEW url \in Url, t.images = Append(a.s.t.images, url)
        PROVE  Splits(m, R, after) /\ Grew(a.s.out, after.s.out)
    <3> DEFINE f == Flush(a.s, a.cur)
               u == [f EXCEPT !.t = t, !.out = Append(@, Placed(Len(t.images)))]
    <3>1. Walked(m, R, f) /\ Grew(a.s.out, f.out) /\ f.t = a.s.t
      BY <1>1, Flushed
    <3>2. Len(t.images) # Len(a.s.t.images)
      BY <2>3, <2>5
    <3>3. after = [s |-> u, cur |-> << >>]
      BY <2>2, <3>2 DEF SplitAt
    <3> HIDE DEF f
    <3>4. Walked(m, R, u) /\ Grew(f.out, u.out)
      BY <2>1, <2>5, <3>1, OnePlaced
    <3> HIDE DEF u, after
    <3>5. u \in Walks(R) /\ << >> \in Seq(Words)
      BY <3>4 DEF Walked
    <3>6. after.s = u /\ Splits(m, R, after)
      BY <3>3, <3>4, <3>5 DEF Splits
    <3> QED BY <3>1, <3>4, <3>6, GrewTwice
  <2> QED BY <2>1, <2>4, <2>5
<1> QED BY <1>2, <1>3

LEMMA ParagraphSplit ==
  ASSUME NEW m \in Seq(Upload), NEW R, NEW s, Walked(m, R, s), NEW pieces \in Seq(Pieces)
  PROVE  LET u == SplitParagraph(m, s, pieces)
         IN  Walked(m, R, u) /\ Grew(s.out, u.out)
<1> DEFINE N == Len(pieces)
<1>1. N \in Nat /\ DOMAIN pieces = 1 .. N
  OBVIOUS
<1> HIDE DEF N
<1>2. PICK r : SplitSteps(r, N, pieces, m, s)
  BY <1>1, SplitRun
<1> DEFINE Right(n) == Splits(m, R, r[n]) /\ Grew(s.out, r[n].s.out)
           S == {n \in 0 .. N : Right(n)}
<1>3. 0 \in S
  <2>1. r[0] = [s |-> s, cur |-> << >>] /\ << >> \in Seq(Words) /\ s \in Walks(R)
    BY <1>2 DEF SplitSteps, Walked
  <2>2. Splits(m, R, r[0]) /\ r[0].s = s
    BY <2>1 DEF Splits
  <2>3. Right(0)
    BY <2>2 DEF Grew
  <2> HIDE DEF Right
  <2> QED BY <1>1, <2>3
<1>4. ASSUME NEW n \in 1 .. N, n - 1 \in S PROVE n \in S
  <2>1. Right(n - 1) /\ pieces[n] \in Pieces /\ r[n] = OnePiece(m, r[n - 1], pieces[n])
    BY <1>1, <1>2, <1>4 DEF SplitSteps
  <2>2. Splits(m, R, r[n]) /\ Grew(r[n - 1].s.out, r[n].s.out)
    BY <2>1, PieceTaken
  <2>3. Right(n)
    BY <2>1, <2>2, GrewTwice
  <2> HIDE DEF Right
  <2> QED BY <2>3
<1>5. Right(N)
  <2> HIDE DEF S
  <2>1. N \in S
    <3>1. \A n \in 0 .. N : n \in S
      BY <1>1, <1>3, <1>4, InductionUpTo
    <3> QED BY <1>1, <3>1
  <2> QED BY <2>1 DEF S
<1> DEFINE end == SplitBy(m, s, pieces)
<1>6. end = r[N]
  BY <1>2 DEF SplitSteps
<1>7. SplitParagraph(m, s, pieces) = Flush(end.s, end.cur)
  BY DEF SplitParagraph, SplitBy
<1> HIDE DEF end, S
<1>8. Walked(m, R, end.s) /\ end.cur \in Seq(Words) /\ Grew(s.out, end.s.out)
  BY <1>5, <1>6 DEF Splits
<1>9. LET u == Flush(end.s, end.cur)
      IN  Walked(m, R, u) /\ Grew(end.s.out, u.out)
  BY <1>8, Flushed
<1> QED BY <1>7, <1>8, <1>9, GrewTwice

(* A carrier places nothing, and its markers are taken out.                  *)
LEMMA Scrubs ==
  ASSUME NEW m \in Seq(Upload), NEW t, Tracked(m, t), NEW pieces \in Seq(Pieces)
  PROVE  Tracked(m, Scrub(m, t, pieces)) /\ Scrub(m, t, pieces).images = t.images
<1> DEFINE N == Len(pieces)
<1>1. N \in Nat /\ DOMAIN pieces = 1 .. N
  OBVIOUS
<1> HIDE DEF N
<1>2. PICK r : ScrubSteps(r, N, pieces, m, t)
  BY <1>1, ScrubRun
<1> DEFINE Right(n) == Tracked(m, r[n]) /\ r[n].images = t.images
           S == {n \in 0 .. N : Right(n)}
<1>3. 0 \in S
  BY <1>1, <1>2 DEF ScrubSteps
<1>4. ASSUME NEW n \in 1 .. N, n - 1 \in S PROVE n \in S
  <2>1. Right(n - 1)
    BY <1>4
  <2>2. CASE pieces[n] \in Marker
    <3>1. r[n] = visit(m, r[n - 1], pieces[n], << >>)
      BY <1>2, <2>2 DEF ScrubSteps
    <3>2. Tracked(m, r[n])
      BY <2>1, <2>2, <3>1, Visited
    <3>3. r[n].images = r[n - 1].images
      <4> DEFINE u == r[n - 1]
                 x == IF Match(m, pieces[n]) # 0 /\ pieces[n] \notin Range(u.matched)
                      THEN Append(u.matched, pieces[n]) ELSE u.matched
      <4>1. r[n] = [u EXCEPT !.seen = u.seen \union {pieces[n]}, !.matched = x]
        BY <3>1 DEF visit
      <4>2. u = [seen |-> u.seen, matched |-> u.matched, placed |-> u.placed, images |-> u.images]
        BY <2>1 DEF Tracked, Trackers
      <4> HIDE DEF u, x
      <4> QED BY ONLY <4>1, <4>2 DEF u
    <3>4. Right(n)
      BY <2>1, <3>2, <3>3
    <3> HIDE DEF Right
    <3> QED BY <3>4
  <2>3. CASE pieces[n] \notin Marker
    <3>1. r[n] = r[n - 1]
      BY <1>2, <2>3 DEF ScrubSteps
    <3>2. Right(n)
      BY <2>1, <3>1
    <3> HIDE DEF Right
    <3> QED BY <3>2
  <2> QED BY <2>2, <2>3
<1>5. Right(N)
  <2> HIDE DEF S
  <2>1. N \in S
    <3>1. \A n \in 0 .. N : n \in S
      BY <1>1, <1>3, <1>4, InductionUpTo
    <3> QED BY <1>1, <3>1
  <2> QED BY <2>1 DEF S
<1>6. Scrub(m, t, pieces) = r[N]
  BY <1>2 DEF ScrubSteps, Scrub, ScrubbedBy
<1> QED BY <1>5, <1>6

LEMMA ScrubbedText ==
  ASSUME NEW pieces \in Seq(Pieces)
  PROVE  Scrubbed(pieces) \in Seq(Words)
<1> DEFINE places == {i \in DOMAIN pieces : pieces[i] \notin Marker}
           kept == Filtered(pieces, places)
<1>1. places \in SUBSET DOMAIN pieces
  OBVIOUS
<1>2. \A i \in places : pieces[i] \in Words
  BY DEF Pieces
<1> HIDE DEF places
<1>3. /\ kept \in Seq(Pieces)
      /\ \A n \in DOMAIN kept : kept[n] = pieces[Nth(places, n)] /\ Nth(places, n) \in places
  BY <1>1, FilterKeeps
<1> HIDE DEF kept
<1>4. \A n \in DOMAIN kept : kept[n] \in Words
  BY <1>2, <1>3
<1>5. kept \in Seq(Words)
  BY <1>3, <1>4
<1> QED BY <1>5 DEF Scrubbed, kept, places

LEMMA LastGoesIn ==
  ASSUME NEW E, NEW s \in Seq(E), NEW e \in E
  PROVE  e \in Range(Append(s, e))
BY Longer

(* Every block goes out as what it is.                                       *)
LEMMA BlockTaken ==
  ASSUME NEW m \in Seq(Upload), NEW R, NEW s, Walked(m, R, s), NEW b \in InBlocks(R)
  PROVE  LET u == OneBlock(m, s, b)
         IN  /\ Walked(m, R, u) /\ Grew(s.out, u.out)
             /\ b.kind \in {"figure", "boundary"} => b \in Range(u.out)
<1> DEFINE u == OneBlock(m, s, b)
<1>1. /\ s \in Walks(R) /\ Tracked(m, s.t)
      /\ s = [t |-> s.t, last |-> s.last, out |-> s.out]
      /\ s.last \in Seq(Words) /\ s.out \in Seq(OutBlocks(R)) /\ << >> \in Seq(Words)
  <2>1. s \in Walks(R) /\ Tracked(m, s.t)
    BY DEF Walked
  <2>2. << >> \in Seq(Words)
    OBVIOUS
  <2> QED BY <2>1, <2>2, FieldsOf
<1>2. CASE b.kind = "paragraph"
  <2>1. u = SplitParagraph(m, s, b.pieces) /\ b.pieces \in Seq(Pieces)
    BY <1>2, InBlockIs DEF OneBlock
  <2> HIDE DEF u
  <2> QED BY <1>2, <2>1, ParagraphSplit DEF u
<1>3. CASE b.kind = "carrier"
  <2> DEFINE c == Carrier(Scrubbed(b.pieces))
             t == Scrub(m, s.t, b.pieces)
             v == [t |-> t, last |-> s.last, out |-> Append(s.out, c)]
  <2>1. b.pieces \in Seq(Pieces)
    BY <1>3, InBlockIs
  <2>2. c \in OutBlocks(R) /\ c.kind # "placed"
    BY <2>1, ScrubbedText, OutBlocksAre
  <2>3. Tracked(m, t) /\ t.images = s.t.images
    BY <1>1, <2>1, Scrubs
  <2>4. u = [s EXCEPT !.t = t, !.out = Append(s.out, c)]
    BY <1>3 DEF OneBlock
  <2> HIDE DEF c, t, u
  <2>5. u = v
    BY ONLY <1>1, <2>4
  <2>6. Walked(m, R, v) /\ Grew(s.out, v.out)
    BY <1>1, <2>2, <2>3, OutGrows
  <2> HIDE DEF v
  <2> QED BY <1>3, <2>5, <2>6 DEF u
<1>4. CASE b.kind = "figure"
  <2> DEFINE v == [t |-> s.t, last |-> s.last, out |-> Append(s.out, b)]
  <2>1. b \in OutBlocks(R)
    BY <1>4, InBlockIs, OutBlocksAre
  <2>2. u = [s EXCEPT !.out = Append(s.out, b)]
    BY <1>4 DEF OneBlock
  <2> HIDE DEF u
  <2>3. u = v
    BY ONLY <1>1, <2>2
  <2>4. Walked(m, R, v) /\ Grew(s.out, v.out)
    BY <1>1, <1>4, <2>1, OutGrows
  <2>5. b \in Range(v.out)
    BY <1>1, <2>1, LastGoesIn
  <2> HIDE DEF v
  <2> QED BY <2>3, <2>4, <2>5 DEF u
<1>5. CASE b.kind = "boundary"
  <2> DEFINE v == [t |-> s.t, last |-> << >>, out |-> Append(s.out, b)]
  <2>1. b \in OutBlocks(R)
    BY <1>5, InBlockIs, OutBlocksAre
  <2>2. u = [s EXCEPT !.out = Append(s.out, b), !.last = << >>]
    BY <1>5 DEF OneBlock
  <2> HIDE DEF u
  <2>3. u = v
    BY ONLY <1>1, <2>2
  <2>4. Walked(m, R, v) /\ Grew(s.out, v.out)
    BY <1>1, <1>5, <2>1, OutGrows
  <2>5. b \in Range(v.out)
    BY <1>1, <2>1, LastGoesIn
  <2> HIDE DEF v
  <2> QED BY <2>3, <2>4, <2>5 DEF u
<1> HIDE DEF u
<1> QED BY <1>2, <1>3, <1>4, <1>5, InBlockIs DEF u

(* At the end of the walk every figure and every boundary is still there.    *)
LEMMA WalkEnds ==
  ASSUME NEW m \in Seq(Upload), NEW R, NEW blocks \in Seq(InBlocks(R))
  PROVE  LET w == Walk(m, blocks)
         IN  /\ Walked(m, R, w)
             /\ \A i \in DOMAIN blocks :
                  blocks[i].kind \in {"figure", "boundary"} => blocks[i] \in Range(w.out)
<1> DEFINE N == Len(blocks)
<1>1. N \in Nat /\ DOMAIN blocks = 1 .. N /\ \A i \in 1 .. N : blocks[i] \in InBlocks(R)
  OBVIOUS
<1> HIDE DEF N
<1>2. PICK r : WalkSteps(r, N, blocks, m)
  BY <1>1, WalkRun
<1> DEFINE Right(n) == /\ Walked(m, R, r[n])
                       /\ \A i \in 1 .. n : blocks[i].kind \in {"figure", "boundary"}
                                              => blocks[i] \in Range(r[n].out)
           S == {n \in 0 .. N : Right(n)}
<1>3. 0 \in S
  <2> DEFINE w == r[0]
  <2>1. w = [t |-> Tracker, last |-> << >>, out |-> << >>]
    BY <1>2 DEF WalkSteps
  <2>2. << >> \in Seq(Words) /\ << >> \in Seq(OutBlocks(R)) /\ << >> \in Seq(Marker) /\ << >> \in Seq(Url)
    OBVIOUS
  <2>3. Tracker \in Trackers
    BY <2>2 DEF Tracker, Trackers
  <2> HIDE DEF w
  <2>4. w \in Walks(R) /\ w.t = Tracker /\ w.out = << >>
    BY <2>1, <2>2, <2>3 DEF Walks
  <2>5. Tracked(m, Tracker)
    <3>1. Tracker.seen = {} /\ Tracker.matched = << >> /\ Tracker.placed = {} /\ Tracker.images = << >>
      BY DEF Tracker
    <3> QED BY <2>3, <3>1 DEF Tracked
  <2>6. Walked(m, R, w)
    <3>1. Tracker.images = << >>
      BY DEF Tracker
    <3> QED BY <2>4, <2>5, <3>1 DEF Walked
  <2>7. Right(0)
    BY <2>6 DEF w
  <2> HIDE DEF Right
  <2> QED BY <1>1, <2>7
<1>4. ASSUME NEW n \in 1 .. N, n - 1 \in S PROVE n \in S
  <2> DEFINE before == r[n - 1]
             after == r[n]
  <2>1. Right(n - 1)
    BY <1>4
  <2>2. Walked(m, R, before) /\ blocks[n] \in InBlocks(R) /\ after = OneBlock(m, before, blocks[n])
    BY <1>1, <1>2, <2>1 DEF WalkSteps
  <2>3. /\ Walked(m, R, after) /\ Grew(before.out, after.out)
        /\ blocks[n].kind \in {"figure", "boundary"} => blocks[n] \in Range(after.out)
    BY <2>2, BlockTaken
  <2>4. \A x \in Range(before.out) : x \in Range(after.out)
    BY <2>3 DEF Grew, Range
  <2>5. \A i \in 1 .. n : i \in 1 .. n - 1 \/ i = n
    OBVIOUS
  <2>6. \A i \in 1 .. n - 1 : blocks[i].kind \in {"figure", "boundary"} => blocks[i] \in Range(before.out)
    BY <2>1
  <2> HIDE DEF before, after, S
  <2>7. \A i \in 1 .. n : blocks[i].kind \in {"figure", "boundary"} => blocks[i] \in Range(after.out)
    BY <2>3, <2>4, <2>5, <2>6
  <2>8. Right(n)
    BY <2>3, <2>7 DEF after
  <2> HIDE DEF Right
  <2> QED BY <2>8 DEF S
<1>5. Right(N)
  <2> HIDE DEF S, Right
  <2>1. N \in S
    <3>1. \A n \in 0 .. N : n \in S
      BY <1>1, <1>3, <1>4, InductionUpTo
    <3> QED BY <1>1, <3>1
  <2> QED BY <2>1 DEF S
<1>6. Walk(m, blocks) = r[N]
  BY <1>2 DEF WalkSteps
<1> QED BY <1>1, <1>5, <1>6

-----------------------------------------------------------------------------
(* Places and their ranks.                                                   *)
LEMMA RankOnce ==
  ASSUME NEW places \in SUBSET Nat, IsFiniteSet(places)
  PROVE  /\ \A j, k \in places : Rank(places, j) = Rank(places, k) => j = k
         /\ \A k \in places : Rank(places, k) \in 1 .. Cardinality(places)
                              /\ Nth(places, Rank(places, k)) = k
<1>1. \A k \in places : Rank(places, k) \in 1 .. Cardinality(places)
  BY RankGrows
<1>2. Cardinality(places) \in Nat
  BY NthPlace
<1>3. \A j, k \in places : Rank(places, j) = Rank(places, k) => j = k
  <2>1. \A j, k \in places : Rank(places, j) \in Nat /\ j \in Nat /\ (j < k \/ k < j \/ j = k)
    BY <1>1, <1>2
  <2> QED BY <2>1, RankGrows
<1> QED BY <1>1, <1>3, NthPlace

(* Whatever counts the places up in their order, counts them as Nth does.    *)
LEMMA PlacesAre ==
  ASSUME NEW places \in SUBSET Nat, IsFiniteSet(places), NEW C \in Nat, NEW g \in [1 .. C -> places],
         \A i, j \in 1 .. C : i < j => g[i] < g[j], \A k \in places : \E n \in 1 .. C : g[n] = k
  PROVE  Cardinality(places) = C /\ \A n \in 1 .. C : Nth(places, n) = g[n]
<1>1. \A i, j \in 1 .. C : i < j \/ j < i \/ i = j
  OBVIOUS
<1>2. \A i \in 1 .. C : g[i] \in Nat
  OBVIOUS
<1>3. \A i, j \in 1 .. C : g[i] = g[j] => i = j
  BY <1>1, <1>2
<1>4. \A n \in Nat : IsFiniteSet(1 .. n) /\ Cardinality(1 .. n) = n
  BY FS_Interval
<1>5. Cardinality(places) = C
  <2>1. g \in Bijection(1 .. C, places)
    BY <1>3 DEF Bijection, Injection, IsInjective, Surjection
  <2> QED BY <1>4, <2>1, FS_Bijection DEF ExistsBijection
<1>6. ASSUME NEW n \in 1 .. C PROVE Rank(places, g[n]) = n
  <2> DEFINE h == [i \in 1 .. n |-> g[i]]
  <2>1. \A i \in 1 .. n : i \in 1 .. C /\ (i < n \/ i = n)
    OBVIOUS
  <2>2. \A i \in 1 .. C : i \in 1 .. n \/ n < i
    OBVIOUS
  <2>3. \A i \in 1 .. n : g[i] \in Upto(places, g[n])
    <3>1. \A i \in 1 .. n : g[i] \in places /\ (g[i] < g[n] \/ g[i] = g[n])
      BY <2>1
    <3>2. \A i \in 1 .. n : g[i] <= g[n]
      BY <1>2, <2>1, <3>1
    <3> QED BY <3>1, <3>2 DEF Upto
  <2>4. \A k \in Upto(places, g[n]) : \E i \in 1 .. n : g[i] = k
    <3> SUFFICES ASSUME NEW k \in Upto(places, g[n]) PROVE \E i \in 1 .. n : g[i] = k
      OBVIOUS
    <3>1. k \in places /\ k <= g[n]
      BY DEF Upto
    <3>2. PICK i \in 1 .. C : g[i] = k
      BY <3>1
    <3>3. ~(n < i)
      BY <1>2, <3>1, <3>2
    <3> QED BY <2>2, <3>2, <3>3
  <2>5. h \in [1 .. n -> Upto(places, g[n])]
    BY <2>3
  <2>6. h \in Bijection(1 .. n, Upto(places, g[n]))
    BY <1>3, <2>1, <2>4, <2>5 DEF Bijection, Injection, IsInjective, Surjection
  <2> HIDE DEF h
  <2>7. n \in Nat
    OBVIOUS
  <2> QED BY <1>4, <2>6, <2>7, FS_Bijection DEF ExistsBijection, Rank
<1>7. \A n \in 1 .. C : Nth(places, n) \in places /\ Rank(places, Nth(places, n)) = n
  BY <1>5, NthPlace
<1> QED BY <1>5, <1>6, <1>7, RankOnce

(* The places of a list are finitely many numbers.                           *)
LEMMA PlacesFinite ==
  ASSUME NEW N \in Nat, NEW places \in SUBSET (1 .. N)
  PROVE  places \in SUBSET Nat /\ IsFiniteSet(places)
<1>1. IsFiniteSet(1 .. N) /\ 1 .. N \in SUBSET Nat
  BY FS_Interval
<1> QED BY <1>1, FS_Subset

(* The last place of a list that stays comes behind the others.              *)
LEMMA FilterStep ==
  ASSUME NEW E, NEW list \in Seq(E), NEW B \in SUBSET DOMAIN list, NEW n \in B,
         \A k \in B : k <= n, NEW A, A = B \ {n}
  PROVE  Filtered(list, B) = Append(Filtered(list, A), list[n])
<1>1. /\ Len(list) \in Nat /\ DOMAIN list = 1 .. Len(list) /\ n \in Nat
      /\ A \in SUBSET (1 .. Len(list)) /\ B \in SUBSET (1 .. Len(list)) /\ n \in DOMAIN list
  OBVIOUS
<1> DEFINE C == Cardinality(A)
           g == [k \in 1 .. C + 1 |-> IF k = C + 1 THEN n ELSE Nth(A, k)]
<1>2. /\ A \in SUBSET Nat /\ IsFiniteSet(A) /\ B \in SUBSET Nat /\ IsFiniteSet(B)
  BY <1>1, PlacesFinite
<1>3. C \in Nat /\ \A k \in 1 .. C : Nth(A, k) \in A /\ Rank(A, Nth(A, k)) = k
  BY <1>2, NthPlace
<1>4. B = A \union {n} /\ (\A a \in A : a < n) /\ n \in B
  BY <1>1
<1>5. \A k \in 1 .. C + 1 : k \in 1 .. C \/ k = C + 1
  BY <1>3
<1> HIDE DEF C
<1>6. g \in [1 .. C + 1 -> B]
  BY <1>3, <1>4, <1>5
<1>7. \A i, j \in 1 .. C + 1 : i < j => g[i] < g[j]
  <2> SUFFICES ASSUME NEW i \in 1 .. C + 1, NEW j \in 1 .. C + 1, i < j PROVE g[i] < g[j]
    OBVIOUS
  <2>1. i \in 1 .. C /\ g[i] = Nth(A, i) /\ g[i] \in A
    <3>1. i \in 1 .. C /\ i # C + 1
      BY <1>3
    <3> QED BY <1>3, <3>1
  <2>2. CASE j = C + 1
    BY <1>4, <2>1, <2>2
  <2>3. CASE j # C + 1
    <3>1. j \in 1 .. C /\ g[j] = Nth(A, j)
      BY <1>5, <2>3
    <3>2. Nth(A, i) \in Nat /\ Nth(A, j) \in Nat /\ Nth(A, i) \in A /\ Nth(A, j) \in A
      BY <1>2, <1>3, <2>1, <3>1
    <3>3. Rank(A, Nth(A, i)) = i /\ Rank(A, Nth(A, j)) = j
      BY <1>3, <2>1, <3>1
    <3>4. ~(Nth(A, j) < Nth(A, i)) /\ Nth(A, j) # Nth(A, i)
      <4>1. Nth(A, j) < Nth(A, i) => j < i
        BY <1>2, <3>2, <3>3, RankGrows
      <4>2. i \in Nat /\ j \in Nat
        BY <1>3
      <4> QED BY <3>3, <4>1, <4>2
    <3> HIDE DEF g
    <3> QED BY <2>1, <3>1, <3>2, <3>4
  <2> QED BY <2>2, <2>3
<1>8. \A k \in B : \E m \in 1 .. C + 1 : g[m] = k
  <2> SUFFICES ASSUME NEW k \in B PROVE \E m \in 1 .. C + 1 : g[m] = k
    OBVIOUS
  <2>1. CASE k = n
    BY <1>3, <2>1
  <2>2. CASE k \in A
    <3>1. PICK m \in 1 .. C : Nth(A, m) = k
      BY <1>2, <2>2, NthPlace DEF C
    <3>2. m \in 1 .. C + 1 /\ m # C + 1
      BY <1>3
    <3> QED BY <3>1, <3>2
  <2> QED BY <1>4, <2>1, <2>2
<1>9. Cardinality(B) = C + 1 /\ \A k \in 1 .. C + 1 : Nth(B, k) = g[k]
  <2> HIDE DEF g
  <2>1. C + 1 \in Nat
    BY <1>3
  <2> QED BY <1>2, <1>6, <1>7, <1>8, <2>1, PlacesAre
<1>10. /\ Filtered(list, B) = [k \in 1 .. C + 1 |-> list[Nth(B, k)]]
      /\ Filtered(list, A) = [k \in 1 .. C |-> list[Nth(A, k)]]
  BY <1>9 DEF Filtered, Nth, Rank, Upto, C
<1> DEFINE a == Filtered(list, A)
<1>11. a \in Seq(E) /\ Len(a) = C
  <2>1. A \in SUBSET DOMAIN list
    BY <1>1
  <2> QED BY <2>1, FilterKeeps DEF C
<1>12. list[n] \in E
  BY <1>1
<1>13. /\ DOMAIN Append(a, list[n]) = 1 .. C + 1
       /\ \A k \in 1 .. C : Append(a, list[n])[k] = list[Nth(A, k)]
       /\ Append(a, list[n])[C + 1] = list[n]
       /\ Append(a, list[n]) = [k \in 1 .. C + 1 |-> Append(a, list[n])[k]]
  <2>1. \A k \in 1 .. C : a[k] = list[Nth(A, k)]
    BY <1>10
  <2> HIDE DEF a
  <2>2. Append(a, list[n]) \in Seq(E) /\ Len(Append(a, list[n])) = C + 1
    BY <1>11, <1>12, Longer
  <2>3. \A k \in 1 .. C : Append(a, list[n])[k] = a[k]
    BY <1>11, <1>12, Longer
  <2>4. Append(a, list[n])[C + 1] = list[n] /\ DOMAIN Append(a, list[n]) = 1 .. C + 1
    BY <1>11, <1>12, Longer
  <2> DEFINE b == Append(a, list[n])
  <2>5. b = [k \in 1 .. C + 1 |-> b[k]]
    <3>1. b \in Seq(E) /\ Len(b) = C + 1
      BY <2>2
    <3> HIDE DEF b
    <3> QED BY <3>1
  <2> QED BY <2>1, <2>3, <2>4, <2>5
<1> HIDE DEF a
<1>14. Filtered(list, B) = Append(a, list[n])
  <2>1. \A k \in 1 .. C + 1 : list[Nth(B, k)] = Append(a, list[n])[k]
    <3> SUFFICES ASSUME NEW k \in 1 .. C + 1 PROVE list[Nth(B, k)] = Append(a, list[n])[k]
      OBVIOUS
    <3>1. CASE k = C + 1
      BY <1>9, <1>13, <3>1
    <3>2. CASE k # C + 1
      <4>1. k \in 1 .. C
        BY <1>5, <3>2
      <4> QED BY <1>9, <1>13, <3>2, <4>1
    <3> QED BY <3>1, <3>2
  <2> DEFINE b == Append(a, list[n])
  <2> HIDE DEF b
  <2> QED BY <1>10, <1>13, <2>1 DEF b
<1> QED BY <1>14 DEF a

(* Behind a list of which some places stay, another one that stays whole.    *)
LEMMA FilterJoins ==
  ASSUME NEW E, NEW s \in Seq(E), NEW t \in Seq(E), NEW places \in SUBSET DOMAIN s
  PROVE  Filtered(s \o t, places \union {Len(s) + k : k \in DOMAIN t}) = Filtered(s, places) \o t
<1> DEFINE N == Len(s)
           M == Len(t)
           A == places
           B == places \union {N + k : k \in DOMAIN t}
           C == Cardinality(A)
           g == [k \in 1 .. C + M |-> IF k <= C THEN Nth(A, k) ELSE N + (k - C)]
<1>1. /\ N \in Nat /\ M \in Nat /\ DOMAIN s = 1 .. N /\ DOMAIN t = 1 .. M
  OBVIOUS
<1> HIDE DEF N, M
<1>2. A \in SUBSET (1 .. N) /\ B \in SUBSET (1 .. N + M)
  BY <1>1
<1> HIDE DEF A, B, C
<1>3. A \in SUBSET Nat /\ IsFiniteSet(A) /\ B \in SUBSET Nat /\ IsFiniteSet(B)
  <2>1. N + M \in Nat
    BY <1>1
  <2> QED BY <1>1, <1>2, <2>1, PlacesFinite
<1>4. C \in Nat /\ \A k \in 1 .. C : Nth(A, k) \in A /\ Rank(A, Nth(A, k)) = k
  BY <1>3, NthPlace DEF C
<1>5. /\ \A x \in A : x \in B
      /\ \A k \in 1 .. M : N + k \in B
      /\ \A x \in B : x \in A \/ \E k \in 1 .. M : x = N + k
  BY <1>1 DEF A, B
<1>6. /\ \A k \in 1 .. C + M : k <= C => k \in 1 .. C
      /\ \A k \in 1 .. C + M : ~(k <= C) => k - C \in 1 .. M
  BY <1>1, <1>4
<1>7. g \in [1 .. C + M -> B]
  BY <1>4, <1>5, <1>6
<1>8. \A i, j \in 1 .. C + M : i < j => g[i] < g[j]
  <2> SUFFICES ASSUME NEW i \in 1 .. C + M, NEW j \in 1 .. C + M, i < j PROVE g[i] < g[j]
    OBVIOUS
  <2>0. i \in Nat /\ j \in Nat
    BY <1>1, <1>4
  <2>1. CASE i <= C /\ j <= C
    <3>1. i \in 1 .. C /\ j \in 1 .. C /\ g[i] = Nth(A, i) /\ g[j] = Nth(A, j)
      BY <1>6, <2>1
    <3> HIDE DEF g
    <3>2. Nth(A, i) \in Nat /\ Nth(A, j) \in Nat /\ Nth(A, i) \in A /\ Nth(A, j) \in A
      BY <1>3, <1>4, <3>1
    <3>3. Rank(A, Nth(A, i)) = i /\ Rank(A, Nth(A, j)) = j
      BY <1>4, <3>1
    <3>4. Nth(A, j) < Nth(A, i) => j < i
      BY <1>3, <3>2, <3>3, RankGrows
    <3>5. ~(Nth(A, j) < Nth(A, i)) /\ Nth(A, j) # Nth(A, i)
      BY <2>0, <3>3, <3>4
    <3> QED BY <3>1, <3>2, <3>5
  <2>2. CASE i <= C /\ ~(j <= C)
    <3>1. i \in 1 .. C /\ g[i] = Nth(A, i) /\ g[i] \in A
      BY <1>4, <1>6, <2>2
    <3>2. g[j] = N + (j - C) /\ j - C \in 1 .. M
      BY <1>6, <2>2
    <3>3. g[i] \in 1 .. N
      BY <1>2, <3>1
    <3> HIDE DEF g
    <3> QED BY <1>1, <3>2, <3>3
  <2>3. CASE ~(i <= C)
    <3>1. ~(j <= C)
      BY <1>4, <2>0, <2>3
    <3>2. g[j] = N + (j - C) /\ g[i] = N + (i - C)
      BY <2>3, <3>1
    <3> HIDE DEF g
    <3> QED BY <1>1, <1>4, <2>0, <3>2
  <2> QED BY <2>1, <2>2, <2>3
<1>9. \A x \in B : \E n \in 1 .. C + M : g[n] = x
  <2> SUFFICES ASSUME NEW x \in B PROVE \E n \in 1 .. C + M : g[n] = x
    OBVIOUS
  <2>1. CASE x \in A
    <3>1. PICK n \in 1 .. C : Nth(A, n) = x
      BY <1>3, <2>1, NthPlace DEF C
    <3>2. n \in 1 .. C + M /\ n <= C
      BY <1>1, <1>4
    <3> QED BY <3>1, <3>2
  <2>2. ASSUME NEW k \in 1 .. M, x = N + k PROVE \E n \in 1 .. C + M : g[n] = x
    <3>1. C + k \in 1 .. C + M /\ ~(C + k <= C) /\ (C + k) - C = k
      BY <1>1, <1>4
    <3>2. g[C + k] = x
      BY <2>2, <3>1
    <3> QED BY <3>1, <3>2
  <2> QED BY <1>5, <2>1, <2>2
<1>10. Cardinality(B) = C + M /\ \A k \in 1 .. C + M : Nth(B, k) = g[k]
  <2> HIDE DEF g
  <2>1. C + M \in Nat
    BY <1>1, <1>4
  <2> QED BY <1>3, <1>7, <1>8, <1>9, <2>1, PlacesAre
<1> DEFINE both == s \o t
           a == Filtered(s, A)
<1>11. /\ both \in Seq(E) /\ (\A x \in 1 .. N : both[x] = s[x]) /\ \A k \in 1 .. M : both[N + k] = t[k]
  BY DEF N, M
<1>12. a \in Seq(E) /\ Len(a) = C /\ \A k \in 1 .. C : a[k] = s[Nth(A, k)]
  <2>1. A \in SUBSET DOMAIN s
    BY <1>1, <1>2
  <2>2. a = [k \in 1 .. C |-> s[Nth(A, k)]]
    BY DEF Filtered, Nth, Rank, Upto, C
  <2> QED BY <2>1, <2>2, FilterKeeps DEF C
<1>13. Filtered(both, B) = [k \in 1 .. C + M |-> both[Nth(B, k)]]
  BY <1>10 DEF Filtered, Nth, Rank, Upto
<1> HIDE DEF both, a
<1> DEFINE l == a \o t
<1>14. /\ DOMAIN l = 1 .. C + M /\ l = [k \in 1 .. C + M |-> l[k]]
       /\ \A k \in 1 .. C + M : l[k] = IF k <= C THEN a[k] ELSE t[k - C]
  <2>1. Len(t) = M /\ Len(a) = C /\ a \in Seq(E) /\ t \in Seq(E)
    BY <1>12 DEF M
  <2>2. Len(l) = C + M /\ l \in Seq(E) /\ \A k \in 1 .. C + M : l[k] = IF k <= C THEN a[k] ELSE t[k - C]
    BY <2>1
  <2> HIDE DEF l
  <2> QED BY <2>2
<1>15. \A k \in 1 .. C + M : both[Nth(B, k)] = l[k]
  <2> SUFFICES ASSUME NEW k \in 1 .. C + M PROVE both[Nth(B, k)] = l[k]
    OBVIOUS
  <2>1. CASE k <= C
    <3>1. k \in 1 .. C /\ Nth(B, k) = Nth(A, k) /\ Nth(A, k) \in 1 .. N
      BY <1>2, <1>4, <1>6, <1>10, <2>1
    <3> HIDE DEF l
    <3> QED BY <1>11, <1>12, <1>14, <2>1, <3>1
  <2>2. CASE ~(k <= C)
    <3>1. k - C \in 1 .. M /\ Nth(B, k) = N + (k - C)
      BY <1>6, <1>10, <2>2
    <3> HIDE DEF l
    <3> QED BY <1>11, <1>14, <2>2, <3>1
  <2> QED BY <2>1, <2>2
<1> HIDE DEF l
<1>16. Filtered(both, B) = l
  BY <1>13, <1>14, <1>15
<1> QED BY <1>16 DEF l, a, both, A, B, N

-----------------------------------------------------------------------------
(* Figures and their places.                                                 *)

(* A place moves down by the figures removed before it.                      *)
LEMMA ShiftIsRank ==
  ASSUME NEW N \in Nat, NEW remove \in SUBSET (1 .. N), NEW i \in (1 .. N) \ remove
  PROVE  Shifted(i, remove) = Rank((1 .. N) \ remove, i)
<1> DEFINE A == {r \in remove : r < i}
           B == Upto((1 .. N) \ remove, i)
<1>1. i \in Nat /\ IsFiniteSet(1 .. i) /\ Cardinality(1 .. i) = i
  BY FS_Interval
<1>2. A \in SUBSET (1 .. i) /\ B \in SUBSET (1 .. i) /\ A \union B = 1 .. i /\ A \intersect B = {}
  <2>1. \A r \in remove : r < i => r \in 1 .. i
    OBVIOUS
  <2>2. \A r \in 1 .. N : r <= i => r \in 1 .. i
    OBVIOUS
  <2>3. \A r \in 1 .. i : r \in 1 .. N /\ r <= i /\ (r # i => r < i)
    OBVIOUS
  <2> QED BY <2>1, <2>2, <2>3 DEF Upto
<1> HIDE DEF A, B
<1>3. /\ IsFiniteSet(A) /\ IsFiniteSet(B) /\ Cardinality(A) \in Nat /\ Cardinality(B) \in Nat
  BY <1>1, <1>2, FS_Subset, FS_CardinalityType
<1>4. Cardinality(1 .. i) = Cardinality(A) + Cardinality(B)
  <2>1. Cardinality(A \union B) = Cardinality(A) + Cardinality(B) - Cardinality(A \intersect B)
    BY <1>3, FS_Union
  <2>2. Cardinality(A \intersect B) = 0
    BY <1>2, FS_EmptySet
  <2>3. Cardinality(1 .. i) = Cardinality(A) + Cardinality(B) - 0
    BY <1>2, <2>1, <2>2
  <2> QED BY <1>3, <2>3
<1>5. Shifted(i, remove) = i - Cardinality(A) /\ Rank((1 .. N) \ remove, i) = Cardinality(B)
  BY DEF Shifted, Rank, A, B
<1> QED BY <1>1, <1>3, <1>4, <1>5

(* The figures that are left, the blocks that stay, and where they move.     *)
Left(d, remove) == DOMAIN d.figures \ remove
Stays(d, remove) ==
  {i \in DOMAIN d.blocks : d.blocks[i].kind = "figure" => d.blocks[i].ref \notin remove}
Moved(d, remove, ref) ==
  IF ref > Len(d.figures)
  THEN Len(Filtered(d.figures, Left(d, remove))) + ref - Len(d.figures)
  ELSE Shifted(ref, remove)

(* What is left has the first places, in its order.                          *)
LEMMA LeftMoves ==
  ASSUME NEW d, d.figures \in Seq(Url), NEW remove \in SUBSET DOMAIN d.figures
  PROVE  LET C == Cardinality(Left(d, remove))
             kept == Filtered(d.figures, Left(d, remove))
         IN  /\ C \in Nat /\ kept \in Seq(Url) /\ Len(kept) = C
             /\ \A i \in Left(d, remove) :
                  Shifted(i, remove) \in 1 .. C /\ kept[Shifted(i, remove)] = d.figures[i]
             /\ \A i, j \in Left(d, remove) : Shifted(i, remove) = Shifted(j, remove) => i = j
             /\ \A n \in 1 .. C : \E i \in Left(d, remove) : Shifted(i, remove) = n
<1> DEFINE N == Len(d.figures)
           K == Left(d, remove)
           C == Cardinality(K)
           kept == Filtered(d.figures, K)
<1>1. N \in Nat /\ DOMAIN d.figures = 1 .. N
  OBVIOUS
<1>2. K \in SUBSET DOMAIN d.figures /\ K = (1 .. N) \ remove /\ remove \in SUBSET (1 .. N)
  BY <1>1 DEF Left
<1> HIDE DEF N, K
<1>3. K \in SUBSET Nat /\ IsFiniteSet(K)
  BY <1>1, <1>2, PlacesFinite
<1>4. \A i \in K : Shifted(i, remove) = Rank(K, i)
  BY <1>1, <1>2, ShiftIsRank
<1>5. /\ kept \in Seq(Url) /\ Len(kept) = C
      /\ \A n \in DOMAIN kept : kept[n] = d.figures[Nth(K, n)]
  BY <1>2, FilterKeeps
<1>6. C \in Nat /\ \A n \in 1 .. C : Nth(K, n) \in K /\ Rank(K, Nth(K, n)) = n
  BY <1>3, NthPlace
<1>7. \A i \in K : Rank(K, i) \in 1 .. C /\ Nth(K, Rank(K, i)) = i
  BY <1>3, RankOnce
<1>8. \A i, j \in K : Rank(K, i) = Rank(K, j) => i = j
  BY <1>3, RankOnce
<1> HIDE DEF kept, C
<1>9. DOMAIN kept = 1 .. C
  BY <1>5
<1>10. \A i \in K : Shifted(i, remove) \in 1 .. C /\ kept[Shifted(i, remove)] = d.figures[i]
  BY <1>4, <1>5, <1>7, <1>9
<1>11. \A n \in 1 .. C : \E i \in K : Shifted(i, remove) = n
  BY <1>4, <1>6
<1> QED BY <1>4, <1>5, <1>6, <1>8, <1>10, <1>11 DEF K, kept, C

LEMMA Joined ==
  ASSUME NEW E, NEW s \in Seq(E), NEW t \in Seq(E)
  PROVE  /\ s \o t \in Seq(E) /\ Len(s \o t) = Len(s) + Len(t) /\ Len(s) \in Nat /\ Len(t) \in Nat
         /\ DOMAIN s = 1 .. Len(s) /\ DOMAIN t = 1 .. Len(t)
         /\ DOMAIN (s \o t) = 1 .. Len(s) + Len(t)
         /\ \A i \in 1 .. Len(s) : (s \o t)[i] = s[i]
         /\ \A i \in 1 .. Len(t) : (s \o t)[Len(s) + i] = t[i]
         /\ Range(s \o t) = Range(s) \union Range(t)
<1>1. /\ s \o t \in Seq(E) /\ Len(s \o t) = Len(s) + Len(t) /\ Len(s) \in Nat /\ Len(t) \in Nat
      /\ DOMAIN s = 1 .. Len(s) /\ DOMAIN t = 1 .. Len(t)
      /\ DOMAIN (s \o t) = 1 .. Len(s) + Len(t)
      /\ \A i \in 1 .. Len(s) : (s \o t)[i] = s[i]
      /\ \A i \in 1 .. Len(t) : (s \o t)[Len(s) + i] = t[i]
  OBVIOUS
<1> DEFINE l == s \o t
<1> HIDE DEF l
<1>2. \A i \in DOMAIN l : i \in 1 .. Len(s) \/ \E k \in 1 .. Len(t) : i = Len(s) + k
  <2> SUFFICES ASSUME NEW i \in DOMAIN l, ~(i \in 1 .. Len(s)) PROVE \E k \in 1 .. Len(t) : i = Len(s) + k
    OBVIOUS
  <2>1. i - Len(s) \in 1 .. Len(t) /\ i = Len(s) + (i - Len(s))
    BY <1>1 DEF l
  <2> QED BY <2>1
<1>3. /\ \A i \in 1 .. Len(s) : i \in DOMAIN l
      /\ \A k \in 1 .. Len(t) : Len(s) + k \in DOMAIN l
  BY <1>1 DEF l
<1>4. Range(l) = Range(s) \union Range(t)
  <2>1. \A x \in Range(l) : x \in Range(s) \union Range(t)
    <3> SUFFICES ASSUME NEW i \in DOMAIN l PROVE l[i] \in Range(s) \union Range(t)
      BY DEF Range
    <3> QED BY <1>1, <1>2 DEF l, Range
  <2>2. \A x \in Range(s) \union Range(t) : x \in Range(l)
    BY <1>1, <1>3 DEF l, Range
  <2> QED BY <2>1, <2>2
<1> QED BY <1>1, <1>4 DEF l

(* reindexFigures: what it makes of figures and blocks.                      *)
ReindexedTo(B, d, remove, new) ==
  LET r == reindexFigures(d, remove, new)
      C == Cardinality(Left(d, remove))
      S == Stays(d, remove)
      stays == Filtered(d.blocks, S)
  IN  /\ r = [blocks |-> r.blocks, figures |-> r.figures]
      /\ r.figures = Filtered(d.figures, Left(d, remove)) \o new
      /\ r.figures \in Seq(Url) /\ Len(r.figures) = C + Len(new)
      /\ \A j \in DOMAIN new : C + j \in DOMAIN r.figures /\ r.figures[C + j] = new[j]
      /\ \A i \in Left(d, remove) : /\ Shifted(i, remove) \in DOMAIN r.figures
                                    /\ r.figures[Shifted(i, remove)] = d.figures[i]
      /\ Range(r.figures) = {d.figures[i] : i \in Left(d, remove)} \union Range(new)
      /\ stays \in Seq(B) /\ S \in SUBSET DOMAIN d.blocks
      /\ r.blocks = [k \in DOMAIN stays |->
                       IF stays[k].kind = "figure" THEN Figure(Moved(d, remove, stays[k].ref))
                       ELSE stays[k]]
      /\ DOMAIN stays = 1 .. Cardinality(S) /\ Cardinality(S) \in Nat
      /\ \A k \in DOMAIN stays : Nth(S, k) \in S /\ stays[k] = d.blocks[Nth(S, k)]
      /\ \A k, l \in DOMAIN stays : Nth(S, k) = Nth(S, l) => k = l
      /\ \A i \in S : \E k \in DOMAIN stays : Nth(S, k) = i

LEMMA Reindexed ==
  ASSUME NEW B, NEW d, d.blocks \in Seq(B), d.figures \in Seq(Url),
         NEW remove \in SUBSET DOMAIN d.figures, NEW new \in Seq(Url)
  PROVE  ReindexedTo(B, d, remove, new)
<1> DEFINE r == reindexFigures(d, remove, new)
           K == Left(d, remove)
           C == Cardinality(K)
           S == Stays(d, remove)
           stays == Filtered(d.blocks, S)
           kept == Filtered(d.figures, K)
<1>1. r = [blocks |-> [k \in DOMAIN stays |->
                         IF stays[k].kind = "figure" THEN Figure(Moved(d, remove, stays[k].ref))
                         ELSE stays[k]],
           figures |-> kept \o new]
  BY DEF reindexFigures, Left, Stays, Moved
<1>2. S \in SUBSET DOMAIN d.blocks
  BY DEF Stays
<1>3. /\ C \in Nat /\ kept \in Seq(Url) /\ Len(kept) = C
      /\ \A i \in K : Shifted(i, remove) \in 1 .. C /\ kept[Shifted(i, remove)] = d.figures[i]
      /\ \A n \in 1 .. C : \E i \in K : Shifted(i, remove) = n
  BY LeftMoves
<1> HIDE DEF r, K, C, S, kept
<1>4. /\ stays \in Seq(B) /\ Len(stays) = Cardinality(S)
      /\ \A k \in DOMAIN stays : Nth(S, k) \in S /\ stays[k] = d.blocks[Nth(S, k)]
      /\ \A k, l \in DOMAIN stays : Nth(S, k) = Nth(S, l) => k = l
      /\ \A i \in S : \E k \in DOMAIN stays : Nth(S, k) = i
  BY <1>2, FilterKeeps
<1> HIDE DEF stays
<1>5. DOMAIN stays = 1 .. Cardinality(S) /\ Cardinality(S) \in Nat
  BY <1>4
<1>6. r = [blocks |-> r.blocks, figures |-> r.figures] /\ r.figures = kept \o new
  BY <1>1
<1>7. r.blocks = [k \in DOMAIN stays |->
                    IF stays[k].kind = "figure" THEN Figure(Moved(d, remove, stays[k].ref))
                    ELSE stays[k]]
  BY <1>1
<1>8. /\ r.figures \in Seq(Url) /\ Len(r.figures) = C + Len(new) /\ Len(new) \in Nat
      /\ DOMAIN new = 1 .. Len(new) /\ DOMAIN kept = 1 .. C
      /\ DOMAIN r.figures = 1 .. C + Len(new)
      /\ \A i \in 1 .. C : r.figures[i] = kept[i]
      /\ \A j \in 1 .. Len(new) : r.figures[C + j] = new[j]
      /\ Range(r.figures) = Range(kept) \union Range(new)
  <2>1. /\ kept \o new \in Seq(Url) /\ Len(kept \o new) = Len(kept) + Len(new) /\ Len(new) \in Nat
        /\ DOMAIN new = 1 .. Len(new) /\ DOMAIN kept = 1 .. Len(kept)
        /\ DOMAIN (kept \o new) = 1 .. Len(kept) + Len(new)
        /\ \A i \in 1 .. Len(kept) : (kept \o new)[i] = kept[i]
        /\ \A j \in 1 .. Len(new) : (kept \o new)[Len(kept) + j] = new[j]
        /\ Range(kept \o new) = Range(kept) \union Range(new)
    BY <1>3, Joined
  <2>2. Len(kept) = C /\ r.figures = kept \o new
    BY <1>3, <1>6
  <2> DEFINE l == kept \o new
  <2> HIDE DEF l
  <2> QED BY <2>1, <2>2 DEF l
<1>9. \A j \in DOMAIN new : C + j \in DOMAIN r.figures /\ r.figures[C + j] = new[j]
  BY <1>3, <1>8
<1>10. \A i \in 1 .. C : i \in DOMAIN r.figures
  BY <1>3, <1>8
<1>11. \A i \in K : Shifted(i, remove) \in DOMAIN r.figures /\ r.figures[Shifted(i, remove)] = d.figures[i]
  BY <1>3, <1>8, <1>10
<1>12. Range(kept) = {d.figures[i] : i \in K}
  <2>1. \A x \in Range(kept) : \E i \in K : x = d.figures[i]
    <3> SUFFICES ASSUME NEW n \in DOMAIN kept PROVE \E i \in K : kept[n] = d.figures[i]
      BY DEF Range
    <3>1. PICK i \in K : Shifted(i, remove) = n
      BY <1>3, <1>8
    <3> QED BY <1>3, <3>1
  <2>2. \A i \in K : d.figures[i] \in Range(kept)
    BY <1>3, <1>8 DEF Range
  <2> QED BY <2>1, <2>2
<1> QED BY <1>2, <1>4, <1>5, <1>6, <1>7, <1>8, <1>9, <1>11, <1>12 DEF r, K, C, S, stays, kept, ReindexedTo

-----------------------------------------------------------------------------
(* The document twin.                                                        *)

(* Blocks whose text holds no marker.                                        *)
CleanBlocks(R) ==
  [kind : {"paragraph", "carrier"}, pieces : Seq(Words)] \union [kind : {"figure"}, ref : R]
    \union {Boundary}
Docs(B) == [blocks : Seq(B), figures : Seq(Url)]
HasBoundary(d) == \E i \in DOMAIN d.blocks : d.blocks[i] = Boundary

LEMMA DocIs ==
  ASSUME NEW B, NEW d \in Docs(B)
  PROVE  /\ d = [blocks |-> d.blocks, figures |-> d.figures]
         /\ d.blocks \in Seq(B) /\ d.figures \in Seq(Url)
BY DEF Docs

LEMMA CleanBlockIs ==
  ASSUME NEW R, NEW b \in CleanBlocks(R)
  PROVE  /\ b.kind \in {"paragraph", "carrier", "figure", "boundary"}
         /\ b.kind \in {"paragraph", "carrier"} => b.pieces \in Seq(Words)
         /\ b.kind = "figure" => b.ref \in R /\ b = Figure(b.ref)
         /\ b.kind = "boundary" => b = Boundary
<1>1. CASE b \in [kind : {"paragraph", "carrier"}, pieces : Seq(Words)]
  BY <1>1
<1>2. CASE b \in [kind : {"figure"}, ref : R]
  BY <1>2 DEF Figure
<1>3. CASE b = Boundary
  BY <1>3 DEF Boundary
<1> QED BY <1>1, <1>2, <1>3 DEF CleanBlocks

LEMMA CleanBlocksAre ==
  ASSUME NEW R, NEW Q
  PROVE  /\ \A x \in R : Figure(x) \in CleanBlocks(R)
         /\ Boundary \in CleanBlocks(R)
         /\ \A b \in OutBlocks(Q) : b.kind \notin {"placed", "figure"} => b \in CleanBlocks(R)
         /\ Q \subseteq R => \A b \in OutBlocks(Q) : b.kind # "placed" => b \in CleanBlocks(R)
<1>1. \A x \in R : Figure(x) \in CleanBlocks(R)
  BY DEF CleanBlocks, Figure
<1>2. Boundary \in CleanBlocks(R)
  BY DEF CleanBlocks
<1>3. ASSUME NEW b \in OutBlocks(Q), b.kind # "placed"
      PROVE  b.kind # "figure" \/ Q \subseteq R => b \in CleanBlocks(R)
  <2>1. b \in [kind : {"placed"}, ref : Nat] => b.kind = "placed"
    OBVIOUS
  <2>2. b \in [kind : {"figure"}, ref : Q] =>
          b.kind = "figure" /\ (Q \subseteq R => b \in [kind : {"figure"}, ref : R])
    OBVIOUS
  <2> QED BY <1>3, <2>1, <2>2 DEF OutBlocks, CleanBlocks
<1> QED BY <1>1, <1>2, <1>3

(* The markers that match and were not placed.                               *)
LEMMA UnplacedAre ==
  ASSUME NEW m \in Seq(Upload), NEW t, Tracked(m, t)
  PROVE  LET files == Unplaced(t)
         IN  /\ files \in Seq(Marker)
             /\ \A i \in DOMAIN files : Match(m, files[i]) # 0 /\ files[i] \notin t.placed
             /\ \A i, j \in DOMAIN files : files[i] = files[j] => i = j
             /\ \A f \in Range(t.matched) \ t.placed : f \in Range(files)
<1> DEFINE places == {i \in DOMAIN t.matched : t.matched[i] \notin t.placed}
           files == Unplaced(t)
<1>1. t.matched \in Seq(Marker)
  BY DEF Tracked, Trackers
<1>2. places \in SUBSET DOMAIN t.matched /\ \A i \in places : t.matched[i] \notin t.placed
  OBVIOUS
<1>3. \A i \in DOMAIN t.matched : t.matched[i] \notin t.placed => i \in places
  OBVIOUS
<1>4. files = Filtered(t.matched, places)
  BY DEF Unplaced
<1> HIDE DEF places, files
<1>5. /\ files \in Seq(Marker)
      /\ \A n \in DOMAIN files : files[n] = t.matched[Nth(places, n)]
      /\ \A n \in DOMAIN files : Nth(places, n) \in places
      /\ \A k, n \in DOMAIN files : Nth(places, k) = Nth(places, n) => k = n
      /\ \A k \in places : \E n \in DOMAIN files : Nth(places, n) = k
  BY <1>1, <1>2, <1>4, FilterKeeps
<1>6. \A i \in DOMAIN files : Match(m, files[i]) # 0 /\ files[i] \notin t.placed
  BY <1>2, <1>5 DEF Tracked
<1>7. \A i, j \in DOMAIN files : files[i] = files[j] => i = j
  BY <1>2, <1>5 DEF Tracked
<1>8. \A f \in Range(t.matched) \ t.placed : f \in Range(files)
  BY <1>3, <1>5 DEF Range
<1> QED BY <1>5, <1>6, <1>7, <1>8 DEF files

(* Of these, the ones whose image the model did not place.                   *)
LEMMA RestIs ==
  ASSUME NEW m \in Seq(Upload), NEW t, Tracked(m, t), NEW d
  PROVE  LET rest == Rest(d, m, t)
         IN  /\ rest \in Seq(Marker)
             /\ \A k \in DOMAIN rest : UrlOf(m, rest[k]) \in Url
             /\ \A f \in Range(Unplaced(t)) : UrlOf(m, f) \notin Range(d.figures) => f \in Range(rest)
<1> DEFINE files == Unplaced(t)
           places == {i \in DOMAIN files : UrlOf(m, files[i]) \notin Range(d.figures)}
           rest == Rest(d, m, t)
<1>1. files \in Seq(Marker) /\ \A i \in DOMAIN files : Match(m, files[i]) # 0
  BY UnplacedAre
<1>2. rest = Filtered(files, places)
  BY DEF Rest
<1> HIDE DEF files, rest
<1>3. places \in SUBSET DOMAIN files
  OBVIOUS
<1>4. \A i \in DOMAIN files : UrlOf(m, files[i]) \notin Range(d.figures) => i \in places
  OBVIOUS
<1> HIDE DEF places
<1>5. /\ rest \in Seq(Marker)
      /\ \A n \in DOMAIN rest : rest[n] = files[Nth(places, n)]
      /\ \A n \in DOMAIN rest : Nth(places, n) \in places
      /\ \A k \in places : \E n \in DOMAIN rest : Nth(places, n) = k
  BY <1>1, <1>2, <1>3, FilterKeeps
<1>6. \A k \in DOMAIN rest : UrlOf(m, rest[k]) \in Url
  BY <1>1, <1>3, <1>5, MatchIs
<1>7. \A f \in Range(files) : UrlOf(m, f) \notin Range(d.figures) => f \in Range(rest)
  BY <1>4, <1>5 DEF Range
<1> QED BY <1>5, <1>6, <1>7 DEF files, rest

(* The blocks and figures that reindexFigures is given.                      *)
Middle(d, w) == Settled(w.out, [k \in DOMAIN w.t.images |-> Len(d.figures) + k])
Ends(m, d, w) ==
  [k \in DOMAIN Rest(d, m, w.t) |-> Figure(Len(d.figures) + Len(w.t.images) + k)]
NewFigures(m, d, w) ==
  w.t.images \o [k \in DOMAIN Rest(d, m, w.t) |-> UrlOf(m, Rest(d, m, w.t)[k])]
WithNew(m, d, w) == [blocks |-> Middle(d, w) \o Ends(m, d, w), figures |-> d.figures]

Given(m, d, w) ==
  /\ PlaceAll(d, m, w) = [doc |-> reindexFigures(WithNew(m, d, w), Takes(d, w.t.images),
                                                 NewFigures(m, d, w)),
                          seen |-> w.t.seen]
  /\ Middle(d, w) \in Seq(CleanBlocks(Int)) /\ DOMAIN Middle(d, w) = DOMAIN w.out
  /\ \A p \in DOMAIN w.out :
       Middle(d, w)[p] = IF w.out[p].kind = "placed" THEN Figure(Len(d.figures) + w.out[p].ref)
                         ELSE w.out[p]
  /\ Ends(m, d, w) \in Seq(CleanBlocks(Int)) /\ NewFigures(m, d, w) \in Seq(Url)
  /\ WithNew(m, d, w) \in Docs(CleanBlocks(Int))
  /\ Takes(d, w.t.images) \in SUBSET DOMAIN d.figures

LEMMA GivenIs ==
  ASSUME NEW m \in Seq(Upload), NEW R \in SUBSET Int, NEW d \in Docs(InBlocks(R)),
         NEW w, Walked(m, R, w)
  PROVE  Given(m, d, w)
<1> DEFINE old == Len(d.figures)
           refs == [k \in DOMAIN w.t.images |-> old + k]
           rest == Rest(d, m, w.t)
           urls == [k \in DOMAIN rest |-> UrlOf(m, rest[k])]
           mid == Middle(d, w)
           ends == Ends(m, d, w)
<1>1. /\ d = [blocks |-> d.blocks, figures |-> d.figures]
      /\ d.blocks \in Seq(InBlocks(R)) /\ d.figures \in Seq(Url) /\ old \in Nat
  <2>1. d.figures \in Seq(Url)
    BY DocIs
  <2> QED BY <2>1, DocIs
<1>2. /\ Tracked(m, w.t) /\ w.t.images \in Seq(Url) /\ w.out \in Seq(OutBlocks(R))
      /\ \A p \in DOMAIN w.out : w.out[p].kind = "placed" => w.out[p].ref \in DOMAIN w.t.images
  BY DEF Walked, Tracked, Trackers, Walks
<1>3. Len(w.t.images) \in Nat /\ DOMAIN w.t.images = 1 .. Len(w.t.images)
  BY <1>2
<1>4. rest \in Seq(Marker) /\ \A k \in DOMAIN rest : UrlOf(m, rest[k]) \in Url
  BY <1>2, RestIs
<1>5. Len(rest) \in Nat /\ DOMAIN rest = 1 .. Len(rest)
  BY <1>4
<1>6. PlaceAll(d, m, w) = [doc |-> reindexFigures(WithNew(m, d, w), Takes(d, w.t.images),
                                                  NewFigures(m, d, w)),
                           seen |-> w.t.seen]
  <2> DEFINE blocks == Middle(d, w) \o Ends(m, d, w)
  <2>1. [d EXCEPT !.blocks = blocks] = WithNew(m, d, w)
    <3> HIDE DEF blocks
    <3>1. [d EXCEPT !.blocks = blocks] = [blocks |-> blocks, figures |-> d.figures]
      BY ONLY <1>1
    <3> QED BY <3>1 DEF WithNew, blocks
  <2> QED BY <2>1 DEF PlaceAll, Middle, Ends, NewFigures
<1>7. \A p \in DOMAIN w.out :
        mid[p] = IF w.out[p].kind = "placed" THEN Figure(old + w.out[p].ref) ELSE w.out[p]
  BY <1>2 DEF Middle, Settled
<1>8. DOMAIN mid = DOMAIN w.out
  BY DEF Middle, Settled
<1>9. mid = [p \in DOMAIN mid |-> mid[p]]
  BY DEF Middle, Settled
<1> HIDE DEF rest, mid
<1>10. mid \in Seq(CleanBlocks(Int))
  <2>1. ASSUME NEW p \in DOMAIN w.out PROVE mid[p] \in CleanBlocks(Int)
    <3>1. w.out[p] \in OutBlocks(R)
      BY <1>2
    <3>2. CASE w.out[p].kind = "placed"
      <4>1. old + w.out[p].ref \in Int
        BY <1>1, <1>2, <1>3, <3>2
      <4> HIDE DEF old
      <4> QED BY <1>7, <3>2, <4>1, CleanBlocksAre
    <3>3. CASE w.out[p].kind # "placed"
      BY <1>7, <3>1, <3>3, CleanBlocksAre
    <3> QED BY <3>2, <3>3
  <2>2. DOMAIN mid = 1 .. Len(w.out) /\ Len(w.out) \in Nat
    BY <1>2, <1>8
  <2> QED BY <1>8, <1>9, <2>1, <2>2
<1>11. ends \in Seq(CleanBlocks(Int))
  <2>1. \A k \in DOMAIN rest : old + Len(w.t.images) + k \in Int
    BY <1>1, <1>3, <1>5
  <2>2. \A k \in DOMAIN rest : Figure(old + Len(w.t.images) + k) \in CleanBlocks(Int)
    BY <2>1, CleanBlocksAre
  <2> DEFINE n == Len(rest)
             F(k) == Figure(old + Len(w.t.images) + k)
  <2>3. ends = [k \in 1 .. n |-> F(k)]
    BY <1>5 DEF Ends, rest
  <2>4. n \in Nat /\ \A k \in 1 .. n : F(k) \in CleanBlocks(Int)
    BY <1>5, <2>2
  <2> HIDE DEF ends, n, F
  <2> QED BY <2>3, <2>4
<1>12. NewFigures(m, d, w) \in Seq(Url)
  <2>1. urls \in Seq(Url)
    BY <1>4, <1>5
  <2> HIDE DEF urls
  <2>2. w.t.images \o urls \in Seq(Url)
    BY <1>2, <2>1, Joined
  <2> QED BY <2>2 DEF NewFigures, urls, rest
<1>13. mid \o ends \in Seq(CleanBlocks(Int))
  <2> HIDE DEF ends
  <2> QED BY <1>10, <1>11, Joined
<1>14. WithNew(m, d, w) \in Docs(CleanBlocks(Int))
  BY <1>1, <1>13 DEF WithNew, Docs, mid
<1>15. Takes(d, w.t.images) \in SUBSET DOMAIN d.figures
  BY DEF Takes
<1> QED BY <1>6, <1>7, <1>8, <1>10, <1>11, <1>12, <1>14, <1>15 DEF mid, Given

(* What the document twin does: no marker is left in the text, and every     *)
(* image of a marker it saw is among the figures.                            *)
LEMMA PlacedInDoc ==
  ASSUME NEW m \in Seq(Upload), NEW R \in SUBSET Int, NEW d \in Docs(InBlocks(R))
  PROVE  LET p == applyImagePlaceholdersDoc(d, m)
         IN  /\ p.doc \in Docs(CleanBlocks(Int))
             /\ HasBoundary(d) => HasBoundary(p.doc)
             /\ \A f \in p.seen : Match(m, f) # 0 => UrlOf(m, f) \in Range(p.doc.figures)
<1> DEFINE w == Walk(m, d.blocks)
           p == applyImagePlaceholdersDoc(d, m)
           e == WithNew(m, d, w)
           remove == Takes(d, w.t.images)
           new == NewFigures(m, d, w)
           r == reindexFigures(e, remove, new)
           S == Stays(e, remove)
           stays == Filtered(e.blocks, S)
           C == Cardinality(Left(e, remove))
<1>1. d.blocks \in Seq(InBlocks(R)) /\ d.figures \in Seq(Url)
  BY DocIs
<1>2. /\ Walked(m, R, w)
      /\ \A i \in DOMAIN d.blocks :
           d.blocks[i].kind \in {"figure", "boundary"} => d.blocks[i] \in Range(w.out)
  BY <1>1, WalkEnds
<1> HIDE DEF w
<1>0. Given(m, d, w)
  BY <1>2, GivenIs
<1>3. p = [doc |-> r, seen |-> w.t.seen]
  BY <1>0 DEF Given, applyImagePlaceholdersDoc, w
<1>4. /\ Middle(d, w) \in Seq(CleanBlocks(Int)) /\ DOMAIN Middle(d, w) = DOMAIN w.out
      /\ \A i \in DOMAIN w.out :
           Middle(d, w)[i] = IF w.out[i].kind = "placed" THEN Figure(Len(d.figures) + w.out[i].ref)
                             ELSE w.out[i]
      /\ Ends(m, d, w) \in Seq(CleanBlocks(Int)) /\ new \in Seq(Url)
      /\ e \in Docs(CleanBlocks(Int)) /\ remove \in SUBSET DOMAIN d.figures
  BY <1>0 DEF Given
<1>5. /\ e.blocks \in Seq(CleanBlocks(Int)) /\ e.figures \in Seq(Url) /\ e.figures = d.figures
      /\ e.blocks = Middle(d, w) \o Ends(m, d, w) /\ remove \in SUBSET DOMAIN e.figures
  <2>1. e.figures = d.figures /\ e.blocks = Middle(d, w) \o Ends(m, d, w)
    BY DEF WithNew
  <2> QED BY <1>4, <2>1, DocIs
<1> HIDE DEF p, e, remove, new
<1>6. /\ r = [blocks |-> r.blocks, figures |-> r.figures]
      /\ r.figures \in Seq(Url)
      /\ Range(r.figures) = {e.figures[i] : i \in Left(e, remove)} \union Range(new)
      /\ stays \in Seq(CleanBlocks(Int)) /\ S \in SUBSET DOMAIN e.blocks
      /\ r.blocks = [k \in DOMAIN stays |->
                       IF stays[k].kind = "figure" THEN Figure(Moved(e, remove, stays[k].ref))
                       ELSE stays[k]]
      /\ \A k \in DOMAIN stays : Nth(S, k) \in S /\ stays[k] = e.blocks[Nth(S, k)]
      /\ \A i \in S : \E k \in DOMAIN stays : Nth(S, k) = i
  <2>1. ReindexedTo(CleanBlocks(Int), e, remove, new)
    BY <1>4, <1>5, Reindexed
  <2> QED BY <2>1 DEF ReindexedTo
<1>7. C \in Nat /\ Len(Filtered(e.figures, Left(e, remove))) = C
  BY <1>5, LeftMoves
<1>8. \A ref \in Int : Moved(e, remove, ref) \in Int
  <2> SUFFICES ASSUME NEW ref \in Int PROVE Moved(e, remove, ref) \in Int
    OBVIOUS
  <2>1. Len(e.figures) \in Nat
    BY <1>5
  <2>2. Shifted(ref, remove) \in Int
    <3>1. IsFiniteSet(remove)
      <4>1. Len(e.figures) \in Nat /\ remove \in SUBSET (1 .. Len(e.figures))
        BY <1>5
      <4> QED BY <4>1, PlacesFinite
    <3>2. {x \in remove : x < ref} \in SUBSET remove
      OBVIOUS
    <3>3. Cardinality({x \in remove : x < ref}) \in Nat
      BY <3>1, <3>2, FS_Subset, FS_CardinalityType
    <3> QED BY <3>3 DEF Shifted
  <2> HIDE DEF C
  <2> QED BY <1>7, <2>1, <2>2 DEF Moved
<1> HIDE DEF r, C, stays, S
<1>9. r.blocks \in Seq(CleanBlocks(Int))
  <2>1. ASSUME NEW k \in DOMAIN stays PROVE r.blocks[k] \in CleanBlocks(Int)
    <3>1. stays[k] \in CleanBlocks(Int)
      BY <1>6
    <3>2. CASE stays[k].kind = "figure"
      <4>1. stays[k].ref \in Int
        BY <3>1, <3>2, CleanBlockIs
      <4>2. r.blocks[k] = Figure(Moved(e, remove, stays[k].ref))
        BY <1>6, <3>2
      <4> QED BY <1>8, <4>1, <4>2, CleanBlocksAre
    <3>3. CASE stays[k].kind # "figure"
      BY <1>6, <3>1, <3>3
    <3> QED BY <3>2, <3>3
  <2>2. Len(stays) \in Nat /\ DOMAIN stays = 1 .. Len(stays) /\ DOMAIN r.blocks = DOMAIN stays
    BY <1>6
  <2>3. r.blocks = [k \in 1 .. Len(stays) |-> r.blocks[k]]
    BY <1>6, <2>2
  <2> QED BY <2>1, <2>2, <2>3
<1>10. r \in Docs(CleanBlocks(Int))
  BY <1>6, <1>9 DEF Docs
<1>11. ASSUME HasBoundary(d) PROVE HasBoundary(r)
  <2>1. PICK i \in DOMAIN d.blocks : d.blocks[i] = Boundary
    BY <1>11 DEF HasBoundary
  <2>2. Boundary.kind = "boundary"
    BY DEF Boundary
  <2>3. PICK q \in DOMAIN w.out : w.out[q] = Boundary
    BY <1>2, <2>1, <2>2 DEF Range
  <2>4. Middle(d, w)[q] = Boundary /\ q \in DOMAIN Middle(d, w)
    BY <1>4, <2>2, <2>3
  <2>5. e.blocks[q] = Boundary /\ q \in DOMAIN e.blocks
    <3> DEFINE mid == Middle(d, w)
               ends == Ends(m, d, w)
    <3>1. mid \in Seq(CleanBlocks(Int)) /\ ends \in Seq(CleanBlocks(Int)) /\ e.blocks = mid \o ends
      BY <1>4, <1>5
    <3>2. mid[q] = Boundary /\ q \in DOMAIN mid
      BY <2>4
    <3> HIDE DEF mid, ends
    <3> QED BY <3>1, <3>2
  <2>6. q \in S
    BY <2>2, <2>5 DEF S, Stays
  <2>7. PICK k \in DOMAIN stays : Nth(S, k) = q
    BY <1>6, <2>6
  <2>8. r.blocks[k] = Boundary /\ k \in DOMAIN r.blocks
    BY <1>6, <2>2, <2>5, <2>7
  <2> QED BY <2>8 DEF HasBoundary
<1>12. ASSUME NEW f \in w.t.seen, Match(m, f) # 0 PROVE UrlOf(m, f) \in Range(r.figures)
  <2> DEFINE u == UrlOf(m, f)
             rest == Rest(d, m, w.t)
             urls == [k \in DOMAIN rest |-> UrlOf(m, rest[k])]
  <2>1. Tracked(m, w.t) /\ w.t.images \in Seq(Url)
    BY <1>2 DEF Walked, Tracked, Trackers
  <2>2. rest \in Seq(Marker) /\ \A k \in DOMAIN rest : UrlOf(m, rest[k]) \in Url
    BY <2>1, RestIs
  <2>3. urls \in Seq(Url)
    BY <2>2
  <2>4. Range(new) = Range(w.t.images) \union Range(urls)
    <3> HIDE DEF urls
    <3>1. Range(w.t.images \o urls) = Range(w.t.images) \union Range(urls)
      BY <2>1, <2>3, Joined
    <3> QED BY <3>1 DEF new, NewFigures, urls
  <2>5. CASE f \in w.t.placed
    BY <1>6, <2>1, <2>4, <2>5 DEF Tracked
  <2>6. CASE f \notin w.t.placed
    <3>1. f \in Range(Unplaced(w.t))
      BY <1>12, <2>1, <2>6, UnplacedAre DEF Tracked
    <3>2. CASE u \notin Range(d.figures)
      <4>1. f \in Range(rest)
        BY <2>1, <3>1, <3>2, RestIs
      <4>2. u \in Range(urls)
        BY <4>1 DEF Range
      <4> QED BY <1>6, <2>4, <4>2
    <3>3. CASE u \in Range(d.figures)
      <4>1. PICK i \in DOMAIN d.figures : d.figures[i] = u
        BY <3>3 DEF Range
      <4>2. CASE i \in remove
        <5>1. u \in Range(w.t.images)
          BY <4>1, <4>2 DEF remove, Takes
        <5> QED BY <1>6, <2>4, <5>1
      <4>3. CASE i \notin remove
        <5>1. i \in Left(e, remove) /\ e.figures[i] = u
          BY <1>5, <4>1, <4>3 DEF Left
        <5> QED BY <1>6, <5>1
      <4> QED BY <4>2, <4>3
    <3> QED BY <3>2, <3>3
  <2> QED BY <2>5, <2>6
<1>13. p.doc = r /\ p.seen = w.t.seen
  BY <1>3 DEF r
<1> QED BY <1>10, <1>11, <1>12, <1>13 DEF p

-----------------------------------------------------------------------------
(* Every figure used by exactly one block, told by the blocks.               *)
UsedOnce(d) ==
  /\ \A i \in Pictures(d.blocks) : d.blocks[i].ref \in DOMAIN d.figures
  /\ \A i, j \in Pictures(d.blocks) : d.blocks[i].ref = d.blocks[j].ref => i = j
  /\ \A n \in DOMAIN d.figures : \E i \in Pictures(d.blocks) : d.blocks[i].ref = n

LEMMA UsedOnceIs ==
  ASSUME NEW B, NEW d \in Docs(B)
  PROVE  EachUsedOnce(d) <=> UsedOnce(d)
<1> DEFINE P == Pictures(d.blocks)
           N == Len(d.figures)
           ref == [i \in P |-> d.blocks[i].ref]
<1>1. d.blocks \in Seq(B) /\ d.figures \in Seq(Url)
  BY DocIs
<1>2. N \in Nat /\ DOMAIN d.figures = 1 .. N /\ IsFiniteSet(1 .. N) /\ Cardinality(1 .. N) = N
  BY <1>1, FS_Interval
<1>3. IsFiniteSet(P) /\ Cardinality(P) \in Nat
  <2>1. Len(d.blocks) \in Nat /\ P \in SUBSET (1 .. Len(d.blocks))
    BY <1>1 DEF Pictures
  <2> HIDE DEF P
  <2> QED BY <2>1, PlacesFinite, FS_CardinalityType
<1> HIDE DEF P, N
<1>4. ASSUME EachUsedOnce(d) PROVE UsedOnce(d)
  <2>1. /\ \A i \in P : d.blocks[i].ref \in DOMAIN d.figures
        /\ \A n \in DOMAIN d.figures : \E i \in P : d.blocks[i].ref = n
        /\ Cardinality(P) = N
    BY <1>4 DEF EachUsedOnce, Images, P, N
  <2>2. ref \in Surjection(P, 1 .. N)
    BY <1>2, <2>1 DEF Surjection
  <2>3. ref \in Injection(P, 1 .. N)
    <3> HIDE DEF ref
    <3> QED BY <1>2, <1>3, <2>1, <2>2, FS_SurjSameCardinalityImpliesInj
  <2>4. \A i, j \in P : d.blocks[i].ref = d.blocks[j].ref => i = j
    BY <2>3 DEF Injection, IsInjective
  <2> QED BY <2>1, <2>4 DEF UsedOnce, P
<1>5. ASSUME UsedOnce(d) PROVE EachUsedOnce(d)
  <2>1. /\ \A i \in P : d.blocks[i].ref \in DOMAIN d.figures
        /\ \A i, j \in P : d.blocks[i].ref = d.blocks[j].ref => i = j
        /\ \A n \in DOMAIN d.figures : \E i \in P : d.blocks[i].ref = n
    BY <1>5 DEF UsedOnce, P
  <2>2. ref \in Bijection(P, 1 .. N)
    BY <1>2, <2>1 DEF Bijection, Injection, IsInjective, Surjection
  <2>3. Cardinality(P) = N
    <3> HIDE DEF ref
    <3> QED BY <1>2, <1>3, <2>2, FS_Bijection DEF ExistsBijection
  <2>4. Images(d.blocks) = DOMAIN d.figures
    BY <2>1 DEF Images, P
  <2> QED BY <2>3, <2>4 DEF EachUsedOnce, P, N
<1> QED BY <1>4, <1>5

(* Any block that a figure may be.                                           *)
FigureBlocks(B) ==
  /\ \A x \in Int : Figure(x) \in B
  /\ \A b \in B : b.kind = "figure" => b.ref \in Int

(* reindexFigures with nothing new keeps every figure that is left used once. *)
LEMMA StillUsedOnce ==
  ASSUME NEW B, FigureBlocks(B), NEW d \in Docs(B), UsedOnce(d),
         NEW remove \in SUBSET DOMAIN d.figures
  PROVE  LET r == reindexFigures(d, remove, << >>)
         IN  r \in Docs(B) /\ UsedOnce(r)
             /\ Range(r.figures) = {d.figures[i] : i \in Left(d, remove)}
<1> DEFINE r == reindexFigures(d, remove, << >>)
           K == Left(d, remove)
           C == Cardinality(K)
           S == Stays(d, remove)
           stays == Filtered(d.blocks, S)
<1>1. d.blocks \in Seq(B) /\ d.figures \in Seq(Url) /\ << >> \in Seq(Url)
  BY DocIs
<1>2. /\ r = [blocks |-> r.blocks, figures |-> r.figures]
      /\ r.figures \in Seq(Url) /\ Len(r.figures) = C + Len(<< >>)
      /\ Range(r.figures) = {d.figures[i] : i \in K} \union Range(<< >>)
      /\ stays \in Seq(B) /\ S \in SUBSET DOMAIN d.blocks
      /\ r.blocks = [k \in DOMAIN stays |->
                       IF stays[k].kind = "figure" THEN Figure(Moved(d, remove, stays[k].ref))
                       ELSE stays[k]]
      /\ DOMAIN stays = 1 .. Cardinality(S) /\ Cardinality(S) \in Nat
      /\ \A k \in DOMAIN stays : Nth(S, k) \in S /\ stays[k] = d.blocks[Nth(S, k)]
      /\ \A k, l \in DOMAIN stays : Nth(S, k) = Nth(S, l) => k = l
      /\ \A i \in S : \E k \in DOMAIN stays : Nth(S, k) = i
  <2>1. ReindexedTo(B, d, remove, << >>)
    BY <1>1, Reindexed
  <2> QED BY <2>1 DEF ReindexedTo
<1>3. /\ C \in Nat
      /\ \A i \in K : Shifted(i, remove) \in 1 .. C
      /\ \A i, j \in K : Shifted(i, remove) = Shifted(j, remove) => i = j
      /\ \A n \in 1 .. C : \E i \in K : Shifted(i, remove) = n
  BY <1>1, LeftMoves
<1>4. \A i \in DOMAIN d.figures : Moved(d, remove, i) = Shifted(i, remove)
  <2>1. \A i \in DOMAIN d.figures : ~(i > Len(d.figures))
    BY <1>1
  <2> QED BY <2>1 DEF Moved
<1>5. \A i \in S : d.blocks[i].kind = "figure" => d.blocks[i].ref \notin remove
  BY DEF Stays
<1>6. \A i \in DOMAIN d.blocks : d.blocks[i].ref \notin remove => i \in S
  BY DEF Stays
<1>7. \A i \in DOMAIN d.figures : i \notin remove => i \in K
  BY DEF Left
<1>8. \A i \in K : i \in DOMAIN d.figures /\ i \notin remove
  BY DEF Left
<1>9. /\ Range(r.figures) = {d.figures[i] : i \in K} /\ DOMAIN r.figures = 1 .. C
      /\ Len(r.figures) = C
  <2>1. Len(<< >>) = 0 /\ Range(<< >>) = {}
    BY DEF Range
  <2>2. Len(r.figures) = C
    BY <1>2, <1>3, <2>1
  <2>3. DOMAIN r.figures = 1 .. C
    BY <1>2, <2>2
  <2> QED BY <1>2, <2>1, <2>2, <2>3
<1> HIDE DEF r, K, C, S, stays
<1>10. DOMAIN r.blocks = DOMAIN stays
  BY <1>2
<1>11. ASSUME NEW k \in DOMAIN stays, stays[k].kind = "figure"
       PROVE  /\ Nth(S, k) \in Pictures(d.blocks) /\ d.blocks[Nth(S, k)].ref \in K
              /\ r.blocks[k] = Figure(Shifted(d.blocks[Nth(S, k)].ref, remove))
  <2>1. Nth(S, k) \in S /\ Nth(S, k) \in DOMAIN d.blocks /\ d.blocks[Nth(S, k)] = stays[k]
    BY <1>2, <1>11
  <2>2. Nth(S, k) \in Pictures(d.blocks)
    BY <1>11, <2>1 DEF Pictures
  <2>3. d.blocks[Nth(S, k)].ref \in DOMAIN d.figures
    BY <2>2 DEF UsedOnce
  <2> QED BY <1>2, <1>4, <1>5, <1>7, <1>11, <2>1, <2>2, <2>3
<1>12. \A x : Figure(x).kind = "figure" /\ Figure(x).ref = x
  BY DEF Figure
<1>13. Pictures(r.blocks) = {k \in DOMAIN stays : stays[k].kind = "figure"}
  <2>1. \A k \in DOMAIN stays : r.blocks[k].kind = "figure" <=> stays[k].kind = "figure"
    BY <1>2, <1>12
  <2> QED BY <1>10, <2>1 DEF Pictures
<1>14. r \in Docs(B)
  <2>1. ASSUME NEW k \in DOMAIN stays PROVE r.blocks[k] \in B
    <3>1. CASE stays[k].kind = "figure"
      <4>1. Shifted(d.blocks[Nth(S, k)].ref, remove) \in Int
        BY <1>3, <1>11, <3>1
      <4> QED BY <1>11, <3>1, <4>1 DEF FigureBlocks
    <3>2. CASE stays[k].kind # "figure"
      BY <1>2, <3>2
    <3> QED BY <3>1, <3>2
  <2>2. Len(stays) \in Nat /\ DOMAIN stays = 1 .. Len(stays)
    BY <1>2
  <2>3. r.blocks = [k \in 1 .. Len(stays) |-> r.blocks[k]]
    BY <1>2, <2>2
  <2>4. r.blocks \in Seq(B)
    BY <2>1, <2>2, <2>3
  <2> QED BY <1>2, <2>4 DEF Docs
<1>15. UsedOnce(r)
  <2>1. ASSUME NEW k \in Pictures(r.blocks) PROVE r.blocks[k].ref \in DOMAIN r.figures
    BY <1>3, <1>9, <1>11, <1>12, <1>13
  <2>2. ASSUME NEW k \in Pictures(r.blocks), NEW l \in Pictures(r.blocks),
               r.blocks[k].ref = r.blocks[l].ref
        PROVE  k = l
    <3>1. /\ k \in DOMAIN stays /\ l \in DOMAIN stays
          /\ Nth(S, k) \in Pictures(d.blocks) /\ Nth(S, l) \in Pictures(d.blocks)
          /\ d.blocks[Nth(S, k)].ref \in K /\ d.blocks[Nth(S, l)].ref \in K
          /\ r.blocks[k].ref = Shifted(d.blocks[Nth(S, k)].ref, remove)
          /\ r.blocks[l].ref = Shifted(d.blocks[Nth(S, l)].ref, remove)
      BY <1>11, <1>12, <1>13
    <3>2. d.blocks[Nth(S, k)].ref = d.blocks[Nth(S, l)].ref
      BY <1>3, <2>2, <3>1
    <3>3. Nth(S, k) = Nth(S, l)
      BY <3>1, <3>2 DEF UsedOnce
    <3> QED BY <1>2, <3>1, <3>3
  <2>3. ASSUME NEW n \in DOMAIN r.figures
        PROVE  \E k \in Pictures(r.blocks) : r.blocks[k].ref = n
    <3>1. PICK i \in K : Shifted(i, remove) = n
      BY <1>3, <1>9
    <3>2. PICK j \in Pictures(d.blocks) : d.blocks[j].ref = i
      BY <1>8 DEF UsedOnce
    <3>3. j \in S /\ d.blocks[j].kind = "figure"
      BY <1>6, <1>8, <3>2 DEF Pictures
    <3>4. PICK k \in DOMAIN stays : Nth(S, k) = j
      BY <1>2, <3>3
    <3>5. stays[k].kind = "figure"
      BY <1>2, <3>3, <3>4
    <3> QED BY <1>11, <1>12, <1>13, <3>1, <3>2, <3>4, <3>5
  <2> QED BY <2>1, <2>2, <2>3 DEF UsedOnce
<1> QED BY <1>9, <1>14, <1>15 DEF r, K

(* An image at the end is a figure, used once, and none is lost.             *)
LEMMA AppendedAtEnd ==
  ASSUME NEW B, FigureBlocks(B), NEW d \in Docs(B), EachUsedOnce(d), NEW u \in Url
  PROVE  LET e == appendFigureAtEndDoc(d, u)
         IN  /\ e \in Docs(B) /\ EachUsedOnce(e)
             /\ Range(e.figures) = Range(d.figures) \union {u}
<1> DEFINE remove == Takes(d, <<u>>)
           r == reindexFigures(d, remove, << >>)
           e == appendFigureAtEndDoc(d, u)
           N == Len(r.figures)
           M == Len(r.blocks)
           last == Figure(N + 1)
<1>1. /\ remove \in SUBSET DOMAIN d.figures
      /\ \A i \in DOMAIN d.figures : i \in remove <=> d.figures[i] = u
  <2>1. Range(<<u>>) = {u}
    BY DEF Range
  <2> QED BY <2>1 DEF Takes
<1>2. e = [blocks |-> Append(r.blocks, Figure(Len(r.figures) + 1)), figures |-> Append(r.figures, u)]
  BY DEF appendFigureAtEndDoc
<1>3. UsedOnce(d)
  BY UsedOnceIs
<1> HIDE DEF remove, r, e
<1>4. /\ r \in Docs(B) /\ UsedOnce(r)
      /\ Range(r.figures) = {d.figures[i] : i \in Left(d, remove)}
  BY <1>1, <1>3, StillUsedOnce DEF r
<1>5. r.blocks \in Seq(B) /\ r.figures \in Seq(Url)
  BY <1>4, DocIs
<1>6. N \in Nat /\ M \in Nat /\ DOMAIN r.figures = 1 .. N /\ DOMAIN r.blocks = 1 .. M
  BY <1>5
<1>7. last \in B /\ last.kind = "figure" /\ last.ref = N + 1
  BY <1>6 DEF FigureBlocks, Figure
<1>8. e.blocks = Append(r.blocks, last) /\ e.figures = Append(r.figures, u)
      /\ e = [blocks |-> e.blocks, figures |-> e.figures]
  BY <1>2
<1> HIDE DEF last
<1>9. /\ e.blocks \in Seq(B) /\ DOMAIN e.blocks = 1 .. M + 1
      /\ \A i \in DOMAIN r.blocks : e.blocks[i] = r.blocks[i]
      /\ e.blocks[M + 1] = last
  BY <1>5, <1>7, <1>8, Longer
<1>10. /\ e.figures \in Seq(Url) /\ DOMAIN e.figures = 1 .. N + 1
       /\ Range(e.figures) = Range(r.figures) \union {u}
  BY <1>5, <1>8, Longer
<1> HIDE DEF N, M
<1>11. e \in Docs(B)
  BY <1>8, <1>9, <1>10 DEF Docs
<1>12. Range(e.figures) = Range(d.figures) \union {u}
  <2>1. \A x \in Range(d.figures) : x = u \/ x \in Range(r.figures)
    BY <1>1, <1>4 DEF Range, Left
  <2>2. \A x \in Range(r.figures) : x \in Range(d.figures)
    BY <1>4 DEF Range, Left
  <2> QED BY <1>10, <2>1, <2>2
<1>13. UsedOnce(e)
  <2>1. \A i \in DOMAIN e.blocks : i \in DOMAIN r.blocks \/ i = M + 1
    BY <1>6, <1>9
  <2>2. \A n \in DOMAIN e.figures : n \in DOMAIN r.figures \/ n = N + 1
    BY <1>6, <1>10
  <2>3. /\ \A i \in DOMAIN r.blocks : i \in DOMAIN e.blocks
        /\ M + 1 \in DOMAIN e.blocks
        /\ \A n \in DOMAIN r.figures : n \in DOMAIN e.figures
        /\ N + 1 \in DOMAIN e.figures /\ N + 1 \notin DOMAIN r.figures
    BY <1>6, <1>9, <1>10
  <2>4. Pictures(e.blocks) = Pictures(r.blocks) \union {M + 1}
    BY <1>7, <1>9, <2>1, <2>3 DEF Pictures
  <2>5. \A i \in Pictures(r.blocks) : e.blocks[i].ref = r.blocks[i].ref
    BY <1>9 DEF Pictures
  <2>6. e.blocks[M + 1].ref = N + 1
    BY <1>7, <1>9
  <2>7. \A i \in Pictures(e.blocks) : e.blocks[i].ref \in DOMAIN e.figures
    BY <1>4, <2>3, <2>4, <2>5, <2>6 DEF UsedOnce
  <2>8. \A i, j \in Pictures(e.blocks) : e.blocks[i].ref = e.blocks[j].ref => i = j
    BY <1>4, <2>3, <2>4, <2>5, <2>6 DEF UsedOnce
  <2>9. \A n \in DOMAIN e.figures : \E i \in Pictures(e.blocks) : e.blocks[i].ref = n
    BY <1>4, <2>2, <2>4, <2>5, <2>6 DEF UsedOnce
  <2> QED BY <2>7, <2>8, <2>9 DEF UsedOnce
<1> QED BY <1>11, <1>12, <1>13, UsedOnceIs DEF e

(* The last resort, for all that the model lost.                             *)
LEMMA AllAppended ==
  ASSUME NEW m, NEW B, FigureBlocks(B), NEW d \in Docs(B), EachUsedOnce(d),
         NEW files, NEW N \in Nat, DOMAIN files = 1 .. N,
         \A n \in 1 .. N : UrlOf(m, files[n]) \in Url
  PROVE  LET e == AppendedBy(m, d, files)
         IN  /\ e \in Docs(B) /\ EachUsedOnce(e)
             /\ \A x \in Range(d.figures) : x \in Range(e.figures)
             /\ \A n \in 1 .. N : UrlOf(m, files[n]) \in Range(e.figures)
<1>1. PICK r : AppendSteps(r, N, files, m, d)
  BY AppendRun
<1> DEFINE Right(n) == /\ r[n] \in Docs(B) /\ EachUsedOnce(r[n])
                       /\ \A x \in Range(d.figures) : x \in Range(r[n].figures)
                       /\ \A k \in 1 .. n : UrlOf(m, files[k]) \in Range(r[n].figures)
           S == {n \in 0 .. N : Right(n)}
<1>2. 0 \in S
  <2>1. r[0] = d /\ \A k \in 1 .. 0 : FALSE
    BY <1>1 DEF AppendSteps
  <2>2. Right(0)
    BY <2>1
  <2> HIDE DEF Right
  <2> QED BY <2>2
<1>3. ASSUME NEW n \in 1 .. N, n - 1 \in S PROVE n \in S
  <2> DEFINE before == r[n - 1]
             after == r[n]
             u == UrlOf(m, files[n])
  <2>1. Right(n - 1)
    BY <1>3
  <2>2. /\ before \in Docs(B) /\ EachUsedOnce(before) /\ u \in Url
        /\ after = appendFigureAtEndDoc(before, u)
        /\ \A x \in Range(d.figures) : x \in Range(before.figures)
        /\ \A k \in 1 .. n - 1 : UrlOf(m, files[k]) \in Range(before.figures)
    BY <1>1, <2>1 DEF AppendSteps
  <2> HIDE DEF before, after, u, S, Right
  <2>3. /\ after \in Docs(B) /\ EachUsedOnce(after)
        /\ Range(after.figures) = Range(before.figures) \union {u}
    BY <2>2, AppendedAtEnd
  <2>4. \A k \in 1 .. n : k \in 1 .. n - 1 \/ k = n
    OBVIOUS
  <2>5. \A k \in 1 .. n : UrlOf(m, files[k]) \in Range(after.figures)
    BY <2>2, <2>3, <2>4 DEF u
  <2>6. Right(n)
    BY <2>2, <2>3, <2>5 DEF Right, after
  <2> QED BY <2>6 DEF S
<1>4. Right(N)
  <2> HIDE DEF S, Right
  <2>1. \A n \in 0 .. N : n \in S
    BY <1>2, <1>3, InductionUpTo
  <2>2. N \in S
    BY <2>1
  <2> QED BY <2>2 DEF S
<1>5. AppendedBy(m, d, files) = r[N]
  BY <1>1 DEF AppendSteps
<1> HIDE DEF S
<1> QED BY <1>4, <1>5

-----------------------------------------------------------------------------
(* Repairs of fields.                                                        *)
LEMMA InsertedAt ==
  ASSUME NEW B, NEW s \in Seq(B), NEW b \in B, NEW at \in 1 .. Len(s) + 1
  PROVE  InsertAt(s, at, b) \in Seq(B) /\ \A x \in Range(s) : x \in Range(InsertAt(s, at, b))
<1> DEFINE front == SubSeq(s, 1, at - 1)
           back == SubSeq(s, at, Len(s))
           mid == front \o <<b>>
<1>1. /\ Len(s) \in Nat /\ DOMAIN s = 1 .. Len(s)
      /\ front \in Seq(B) /\ Len(front) = at - 1 /\ \A i \in 1 .. at - 1 : front[i] = s[i]
  OBVIOUS
<1>2. /\ back \in Seq(B) /\ Len(back) = Len(s) - at + 1
      /\ \A i \in 1 .. Len(s) - at + 1 : back[i] = s[at + i - 1]
  OBVIOUS
<1>3. <<b>> \in Seq(B)
  OBVIOUS
<1> HIDE DEF front, back
<1>4. mid \in Seq(B) /\ Range(mid) = Range(front) \union Range(<<b>>)
  <2> DEFINE e == <<b>>
  <2>1. front \in Seq(B) /\ e \in Seq(B)
    BY <1>1, <1>3
  <2> HIDE DEF e
  <2>2. front \o e \in Seq(B) /\ Range(front \o e) = Range(front) \union Range(e)
    BY ONLY <2>1, Joined
  <2> QED BY <2>2 DEF e
<1> HIDE DEF mid
<1>5. mid \o back \in Seq(B) /\ Range(mid \o back) = Range(mid) \union Range(back)
  BY <1>2, <1>4, Joined
<1>6. InsertAt(s, at, b) = mid \o back
  BY DEF InsertAt, mid, front, back
<1>7. ASSUME NEW i \in DOMAIN s PROVE s[i] \in Range(front) \union Range(back)
  <2>1. CASE i < at
    <3>1. i \in DOMAIN front /\ front[i] = s[i]
      BY <1>1, <2>1
    <3> QED BY <3>1 DEF Range
  <2>2. CASE ~(i < at)
    <3> DEFINE j == i - at + 1
    <3>1. j \in 1 .. Len(s) - at + 1 /\ at + j - 1 = i
      BY <1>1, <2>2
    <3>2. DOMAIN back = 1 .. Len(s) - at + 1
      BY <1>1, <1>2
    <3> HIDE DEF j
    <3>3. j \in DOMAIN back /\ back[j] = s[i]
      BY <1>2, <3>1, <3>2
    <3> QED BY <3>3 DEF Range
  <2> QED BY <2>1, <2>2
<1>8. \A x \in Range(s) : x \in Range(mid \o back)
  BY <1>4, <1>5, <1>7 DEF Range
<1> QED BY <1>5, <1>6, <1>8

(* A text is put where the schema misses one, and nothing goes.              *)
LEMMA TextPut ==
  ASSUME NEW B, Paragraph(<<"text">>) \in B, NEW s \in Seq(B), NEW at \in 1 .. Len(s) + 1
  PROVE  WithText(s, at) \in Seq(B) /\ \A x \in Range(s) : x \in Range(WithText(s, at))
BY InsertedAt DEF WithText

LEMMA CtaPlace ==
  ASSUME NEW B, NEW s \in Seq(B), NEW k \in DOMAIN s, s[k] = Boundary
  PROVE  Cta(s) \in 1 .. Len(s) + 1
<1> DEFINE boundaries == {i \in DOMAIN s : s[i] = Boundary}
<1>1. Len(s) \in Nat /\ boundaries \in SUBSET (1 .. Len(s)) /\ boundaries # {}
  OBVIOUS
<1>2. Cta(s) = 1 + CHOOSE i \in boundaries : \A j \in boundaries : j <= i
  BY DEF Cta
<1> HIDE DEF boundaries
<1>3. \E i \in boundaries : \A j \in boundaries : j <= i
  BY <1>1, PlacesHaveLast
<1> DEFINE last == CHOOSE i \in boundaries : \A j \in boundaries : j <= i
<1>4. last \in boundaries
  BY <1>3
<1>5. Cta(s) = 1 + last
  BY <1>2
<1> HIDE DEF last
<1>6. last \in 1 .. Len(s)
  BY <1>1, <1>4
<1> QED BY <1>1, <1>5, <1>6

LEMMA FieldRepaired ==
  ASSUME NEW B, Paragraph(<<"text">>) \in B, NEW d \in Docs(B), HasBoundary(d)
  PROVE  LET e == [d EXCEPT !.blocks = WithText(WithText(@, Cta(@)), 1)]
         IN  e \in Docs(B) /\ HasBoundary(e) /\ e.figures = d.figures
<1> DEFINE once == WithText(d.blocks, Cta(d.blocks))
           twice == WithText(once, 1)
           e == [d EXCEPT !.blocks = WithText(WithText(@, Cta(@)), 1)]
<1>1. d = [blocks |-> d.blocks, figures |-> d.figures] /\ d.blocks \in Seq(B) /\ d.figures \in Seq(Url)
  BY DocIs
<1>2. PICK k \in DOMAIN d.blocks : d.blocks[k] = Boundary
  BY DEF HasBoundary
<1>3. once \in Seq(B) /\ \A x \in Range(d.blocks) : x \in Range(once)
  <2>1. Cta(d.blocks) \in 1 .. Len(d.blocks) + 1
    BY <1>1, <1>2, CtaPlace
  <2> QED BY <1>1, <2>1, TextPut
<1> HIDE DEF once
<1>4. twice \in Seq(B) /\ \A x \in Range(once) : x \in Range(twice)
  <2>1. 1 \in 1 .. Len(once) + 1
    BY <1>3
  <2> QED BY <1>3, <2>1, TextPut
<1>5. e = [d EXCEPT !.blocks = twice]
  BY DEF once
<1> HIDE DEF twice, e
<1>6. e = [blocks |-> twice, figures |-> d.figures]
  BY ONLY <1>1, <1>5
<1>7. e.blocks = twice /\ e.figures = d.figures
  BY <1>6
<1>8. e \in Docs(B)
  BY <1>1, <1>4, <1>6 DEF Docs
<1>9. HasBoundary(e)
  <2>1. Boundary \in Range(d.blocks)
    BY <1>2 DEF Range
  <2>2. Boundary \in Range(twice)
    BY <1>3, <1>4, <2>1
  <2> QED BY <1>7, <2>2 DEF Range, HasBoundary
<1> QED BY <1>7, <1>8, <1>9 DEF e

-----------------------------------------------------------------------------
(* What a model writes.                                                      *)
WellWritten(d) ==
  /\ d \in Docs(InBlocks(DOMAIN d.figures)) /\ HasBoundary(d)
  /\ \A n \in DOMAIN d.figures : \E i \in Pictures(d.blocks) : d.blocks[i].ref = n

LEMMA BlocksIn == Blocks \union {Boundary} \subseteq InBlocks({0})
<1>1. \A b \in Blocks : b \in InBlocks({0})
  <2>1. Paragraphs \subseteq Seq(Pieces) /\ Carriers \subseteq Seq(Pieces)
    BY MarkerAssumption DEF Pieces
  <2> QED BY <2>1 DEF Blocks, Paragraph, Carrier, Figure, InBlocks
<1> QED BY <1>1 DEF InBlocks

LEMMA NumberedWell ==
  ASSUME NEW x \in Seq(InBlocks({0})), NEW at \in DOMAIN x, x[at] = Boundary,
         NEW images \in [1 .. Cardinality(Pictures(Numbered(x))) -> Url]
  PROVE  WellWritten([blocks |-> Numbered(x), figures |-> images])
<1> DEFINE P == Pictures(x)
           y == Numbered(x)
           C == Cardinality(P)
           d == [blocks |-> y, figures |-> images]
<1>1. Len(x) \in Nat /\ DOMAIN x = 1 .. Len(x) /\ P \in SUBSET DOMAIN x
  BY DEF Pictures
<1>2. y = [i \in DOMAIN x |-> IF i \in P THEN Figure(Rank(P, i)) ELSE x[i]]
  BY DEF Numbered, Rank, Upto
<1>3. \A i \in DOMAIN x : i \in P <=> x[i].kind = "figure"
  BY DEF Pictures
<1>4. \A z : Figure(z).kind = "figure" /\ Figure(z).ref = z
  BY DEF Figure
<1> HIDE DEF P, y
<1>5. P \in SUBSET Nat /\ IsFiniteSet(P)
  BY <1>1, PlacesFinite
<1>6. C \in Nat /\ \A n \in 1 .. C : Nth(P, n) \in P /\ Rank(P, Nth(P, n)) = n
  BY <1>5, NthPlace
<1>7. \A i \in P : Rank(P, i) \in 1 .. C
  BY <1>5, RankOnce
<1>8. Pictures(y) = P
  <2>1. \A i \in DOMAIN x : y[i].kind = "figure" <=> i \in P
    BY <1>2, <1>3, <1>4
  <2>2. DOMAIN y = DOMAIN x
    BY <1>2
  <2> QED BY <1>1, <2>1, <2>2 DEF Pictures
<1>9. images \in [1 .. C -> Url] /\ DOMAIN images = 1 .. C /\ images \in Seq(Url)
  <2>1. images \in [1 .. C -> Url]
    BY <1>8 DEF y
  <2> HIDE DEF C
  <2> QED BY <1>6, <2>1
<1> HIDE DEF C
<1>10. y \in Seq(InBlocks(1 .. C))
  <2>1. ASSUME NEW i \in DOMAIN x PROVE y[i] \in InBlocks(1 .. C)
    <3>1. CASE i \in P
      <4>1. y[i] = Figure(Rank(P, i)) /\ Rank(P, i) \in 1 .. C
        BY <1>2, <1>7, <3>1
      <4> QED BY <4>1 DEF Figure, InBlocks
    <3>2. CASE i \notin P
      <4>1. y[i] = x[i] /\ x[i] \in InBlocks({0}) /\ x[i].kind # "figure"
        BY <1>1, <1>2, <1>3, <3>2
      <4>2. x[i] \in [kind : {"figure"}, ref : {0}] => x[i].kind = "figure"
        OBVIOUS
      <4> QED BY <4>1, <4>2 DEF InBlocks
    <3> QED BY <3>1, <3>2
  <2>2. y = [i \in 1 .. Len(x) |-> y[i]]
    BY <1>1, <1>2
  <2> QED BY <1>1, <2>1, <2>2
<1>11. d.blocks = y /\ d.figures = images
  OBVIOUS
<1>12. d \in Docs(InBlocks(DOMAIN d.figures))
  BY <1>9, <1>10, <1>11 DEF Docs
<1>13. HasBoundary(d)
  <2>1. Boundary.kind # "figure"
    BY DEF Boundary
  <2>2. at \in DOMAIN y /\ y[at] = Boundary
    BY <1>2, <1>3, <2>1
  <2> QED BY <2>2 DEF HasBoundary
<1>14. ASSUME NEW n \in DOMAIN d.figures PROVE \E i \in Pictures(d.blocks) : d.blocks[i].ref = n
  <2>1. Nth(P, n) \in P /\ Rank(P, Nth(P, n)) = n
    BY <1>6, <1>9
  <2>2. y[Nth(P, n)].ref = n
    BY <1>1, <1>2, <1>4, <2>1
  <2> QED BY <1>8, <2>1, <2>2
<1> HIDE DEF d
<1>15. WellWritten(d)
  BY <1>12, <1>13, <1>14 DEF WellWritten
<1> QED BY <1>15 DEF d, y

-----------------------------------------------------------------------------
(* The invariant of the marker step, but for the twins.                      *)
Stepped(m, d, seen) ==
  /\ d \in Docs(CleanBlocks(Int))
  /\ \A f \in seen : Match(m, f) # 0 => UrlOf(m, f) \in Range(d.figures)

MarkerInv ==
  /\ uploads \in Manifest /\ typed \in SUBSET Marker
  /\ marking # "writing" => WellWritten(written)
  /\ marking = "written" =>
       /\ doc \in Docs(InBlocks(Int)) /\ HasBoundary(doc)
       /\ report # NoReport => Stepped(uploads, doc, report)
  /\ EveryImageShown

LEMMA CleanIsIn == \A R : CleanBlocks(R) \subseteq InBlocks(R)
<1>1. Seq(Words) \subseteq Seq(Pieces)
  <2>1. Words \subseteq Pieces
    BY DEF Pieces
  <2> HIDE DEF Words, Pieces
  <2> QED BY <2>1
<1> HIDE DEF Words, Pieces
<1> QED BY <1>1 DEF CleanBlocks, InBlocks

LEMMA DocsGrow ==
  ASSUME NEW A, NEW B, A \subseteq B
  PROVE  Docs(A) \subseteq Docs(B)
BY DEF Docs

LEMMA InBlocksGrow ==
  ASSUME NEW Q, NEW R, Q \subseteq R
  PROVE  InBlocks(Q) \subseteq InBlocks(R)
BY DEF InBlocks

LEMMA ManifestIs == Manifest \subseteq Seq(Upload)
BY MarkerAssumption DEF Upload

LEMMA FigureBlocksAre == FigureBlocks(InBlocks(Int)) /\ FigureBlocks(CleanBlocks(Int))
<1>1. \A x \in Int : Figure(x) \in InBlocks(Int) /\ Figure(x) \in CleanBlocks(Int)
  BY DEF Figure, InBlocks, CleanBlocks
<1>2. \A b \in InBlocks(Int) : b.kind = "figure" => b.ref \in Int
  BY InBlockIs
<1>3. \A b \in CleanBlocks(Int) : b.kind = "figure" => b.ref \in Int
  BY CleanBlockIs
<1> QED BY <1>1, <1>2, <1>3 DEF FigureBlocks

LEMMA MarkerInitInv == MarkerInit => MarkerInv
BY DEF MarkerInit, MarkerInv, EveryImageShown

LEMMA ProduceInv == MarkerInv /\ Produce => MarkerInv'
<1> SUFFICES ASSUME MarkerInv, Produce PROVE MarkerInv'
  OBVIOUS
<1>1. /\ uploads \in Manifest /\ typed \in SUBSET Marker /\ marking' = "written"
      /\ uploads' = uploads /\ typed' = typed /\ uploads \in Seq(Upload)
  BY ManifestIs DEF MarkerInv, Produce
<1>2. PICK first \in BoundedSeq(Blocks, MaxBlocks), last \in BoundedSeq(Blocks, 1) :
        \E blocks \in {Numbered(first \o <<Boundary>> \o last)} :
          \E images \in [1 .. Cardinality(Pictures(blocks)) -> Url] :
            \E d \in {[blocks |-> blocks, figures |-> images]} :
              /\ written' = d
              /\ IF SchemaValid(d)
                 THEN \E placed \in {applyImagePlaceholdersDoc(d, uploads)} :
                        doc' = placed.doc /\ report' = placed.seen
                 ELSE doc' = d /\ report' = NoReport
  BY DEF Produce
<1> DEFINE x == first \o <<Boundary>> \o last
           at == Len(first) + 1
<1>3. x \in Seq(InBlocks({0})) /\ at \in DOMAIN x /\ x[at] = Boundary
  <2>1. first \in Seq(InBlocks({0})) /\ last \in Seq(InBlocks({0}))
    <3>1. \A n \in Nat : BoundedSeq(Blocks, n) \subseteq Seq(InBlocks({0}))
      <4>1. Blocks \subseteq InBlocks({0})
        BY BlocksIn
      <4> HIDE DEF Blocks, InBlocks
      <4> QED BY <4>1 DEF BoundedSeq, SeqOf
    <3> QED BY <3>1, MarkerAssumption
  <2>2. <<Boundary>> \in Seq(InBlocks({0}))
    BY DEF InBlocks
  <2> DEFINE B == InBlocks({0})
             b == Boundary
             s == first
             t == last
  <2>3. s \in Seq(B) /\ t \in Seq(B) /\ <<b>> \in Seq(B)
    BY <2>1, <2>2
  <2> HIDE DEF B, b, s, t
  <2>4. s \o <<b>> \o t \in Seq(B) /\ Len(s) + 1 \in DOMAIN (s \o <<b>> \o t)
        /\ (s \o <<b>> \o t)[Len(s) + 1] = b
    BY <2>3
  <2> QED BY <2>4 DEF s, t, b, B
<1> HIDE DEF at
<1>4. PICK images \in [1 .. Cardinality(Pictures(Numbered(x))) -> Url] :
        LET d == [blocks |-> Numbered(x), figures |-> images]
        IN  /\ written' = d
            /\ IF SchemaValid(d)
               THEN \E placed \in {applyImagePlaceholdersDoc(d, uploads)} :
                      doc' = placed.doc /\ report' = placed.seen
               ELSE doc' = d /\ report' = NoReport
  BY <1>2
<1> HIDE DEF x
<1> DEFINE d == [blocks |-> Numbered(x), figures |-> images]
<1>8. WellWritten(d)
  BY <1>3, NumberedWell
<1>9. /\ written' = d
      /\ IF SchemaValid(d)
         THEN \E placed \in {applyImagePlaceholdersDoc(d, uploads)} :
                doc' = placed.doc /\ report' = placed.seen
         ELSE doc' = d /\ report' = NoReport
  BY <1>4
<1> HIDE DEF d
<1>5. d \in Docs(InBlocks(DOMAIN d.figures)) /\ HasBoundary(d) /\ DOMAIN d.figures \in SUBSET Int
  <2>1. d \in Docs(InBlocks(DOMAIN d.figures)) /\ HasBoundary(d)
    BY <1>8 DEF WellWritten
  <2>2. d.figures \in Seq(Url)
    BY <2>1, DocIs
  <2> QED BY <2>1, <2>2
<1>6. CASE SchemaValid(d)
  <2> DEFINE p == applyImagePlaceholdersDoc(d, uploads)
  <2>1. doc' = p.doc /\ report' = p.seen
    BY <1>6, <1>9
  <2>2. /\ p.doc \in Docs(CleanBlocks(Int))
        /\ HasBoundary(d) => HasBoundary(p.doc)
        /\ \A f \in p.seen : Match(uploads, f) # 0 => UrlOf(uploads, f) \in Range(p.doc.figures)
    BY <1>1, <1>5, PlacedInDoc
  <2> HIDE DEF p
  <2>3. doc' \in Docs(InBlocks(Int))
    BY <2>1, <2>2, CleanIsIn, DocsGrow
  <2>4. HasBoundary(doc)'
    BY <1>5, <2>1, <2>2 DEF HasBoundary
  <2>5. Stepped(uploads, doc, report)'
    <3>1. \A f \in report' : Match(uploads', f) # 0 => UrlOf(uploads', f) \in Range(doc'.figures)
      BY <1>1, <2>1, <2>2
    <3>2. doc' \in Docs(CleanBlocks(Int))
      BY <2>1, <2>2
    <3> QED BY <3>1, <3>2 DEF Stepped
  <2>6. WellWritten(written)'
    BY <1>8, <1>9 DEF WellWritten, HasBoundary
  <2> QED BY <1>1, <2>3, <2>4, <2>5, <2>6 DEF MarkerInv, EveryImageShown
<1>7. CASE ~SchemaValid(d)
  <2>1. doc' = d /\ report' = NoReport /\ written' = d
    BY <1>7, <1>9
  <2>2. doc' \in Docs(InBlocks(Int))
    BY <1>5, <2>1, InBlocksGrow, DocsGrow
  <2>3. HasBoundary(doc)'
    BY <1>5, <2>1 DEF HasBoundary
  <2>4. WellWritten(written)'
    BY <1>8, <2>1 DEF WellWritten, HasBoundary
  <2> QED BY <1>1, <2>1, <2>2, <2>3, <2>4 DEF MarkerInv, EveryImageShown
<1> QED BY <1>6, <1>7

LEMMA RepairFieldInv == MarkerInv /\ RepairField => MarkerInv'
<1> SUFFICES ASSUME MarkerInv, RepairField PROVE MarkerInv'
  OBVIOUS
<1> DEFINE e == [doc EXCEPT !.blocks = WithText(WithText(@, Cta(@)), 1)]
<1>1. /\ marking = "written" /\ doc' = e
      /\ marking' = marking /\ uploads' = uploads /\ typed' = typed /\ report' = report
      /\ written' = written
  BY DEF RepairField
<1>2. /\ doc \in Docs(InBlocks(Int)) /\ HasBoundary(doc)
      /\ report # NoReport => Stepped(uploads, doc, report)
  BY <1>1 DEF MarkerInv
<1> HIDE DEF e
<1>3. Paragraph(<<"text">>) \in InBlocks(Int) /\ Paragraph(<<"text">>) \in CleanBlocks(Int)
  <2>1. "text" \in Words /\ "text" \in Pieces
    BY DEF Words, Pieces
  <2>2. <<"text">> \in Seq(Words) /\ <<"text">> \in Seq(Pieces)
    BY <2>1
  <2> QED BY <2>2 DEF Paragraph, InBlocks, CleanBlocks
<1>4. e \in Docs(InBlocks(Int)) /\ HasBoundary(e) /\ e.figures = doc.figures
  BY <1>2, <1>3, FieldRepaired DEF e
<1>5. ASSUME report # NoReport PROVE Stepped(uploads, e, report)
  <2>1. doc \in Docs(CleanBlocks(Int))
    BY <1>2, <1>5 DEF Stepped
  <2>2. e \in Docs(CleanBlocks(Int))
    BY <1>2, <1>3, <2>1, FieldRepaired DEF e
  <2> QED BY <1>2, <1>4, <1>5, <2>2 DEF Stepped
<1>6. (report # NoReport => Stepped(uploads, doc, report))'
  BY <1>1, <1>5 DEF Stepped, Match, UrlOf
<1>7. HasBoundary(doc)' /\ doc' \in Docs(InBlocks(Int))
  BY <1>1, <1>4 DEF HasBoundary
<1>8. (marking # "writing" => WellWritten(written))'
  BY <1>1 DEF MarkerInv, WellWritten, HasBoundary
<1> QED BY <1>1, <1>6, <1>7, <1>8 DEF MarkerInv, EveryImageShown

(* Once or more is once, or found out.                                       *)
LEMMA CountOf ==
  ASSUME NEW urls \in Seq(Url), NEW u \in Range(urls)
  PROVE  Count(urls, u) = 1 \/ Count(urls, u) > 1
<1> DEFINE places == {i \in DOMAIN urls : urls[i] = u}
<1>1. Len(urls) \in Nat /\ places \in SUBSET (1 .. Len(urls)) /\ places # {}
  BY DEF Range
<1> HIDE DEF places
<1>2. IsFiniteSet(places) /\ Cardinality(places) \in Nat /\ Cardinality(places) # 0
  BY <1>1, PlacesFinite, FS_CardinalityType, FS_EmptySet
<1>3. Count(urls, u) = Cardinality(places)
  BY DEF Count, places
<1> QED BY <1>2, <1>3

LEMMA FinalizeInv == MarkerInv /\ Finalize => MarkerInv'
<1> SUFFICES ASSUME MarkerInv, Finalize PROVE MarkerInv'
  OBVIOUS
<1>1. /\ uploads \in Manifest /\ typed \in SUBSET Marker /\ marking = "written"
      /\ uploads' = uploads /\ typed' = typed /\ uploads \in Seq(Upload)
      /\ report' = report /\ written' = written /\ WellWritten(written)
      /\ doc \in Docs(InBlocks(Int))
      /\ report # NoReport => Stepped(uploads, doc, report)
  BY ManifestIs DEF MarkerInv, Finalize
<1>2. WellWritten(written)'
  BY <1>1 DEF WellWritten, HasBoundary
<1>3. CASE ~SchemaValid(doc)
  <2>1. marking' = "failed"
    BY <1>3 DEF Finalize
  <2> QED BY <1>1, <1>2, <2>1 DEF MarkerInv, EveryImageShown
<1>4. CASE SchemaValid(doc)
  <2>1. PICK files \in Orders(Dropped) :
          /\ marking' = "shipped" /\ doc' = AppendedBy(uploads, doc, files)
          /\ coverage' = Coverage(doc'.figures, uploads)
    BY <1>4 DEF Finalize, AppendedBy
  <2> DEFINE N == Cardinality(Dropped)
             e == AppendedBy(uploads, doc, files)
  <2>2. Dropped \subseteq Marker /\ \A f \in Dropped : Match(uploads, f) # 0
    BY <1>1 DEF Dropped, Expected
  <2>3. N \in Nat
    <3>1. IsFiniteSet(Dropped)
      BY <2>2, MarkerAssumption, FS_Subset
    <3> HIDE DEF Dropped
    <3> QED BY <3>1, FS_CardinalityType
  <2>4. DOMAIN files = 1 .. N /\ (\A n \in 1 .. N : files[n] \in Dropped) /\ Range(files) = Dropped
    BY DEF Orders
  <2>5. \A n \in 1 .. N : UrlOf(uploads, files[n]) \in Url
    BY <1>1, <2>2, <2>4, MatchIs
  <2>6. EachUsedOnce(doc)
    BY <1>4 DEF SchemaValid
  <2> HIDE DEF N, e
  <2>7. /\ e \in Docs(InBlocks(Int)) /\ EachUsedOnce(e)
        /\ \A x \in Range(doc.figures) : x \in Range(e.figures)
        /\ \A n \in 1 .. N : UrlOf(uploads, files[n]) \in Range(e.figures)
    BY <1>1, <2>3, <2>4, <2>5, <2>6, FigureBlocksAre, AllAppended DEF e
  <2>8. e.figures \in Seq(Url)
    BY <2>7, DocIs
  <2>9. ASSUME report # NoReport, NEW f \in Expected(uploads, typed)
        PROVE  LET u == UrlOf(uploads, f)
               IN  \/ Count(e.figures, u) = 1
                   \/ Count(e.figures, u) > 1 /\ <<"duplicate", u>> \in coverage'
    <3> DEFINE u == UrlOf(uploads, f)
    <3>1. f \in Marker /\ Match(uploads, f) # 0
      BY <1>1 DEF Expected
    <3>2. u \in Range(e.figures)
      <4>1. CASE f \in report
        BY <1>1, <2>7, <2>9, <3>1, <4>1 DEF Stepped
      <4>2. CASE f \notin report
        <5>1. f \in Dropped
          BY <2>9, <4>2 DEF Dropped
        <5>2. PICK n \in 1 .. N : files[n] = f
          BY <2>4, <5>1 DEF Range
        <5> QED BY <2>7, <5>2
      <4> QED BY <4>1, <4>2
    <3>3. Match(uploads, f) \in DOMAIN uploads /\ uploads # << >>
      <4>1. Match(uploads, f) \in DOMAIN uploads
        BY <1>1, <3>1, MatchIs
      <4> QED BY <1>1, <4>1
    <3>4. u \in {uploads[i].url : i \in DOMAIN uploads}
      BY <3>3 DEF UrlOf
    <3> HIDE DEF u
    <3>5. Count(e.figures, u) = 1 \/ Count(e.figures, u) > 1
      BY <2>8, <3>2, CountOf
    <3>6. coverage' = Coverage(e.figures, uploads)
      BY <2>1 DEF e
    <3>7. Count(e.figures, u) > 1 => <<"duplicate", u>> \in coverage'
      BY <3>3, <3>4, <3>6 DEF Coverage
    <3> QED BY <3>5, <3>7 DEF u
  <2>10. ASSUME report # NoReport, NEW i \in DOMAIN e.blocks, e.blocks[i].kind \in {"paragraph", "carrier"}
         PROVE  Range(e.blocks[i].pieces) \intersect Marker = {}
    <3>1. doc \in Docs(CleanBlocks(Int))
      BY <1>1, <2>10 DEF Stepped
    <3>2. e \in Docs(CleanBlocks(Int))
      BY <1>1, <2>3, <2>4, <2>5, <2>6, <3>1, FigureBlocksAre, AllAppended DEF e
    <3>3. e.blocks \in Seq(CleanBlocks(Int))
      BY <3>2, DocIs
    <3>4. e.blocks[i] \in CleanBlocks(Int)
      BY <3>3
    <3>5. e.blocks[i].pieces \in Seq(Words)
      BY <2>10, <3>4, CleanBlockIs
    <3> DEFINE pieces == e.blocks[i].pieces
    <3>6. \A k \in DOMAIN pieces : pieces[k] \in Words
      BY <3>5
    <3> HIDE DEF pieces
    <3>7. Range(pieces) \intersect Marker = {}
      BY <3>6, MarkerAssumption DEF Range
    <3> QED BY <3>7 DEF pieces
  <2>11. doc' = e /\ marking' = "shipped"
    BY <2>1 DEF e
  <2>12. EachUsedOnce(doc)'
    BY <2>7, <2>11 DEF EachUsedOnce, Images, Pictures
  <2>13. EveryImageShown'
    <3>1. ASSUME report' # NoReport, NEW f \in Expected(uploads', typed')
          PROVE  LET u == UrlOf(uploads', f)
                 IN  \/ Count(doc'.figures, u) = 1
                     \/ Count(doc'.figures, u) > 1 /\ <<"duplicate", u>> \in coverage'
      BY <1>1, <2>9, <2>11, <3>1
    <3>2. ASSUME report' # NoReport
          PROVE  \A i \in DOMAIN doc'.blocks :
                   doc'.blocks[i].kind \in {"paragraph", "carrier"} =>
                     Range(doc'.blocks[i].pieces) \intersect Marker = {}
      BY <1>1, <2>10, <2>11, <3>2
    <3> QED BY <2>12, <3>1, <3>2 DEF EveryImageShown
  <2> QED BY <1>1, <1>2, <2>11, <2>13 DEF MarkerInv
<1> QED BY <1>3, <1>4

-----------------------------------------------------------------------------
(* The twins walk alike: over the description as it is shown, the walk sees  *)
(* and places the same, and what goes out is shown the same.                 *)
ShownAs(b, figures) == IF b.kind = "figure" THEN Figure(figures[b.ref]) ELSE b
ShownIn(blocks, figures) == [i \in DOMAIN blocks |-> ShownAs(blocks[i], figures)]
Twin(s, figures) == [t |-> s.t, last |-> s.last, out |-> ShownIn(s.out, figures)]

LEMMA ShownLonger ==
  ASSUME NEW B, NEW out \in Seq(B), NEW b \in B, NEW figures
  PROVE  ShownIn(Append(out, b), figures) = Append(ShownIn(out, figures), ShownAs(b, figures))
<1> DEFINE E == {ShownAs(x, figures) : x \in B}
           n == Len(out)
           s == ShownIn(out, figures)
           e == ShownAs(b, figures)
           l == Append(s, e)
           k == ShownIn(Append(out, b), figures)
<1>1. /\ n \in Nat /\ DOMAIN out = 1 .. n /\ DOMAIN Append(out, b) = 1 .. n + 1
      /\ \A i \in DOMAIN out : Append(out, b)[i] = out[i]
      /\ Append(out, b)[n + 1] = b
  BY Longer
<1>2. \A i \in 1 .. n : out[i] \in B
  BY <1>1
<1> HIDE DEF n
<1>3. s = [i \in 1 .. n |-> ShownAs(out[i], figures)] /\ e \in E
  BY <1>1 DEF ShownIn
<1>4. \A i \in 1 .. n : ShownAs(out[i], figures) \in E
  BY <1>2
<1>5. k = [i \in 1 .. n + 1 |-> ShownAs(Append(out, b)[i], figures)]
  BY <1>1 DEF ShownIn
<1> HIDE DEF s, e, E, k
<1>6. s \in Seq(E) /\ Len(s) = n /\ DOMAIN s = 1 .. n
  BY <1>1, <1>3, <1>4
<1>7. /\ l \in Seq(E) /\ Len(l) = n + 1
      /\ \A i \in 1 .. n : l[i] = s[i]
      /\ l[n + 1] = e
  <2>1. /\ Append(s, e) \in Seq(E) /\ Len(Append(s, e)) = Len(s) + 1
        /\ \A i \in DOMAIN s : Append(s, e)[i] = s[i]
        /\ Append(s, e)[Len(s) + 1] = e
    <3>1. s \in Seq(E) /\ e \in E
      BY <1>3, <1>6
    <3> QED BY ONLY <3>1, Longer
  <2> QED BY <1>6, <2>1
<1> HIDE DEF l
<1>8. l = [i \in 1 .. n + 1 |-> l[i]]
  BY <1>7
<1>9. \A i \in 1 .. n + 1 : l[i] = ShownAs(Append(out, b)[i], figures)
  <2> SUFFICES ASSUME NEW i \in 1 .. n + 1 PROVE l[i] = ShownAs(Append(out, b)[i], figures)
    OBVIOUS
  <2>1. CASE i \in 1 .. n
    BY <1>1, <1>3, <1>7, <2>1
  <2>2. CASE i = n + 1
    BY <1>1, <1>7, <2>2 DEF e
  <2> QED BY <1>1, <2>1, <2>2
<1>10. k = l
  BY <1>5, <1>8, <1>9
<1> QED BY <1>10 DEF k, l, s, e

LEMMA ShownAsIs ==
  /\ \A figures, pieces : /\ ShownAs(Paragraph(pieces), figures) = Paragraph(pieces)
                          /\ ShownAs(Carrier(pieces), figures) = Carrier(pieces)
  /\ \A figures, k : ShownAs(Placed(k), figures) = Placed(k)
  /\ \A figures : ShownAs(Boundary, figures) = Boundary
  /\ \A figures, x : ShownAs(Figure(x), figures) = Figure(figures[x])
BY DEF ShownAs, Paragraph, Carrier, Placed, Boundary, Figure

LEMMA TwinIs ==
  ASSUME NEW t, NEW last, NEW out, NEW figures
  PROVE  Twin([t |-> t, last |-> last, out |-> out], figures)
           = [t |-> t, last |-> last, out |-> ShownIn(out, figures)]
BY DEF Twin

LEMMA TwinFlush ==
  ASSUME NEW R, NEW s \in Walks(R), NEW cur \in Seq(Words), NEW figures
  PROVE  Flush(Twin(s, figures), cur) = Twin(Flush(s, cur), figures)
<1>1. CASE cur = << >>
  BY <1>1 DEF Flush
<1>2. CASE cur # << >>
  <2> DEFINE b == Paragraph(cur)
             out == ShownIn(s.out, figures)
  <2>1. s = [t |-> s.t, last |-> s.last, out |-> s.out] /\ s.out \in Seq(OutBlocks(R))
    BY FieldsOf
  <2>2. b \in OutBlocks(R) /\ ShownAs(b, figures) = b
    BY OutBlocksAre, ShownAsIs
  <2> HIDE DEF b
  <2>3. Flush(s, cur) = [s EXCEPT !.out = Append(s.out, b), !.last = cur]
    BY <1>2 DEF Flush, b
  <2>4. Flush(s, cur) = [t |-> s.t, last |-> cur, out |-> Append(s.out, b)]
    BY ONLY <2>1, <2>3
  <2>5. Twin(s, figures) = [t |-> s.t, last |-> s.last, out |-> out]
    BY DEF Twin
  <2> HIDE DEF out
  <2>6. Flush(Twin(s, figures), cur) = [t |-> s.t, last |-> cur, out |-> Append(out, b)]
    <3> DEFINE w == [t |-> s.t, last |-> s.last, out |-> out]
    <3>1. Flush(w, cur) = [w EXCEPT !.out = Append(w.out, b), !.last = cur]
      BY <1>2 DEF Flush, b
    <3>2. Flush(w, cur) = [t |-> s.t, last |-> cur, out |-> Append(out, b)]
      BY ONLY <3>1
    <3> QED BY <2>5, <3>2
  <2>7. ShownIn(Append(s.out, b), figures) = Append(out, b)
    BY <2>1, <2>2, ShownLonger DEF out
  <2>8. Twin(Flush(s, cur), figures) = [t |-> s.t, last |-> cur, out |-> Append(out, b)]
    <3>1. Twin([t |-> s.t, last |-> cur, out |-> Append(s.out, b)], figures)
            = [t |-> s.t, last |-> cur, out |-> ShownIn(Append(s.out, b), figures)]
      BY TwinIs
    <3> QED BY <2>4, <2>7, <3>1
  <2> QED BY <2>6, <2>8
<1> QED BY <1>1, <1>2

LEMMA TwinPiece ==
  ASSUME NEW m \in Seq(Upload), NEW R, NEW a, Splits(m, R, a), NEW p \in Pieces, NEW figures
  PROVE  LET b == OnePiece(m, a, p)
         IN  OnePiece(m, [s |-> Twin(a.s, figures), cur |-> a.cur], p)
               = [s |-> Twin(b.s, figures), cur |-> b.cur]
<1> DEFINE b == OnePiece(m, a, p)
           s == a.s
           v == Twin(s, figures)
           c == [s |-> v, cur |-> a.cur]
<1>1. /\ a = [s |-> a.s, cur |-> a.cur] /\ a.cur \in Seq(Words) /\ a.s \in Walks(R)
      /\ Walked(m, R, a.s) /\ Tracked(m, a.s.t)
  BY DEF Splits, Walked
<1>2. /\ s = [t |-> s.t, last |-> s.last, out |-> s.out] /\ s.out \in Seq(OutBlocks(R))
      /\ s.t \in Trackers
  BY <1>1, FieldsOf
<1>3. v = [t |-> s.t, last |-> s.last, out |-> ShownIn(s.out, figures)]
  BY DEF Twin
<1>4. c.s = v /\ c.cur = a.cur /\ v.t = s.t /\ v.last = s.last
  BY <1>3
<1>5. CASE p \notin Marker
  <2>1. b = [a EXCEPT !.cur = Append(a.cur, p)] /\ OnePiece(m, c, p) = [c EXCEPT !.cur = Append(c.cur, p)]
    BY <1>5 DEF OnePiece
  <2> HIDE DEF b, v
  <2>2. b = [s |-> a.s, cur |-> Append(a.cur, p)]
    BY ONLY <1>1, <2>1
  <2>3. OnePiece(m, c, p) = [s |-> v, cur |-> Append(a.cur, p)]
    BY <1>4, <2>1
  <2> QED BY <2>2, <2>3 DEF b, v
<1>6. CASE p \in Marker
  <2> DEFINE lead == IF a.cur # << >> THEN a.cur ELSE a.s.last
             t == visit(m, a.s.t, p, lead)
  <2>1. /\ Tracked(m, t)
        /\ t.images = a.s.t.images \/ \E url \in Url : t.images = Append(a.s.t.images, url)
    <3>1. Tracked(m, a.s.t) /\ m \in Seq(Upload) /\ p \in Marker
      BY <1>1, <1>6
    <3> DEFINE w == a.s.t
    <3> HIDE DEF lead, w
    <3>2. LET u == visit(m, w, p, lead)
          IN  /\ Tracked(m, u)
              /\ u.images = w.images \/ \E url \in Url : u.images = Append(w.images, url)
      BY <3>1, Visited DEF w
    <3> QED BY <3>2 DEF w
  <2>2. b = SplitAt(a, t) /\ OnePiece(m, c, p) = SplitAt(c, t)
    <3>1. b = SplitAt(a, t)
      BY <1>6 DEF OnePiece
    <3>2. OnePiece(m, c, p) = SplitAt(c, visit(m, c.s.t, p, IF c.cur # << >> THEN c.cur ELSE c.s.last))
      BY <1>6 DEF OnePiece
    <3>3. c.s.t = a.s.t /\ c.s.last = a.s.last /\ c.cur = a.cur
      BY <1>4
    <3> HIDE DEF c, b
    <3> QED BY <3>1, <3>2, <3>3
  <2> HIDE DEF t
  <2>3. CASE Len(t.images) = Len(a.s.t.images)
    <3> DEFINE x == [s EXCEPT !.t = t]
               y == [v EXCEPT !.t = t]
    <3>1. b = [a EXCEPT !.s = x] /\ OnePiece(m, c, p) = [c EXCEPT !.s = y]
      BY <1>4, <2>2, <2>3 DEF SplitAt
    <3>2. x = [t |-> t, last |-> s.last, out |-> s.out]
      BY ONLY <1>2
    <3>3. y = [t |-> t, last |-> s.last, out |-> ShownIn(s.out, figures)]
      BY ONLY <1>3
    <3>4. y = Twin(x, figures)
      BY <3>2, <3>3, TwinIs
    <3> HIDE DEF x, y, b, v
    <3>5. b = [s |-> x, cur |-> a.cur]
      BY ONLY <1>1, <3>1
    <3>6. OnePiece(m, c, p) = [s |-> y, cur |-> a.cur]
      BY ONLY <3>1
    <3> QED BY <3>4, <3>5, <3>6 DEF b, v
  <2>4. CASE Len(t.images) # Len(a.s.t.images)
    <3> DEFINE k == Placed(Len(t.images))
               f == Flush(s, a.cur)
               g == Flush(v, a.cur)
               x == [f EXCEPT !.t = t, !.out = Append(@, k)]
               y == [g EXCEPT !.t = t, !.out = Append(@, k)]
    <3>1. b = [s |-> x, cur |-> << >>] /\ OnePiece(m, c, p) = [s |-> y, cur |-> << >>]
      BY <1>4, <2>2, <2>4 DEF SplitAt
    <3>2. g = Twin(f, figures)
      BY <1>1, TwinFlush
    <3>3. f \in Walks(R)
      BY <1>1, Flushed DEF Walked
    <3>4. f = [t |-> f.t, last |-> f.last, out |-> f.out] /\ f.out \in Seq(OutBlocks(R))
      BY <3>3, FieldsOf
    <3>5. g = [t |-> f.t, last |-> f.last, out |-> ShownIn(f.out, figures)]
      BY <3>2 DEF Twin
    <3>6. k \in OutBlocks(R) /\ ShownAs(k, figures) = k
      <4>1. t.images \in Seq(Url)
        BY <2>1 DEF Tracked, Trackers
      <4>2. Len(t.images) \in Nat
        BY <4>1
      <4> QED BY <4>2, OutBlocksAre, ShownAsIs
    <3> HIDE DEF k, f, g
    <3>7. x = [f EXCEPT !.t = t, !.out = Append(f.out, k)] /\ y = [g EXCEPT !.t = t, !.out = Append(g.out, k)]
      OBVIOUS
    <3> HIDE DEF x, y
    <3>8. x = [t |-> t, last |-> f.last, out |-> Append(f.out, k)]
      BY ONLY <3>4, <3>7
    <3> DEFINE out == ShownIn(f.out, figures)
    <3> HIDE DEF out
    <3>9. y = [t |-> t, last |-> f.last, out |-> Append(out, k)]
      <4>1. g = [t |-> f.t, last |-> f.last, out |-> out]
        BY <3>5 DEF out
      <4>2. g.out = out
        BY <4>1
      <4> QED BY ONLY <3>7, <4>1, <4>2
    <3>10. ShownIn(Append(f.out, k), figures) = Append(out, k)
      BY <3>4, <3>6, ShownLonger DEF out
    <3>11. y = Twin(x, figures)
      <4>1. Twin([t |-> t, last |-> f.last, out |-> Append(f.out, k)], figures)
              = [t |-> t, last |-> f.last, out |-> ShownIn(Append(f.out, k), figures)]
        BY TwinIs
      <4> QED BY <3>8, <3>9, <3>10, <4>1
    <3> HIDE DEF b, v, c
    <3>12. b.s = x /\ b.cur = << >>
      BY <3>1
    <3> QED BY <3>1, <3>11, <3>12 DEF b, c, v
  <2> QED BY <2>3, <2>4
<1> QED BY <1>5, <1>6

LEMMA TwinParagraph ==
  ASSUME NEW m \in Seq(Upload), NEW R, NEW s, Walked(m, R, s), NEW pieces \in Seq(Pieces), NEW figures
  PROVE  SplitParagraph(m, Twin(s, figures), pieces) = Twin(SplitParagraph(m, s, pieces), figures)
<1> DEFINE N == Len(pieces)
           v == Twin(s, figures)
<1>1. N \in Nat /\ DOMAIN pieces = 1 .. N
  OBVIOUS
<1> HIDE DEF N, v
<1>2. PICK r : SplitSteps(r, N, pieces, m, s)
  BY <1>1, SplitRun
<1>3. PICK q : SplitSteps(q, N, pieces, m, v)
  BY <1>1, SplitRun
<1> DEFINE Right(n) == /\ Splits(m, R, r[n])
                       /\ q[n] = [s |-> Twin(r[n].s, figures), cur |-> r[n].cur]
           S == {n \in 0 .. N : Right(n)}
<1>4. 0 \in S
  <2>1. r[0] = [s |-> s, cur |-> << >>] /\ << >> \in Seq(Words) /\ s \in Walks(R)
    BY <1>2 DEF SplitSteps, Walked
  <2>2. Splits(m, R, r[0]) /\ r[0].s = s /\ r[0].cur = << >>
    BY <2>1 DEF Splits
  <2>3. q[0] = [s |-> Twin(s, figures), cur |-> << >>]
    BY <1>3 DEF SplitSteps, v
  <2>4. Right(0)
    BY <2>2, <2>3
  <2> HIDE DEF Right
  <2> QED BY <1>1, <2>4
<1>5. ASSUME NEW n \in 1 .. N, n - 1 \in S PROVE n \in S
  <2> DEFINE a == r[n - 1]
  <2>1. /\ Splits(m, R, a) /\ q[n - 1] = [s |-> Twin(a.s, figures), cur |-> a.cur]
        /\ pieces[n] \in Pieces
        /\ r[n] = OnePiece(m, a, pieces[n]) /\ q[n] = OnePiece(m, q[n - 1], pieces[n])
    BY <1>1, <1>2, <1>3, <1>5 DEF SplitSteps
  <2> HIDE DEF a
  <2>2. Splits(m, R, r[n])
    BY <2>1, PieceTaken
  <2>3. q[n] = [s |-> Twin(r[n].s, figures), cur |-> r[n].cur]
    <3>1. LET b == OnePiece(m, a, pieces[n])
          IN  OnePiece(m, [s |-> Twin(a.s, figures), cur |-> a.cur], pieces[n])
                = [s |-> Twin(b.s, figures), cur |-> b.cur]
      BY <2>1, TwinPiece, SMTT(30)
    <3> QED BY ONLY <2>1, <3>1, SMTT(30)
  <2>4. Right(n)
    BY <2>2, <2>3
  <2> HIDE DEF Right
  <2> QED BY <2>4
<1>6. Right(N)
  <2> HIDE DEF S, Right
  <2>1. \A n \in 0 .. N : n \in S
    BY <1>1, <1>4, <1>5, InductionUpTo
  <2>2. N \in S
    BY <1>1, <2>1
  <2> QED BY <2>2 DEF S
<1> DEFINE e == r[N]
           f == q[N]
<1>7. e = SplitBy(m, s, pieces) /\ f = SplitBy(m, v, pieces)
  BY <1>2, <1>3 DEF SplitSteps
<1>8. f.s = Twin(e.s, figures) /\ f.cur = e.cur /\ e.s \in Walks(R) /\ e.cur \in Seq(Words)
  BY <1>6 DEF Splits
<1> HIDE DEF S, e, f
<1>9. SplitParagraph(m, s, pieces) = Flush(e.s, e.cur)
  BY <1>7 DEF SplitParagraph, SplitBy
<1>10. SplitParagraph(m, v, pieces) = Flush(f.s, f.cur)
  BY <1>7 DEF SplitParagraph, SplitBy
<1> QED BY <1>8, <1>9, <1>10, TwinFlush DEF v

(* A block that goes out behind the others, with whatever was seen.          *)
LEMMA TwinOut ==
  ASSUME NEW R, NEW s \in Walks(R), NEW b \in OutBlocks(R), NEW t, NEW last, NEW figures
  PROVE  LET v == Twin(s, figures)
         IN  [t |-> t, last |-> last, out |-> Append(v.out, ShownAs(b, figures))]
               = Twin([t |-> t, last |-> last, out |-> Append(s.out, b)], figures)
<1>1. s.out \in Seq(OutBlocks(R))
  BY FieldsOf
<1>2. Twin([t |-> t, last |-> last, out |-> Append(s.out, b)], figures)
        = [t |-> t, last |-> last, out |-> ShownIn(Append(s.out, b), figures)]
  BY TwinIs
<1>3. Twin(s, figures).out = ShownIn(s.out, figures)
  BY DEF Twin
<1>4. ShownIn(Append(s.out, b), figures) = Append(ShownIn(s.out, figures), ShownAs(b, figures))
  BY <1>1, ShownLonger
<1> QED BY <1>2, <1>3, <1>4

LEMMA TwinBlock ==
  ASSUME NEW m \in Seq(Upload), NEW R, NEW s, Walked(m, R, s), NEW b \in InBlocks(R), NEW figures
  PROVE  OneBlock(m, Twin(s, figures), ShownAs(b, figures)) = Twin(OneBlock(m, s, b), figures)
<1> DEFINE v == Twin(s, figures)
           c == ShownAs(b, figures)
           u == OneBlock(m, s, b)
           x == OneBlock(m, v, c)
<1>1. s \in Walks(R)
  BY DEF Walked
<1>2. s = [t |-> s.t, last |-> s.last, out |-> s.out]
  BY <1>1, FieldsOf
<1>3. v = [t |-> v.t, last |-> v.last, out |-> v.out] /\ v.t = s.t /\ v.last = s.last
  BY DEF Twin
<1> HIDE DEF v
<1>4. CASE b.kind = "paragraph"
  <2>1. c = b
    BY <1>4 DEF ShownAs
  <2> HIDE DEF c
  <2>2. x = SplitParagraph(m, v, b.pieces) /\ u = SplitParagraph(m, s, b.pieces)
    BY <1>4, <2>1 DEF OneBlock
  <2>3. b.pieces \in Seq(Pieces)
    BY <1>4, InBlockIs
  <2> HIDE DEF x, u
  <2> QED BY <2>2, <2>3, TwinParagraph DEF v, c, x, u
<1>5. CASE b.kind = "carrier"
  <2> DEFINE a == Carrier(Scrubbed(b.pieces))
             t == Scrub(m, s.t, b.pieces)
  <2>1. c = b
    BY <1>5 DEF ShownAs
  <2>2. a \in OutBlocks(R) /\ ShownAs(a, figures) = a
    BY <1>5, InBlockIs, ScrubbedText, OutBlocksAre, ShownAsIs
  <2> HIDE DEF c
  <2>3. /\ u = [s EXCEPT !.t = t, !.out = Append(s.out, a)]
        /\ x = [v EXCEPT !.t = t, !.out = Append(v.out, a)]
    <3>1. u = [s EXCEPT !.t = t, !.out = Append(s.out, a)]
      BY <1>5 DEF OneBlock
    <3>2. x = [v EXCEPT !.t = Scrub(m, v.t, b.pieces), !.out = Append(v.out, a)]
      BY <1>5, <2>1 DEF OneBlock
    <3> HIDE DEF u, x, a
    <3> QED BY <1>3, <3>1, <3>2
  <2> HIDE DEF a, t, u, x
  <2>4. u = [t |-> t, last |-> s.last, out |-> Append(s.out, a)]
    BY ONLY <1>2, <2>3
  <2>5. x = [t |-> t, last |-> v.last, out |-> Append(v.out, a)]
    BY ONLY <1>3, <2>3
  <2>6. x = Twin(u, figures)
    <3>1. [t |-> t, last |-> s.last, out |-> Append(v.out, ShownAs(a, figures))]
            = Twin([t |-> t, last |-> s.last, out |-> Append(s.out, a)], figures)
      BY <1>1, <2>2, TwinOut DEF v
    <3> QED BY <1>3, <2>2, <2>4, <2>5, <3>1
  <2> QED BY <2>6 DEF x, u, c, v
<1>6. CASE b.kind = "figure"
  <2>1. b \in OutBlocks(R)
    BY <1>6, InBlockIs, OutBlocksAre
  <2>2. c.kind = "figure"
    BY <1>6 DEF ShownAs, Figure
  <2> HIDE DEF c
  <2>3. u = [s EXCEPT !.out = Append(s.out, b)] /\ x = [v EXCEPT !.out = Append(v.out, c)]
    BY <1>6, <2>2 DEF OneBlock
  <2> HIDE DEF u, x
  <2>4. u = [t |-> s.t, last |-> s.last, out |-> Append(s.out, b)]
    BY ONLY <1>2, <2>3
  <2>5. x = [t |-> v.t, last |-> v.last, out |-> Append(v.out, c)]
    BY ONLY <1>3, <2>3
  <2>6. x = Twin(u, figures)
    <3>1. [t |-> s.t, last |-> s.last, out |-> Append(v.out, c)]
            = Twin([t |-> s.t, last |-> s.last, out |-> Append(s.out, b)], figures)
      BY <1>1, <2>1, TwinOut DEF v, c
    <3> QED BY <1>3, <2>4, <2>5, <3>1
  <2> QED BY <2>6 DEF x, u, c, v
<1>7. CASE b.kind = "boundary"
  <2>1. b \in OutBlocks(R)
    BY <1>7, InBlockIs, OutBlocksAre
  <2>2. c = b /\ ShownAs(b, figures) = b
    BY <1>7 DEF ShownAs
  <2> HIDE DEF c
  <2>3. /\ u = [s EXCEPT !.out = Append(s.out, b), !.last = << >>]
        /\ x = [v EXCEPT !.out = Append(v.out, b), !.last = << >>]
    BY <1>7, <2>2 DEF OneBlock
  <2> HIDE DEF u, x
  <2>4. u = [t |-> s.t, last |-> << >>, out |-> Append(s.out, b)]
    BY ONLY <1>2, <2>3
  <2>5. x = [t |-> v.t, last |-> << >>, out |-> Append(v.out, b)]
    BY ONLY <1>3, <2>3
  <2>6. x = Twin(u, figures)
    <3>1. [t |-> s.t, last |-> << >>, out |-> Append(v.out, ShownAs(b, figures))]
            = Twin([t |-> s.t, last |-> << >>, out |-> Append(s.out, b)], figures)
      BY <1>1, <2>1, TwinOut DEF v
    <3> QED BY <1>3, <2>2, <2>4, <2>5, <3>1
  <2> QED BY <2>6 DEF x, u, c, v
<1> HIDE DEF c, u, x
<1> QED BY <1>4, <1>5, <1>6, <1>7, InBlockIs DEF x, u, c, v

LEMMA TwinWalk ==
  ASSUME NEW m \in Seq(Upload), NEW R, NEW blocks \in Seq(InBlocks(R)), NEW figures
  PROVE  Walk(m, ShownIn(blocks, figures)) = Twin(Walk(m, blocks), figures)
<1> DEFINE N == Len(blocks)
           other == ShownIn(blocks, figures)
<1>1. /\ N \in Nat /\ DOMAIN blocks = 1 .. N /\ \A i \in 1 .. N : blocks[i] \in InBlocks(R)
  OBVIOUS
<1>2. DOMAIN other = 1 .. N /\ \A i \in 1 .. N : other[i] = ShownAs(blocks[i], figures)
  BY <1>1 DEF ShownIn
<1> HIDE DEF N, other
<1>3. PICK r : WalkSteps(r, N, blocks, m)
  BY <1>1, WalkRun
<1>4. PICK q : WalkSteps(q, N, other, m)
  BY <1>1, <1>2, WalkRun
<1> DEFINE Right(n) == Walked(m, R, r[n]) /\ q[n] = Twin(r[n], figures)
           S == {n \in 0 .. N : Right(n)}
<1>5. 0 \in S
  <2>1. r[0] = [t |-> Tracker, last |-> << >>, out |-> << >>] /\ q[0] = r[0]
    BY <1>3, <1>4 DEF WalkSteps
  <2>2. Walked(m, R, r[0])
    <3> DEFINE none == << >>
    <3>1. none \in Seq(InBlocks(R)) /\ Len(none) = 0
      OBVIOUS
    <3>2. Walked(m, R, Walk(m, none))
      BY <3>1, WalkEnds
    <3>3. PICK z : WalkSteps(z, 0, none, m)
      <4>1. DOMAIN none = 1 .. 0 /\ 0 \in Nat
        OBVIOUS
      <4> QED BY <4>1, WalkRun
    <3> QED BY <2>1, <3>2, <3>3 DEF WalkSteps
  <2>3. ShownIn(<< >>, figures) = << >>
    BY DEF ShownIn
  <2>4. q[0] = Twin(r[0], figures)
    BY <2>1, <2>3, TwinIs
  <2>5. Right(0)
    BY <2>2, <2>4
  <2> HIDE DEF Right
  <2> QED BY <1>1, <2>5
<1>6. ASSUME NEW n \in 1 .. N, n - 1 \in S PROVE n \in S
  <2> DEFINE a == r[n - 1]
             b == blocks[n]
  <2>1. /\ Walked(m, R, a) /\ q[n - 1] = Twin(a, figures) /\ b \in InBlocks(R)
        /\ r[n] = OneBlock(m, a, b) /\ q[n] = OneBlock(m, q[n - 1], other[n])
        /\ other[n] = ShownAs(b, figures)
    BY <1>1, <1>2, <1>3, <1>4, <1>6 DEF WalkSteps
  <2> HIDE DEF a, b
  <2>2. Walked(m, R, r[n])
    BY <2>1, BlockTaken
  <2>3. q[n] = Twin(r[n], figures)
    BY <2>1, TwinBlock
  <2>4. Right(n)
    BY <2>2, <2>3
  <2> HIDE DEF Right
  <2> QED BY <2>4
<1>7. Right(N)
  <2> HIDE DEF S, Right
  <2>1. \A n \in 0 .. N : n \in S
    BY <1>1, <1>5, <1>6, InductionUpTo
  <2>2. N \in S
    BY <1>1, <2>1
  <2> QED BY <2>2 DEF S
<1>8. Walk(m, blocks) = r[N] /\ Walk(m, other) = q[N]
  BY <1>3, <1>4 DEF WalkSteps
<1> HIDE DEF S
<1> QED BY <1>7, <1>8 DEF other

-----------------------------------------------------------------------------
(* What the document shows after the step.                                   *)
LEMMA ShownSeq ==
  ASSUME NEW B, NEW s \in Seq(B), NEW figures
  PROVE  LET l == ShownIn(s, figures)
         IN  /\ l \in Seq({ShownAs(b, figures) : b \in B}) /\ Len(l) = Len(s) /\ DOMAIN l = DOMAIN s
             /\ \A i \in DOMAIN s : l[i] = ShownAs(s[i], figures)
<1> DEFINE E == {ShownAs(b, figures) : b \in B}
           l == ShownIn(s, figures)
           n == Len(s)
<1>1. n \in Nat /\ DOMAIN s = 1 .. n /\ \A i \in 1 .. n : s[i] \in B
  OBVIOUS
<1> HIDE DEF n
<1>2. l = [i \in 1 .. n |-> ShownAs(s[i], figures)]
  BY <1>1 DEF ShownIn
<1>3. \A i \in 1 .. n : ShownAs(s[i], figures) \in E
  BY <1>1
<1> HIDE DEF E, l
<1>4. l \in Seq(E) /\ Len(l) = n /\ DOMAIN l = 1 .. n
  BY <1>1, <1>2, <1>3
<1> QED BY <1>1, <1>2, <1>4 DEF E, l, n

LEMMA ShownIs ==
  ASSUME NEW d
  PROVE  Shown(d) = ShownIn(d.blocks, d.figures)
<1>1. \A i \in DOMAIN d.blocks :
        (IF i \in Pictures(d.blocks) THEN Figure(d.figures[d.blocks[i].ref]) ELSE d.blocks[i])
          = ShownAs(d.blocks[i], d.figures)
  BY DEF Pictures, ShownAs
<1> QED BY <1>1 DEF Shown, ShownIn

(* Where a figure has moved, it shows the same image.                        *)
LEMMA MovedShows ==
  ASSUME NEW B, NEW d \in Docs(B), NEW remove \in SUBSET DOMAIN d.figures, NEW new \in Seq(Url),
         NEW ref \in 1 .. Len(d.figures) + Len(new), ref \notin remove
  PROVE  reindexFigures(d, remove, new).figures[Moved(d, remove, ref)] = (d.figures \o new)[ref]
<1> DEFINE r == reindexFigures(d, remove, new)
           C == Cardinality(Left(d, remove))
           all == d.figures \o new
<1>1. d.blocks \in Seq(B) /\ d.figures \in Seq(Url) /\ Len(d.figures) \in Nat /\ Len(new) \in Nat
  <2>1. d.blocks \in Seq(B) /\ d.figures \in Seq(Url)
    BY DocIs
  <2> QED BY <2>1
<1>2. /\ \A j \in DOMAIN new : r.figures[C + j] = new[j]
      /\ \A i \in Left(d, remove) : r.figures[Shifted(i, remove)] = d.figures[i]
  <2>1. ReindexedTo(B, d, remove, new)
    BY <1>1, Reindexed
  <2> QED BY <2>1 DEF ReindexedTo
<1>3. C \in Nat /\ Len(Filtered(d.figures, Left(d, remove))) = C
  BY <1>1, LeftMoves
<1>4. /\ DOMAIN d.figures = 1 .. Len(d.figures) /\ DOMAIN new = 1 .. Len(new)
      /\ \A i \in 1 .. Len(d.figures) : all[i] = d.figures[i]
      /\ \A i \in 1 .. Len(new) : all[Len(d.figures) + i] = new[i]
  BY <1>1, Joined
<1> HIDE DEF r, C, all
<1>5. CASE ref <= Len(d.figures)
  <2>1. ref \in 1 .. Len(d.figures) /\ ~(ref > Len(d.figures))
    BY <1>1, <1>5
  <2>2. ref \in Left(d, remove) /\ Moved(d, remove, ref) = Shifted(ref, remove)
    BY <1>4, <2>1 DEF Left, Moved
  <2> QED BY <1>2, <1>4, <2>1, <2>2 DEF r, all
<1>6. CASE ref > Len(d.figures)
  <2> DEFINE j == ref - Len(d.figures)
  <2>1. j \in 1 .. Len(new) /\ ref = Len(d.figures) + j
    BY <1>1, <1>6
  <2>2. Moved(d, remove, ref) = C + j
    <3>1. Moved(d, remove, ref) = Len(Filtered(d.figures, Left(d, remove))) + ref - Len(d.figures)
      BY <1>6 DEF Moved
    <3>2. Moved(d, remove, ref) = C + ref - Len(d.figures)
      BY <1>3, <3>1
    <3> QED BY <1>1, <1>3, <3>2
  <2> HIDE DEF j
  <2> QED BY <1>2, <1>4, <2>1, <2>2 DEF r, all
<1> QED BY <1>1, <1>5, <1>6

LEMMA ReindexShown ==
  ASSUME NEW B, NEW d \in Docs(B), NEW remove \in SUBSET DOMAIN d.figures, NEW new \in Seq(Url),
         \A i \in Pictures(d.blocks) : d.blocks[i].ref \in 1 .. Len(d.figures) + Len(new)
  PROVE  Shown(reindexFigures(d, remove, new))
           = Filtered(ShownIn(d.blocks, d.figures \o new), Stays(d, remove))
<1> DEFINE r == reindexFigures(d, remove, new)
           S == Stays(d, remove)
           stays == Filtered(d.blocks, S)
           all == d.figures \o new
           C == Cardinality(S)
           l == ShownIn(d.blocks, all)
<1>1. d.blocks \in Seq(B) /\ d.figures \in Seq(Url)
  BY DocIs
<1>2. /\ S \in SUBSET DOMAIN d.blocks
      /\ r.blocks = [k \in DOMAIN stays |->
                       IF stays[k].kind = "figure" THEN Figure(Moved(d, remove, stays[k].ref))
                       ELSE stays[k]]
      /\ DOMAIN stays = 1 .. C
      /\ \A k \in DOMAIN stays : Nth(S, k) \in S /\ stays[k] = d.blocks[Nth(S, k)]
  <2>1. ReindexedTo(B, d, remove, new)
    BY <1>1, Reindexed
  <2> QED BY <2>1 DEF ReindexedTo
<1>3. Shown(r) = ShownIn(r.blocks, r.figures)
  BY ShownIs
<1>4. Filtered(l, S) = [k \in 1 .. C |-> l[Nth(S, k)]]
  BY DEF Filtered, Nth, Rank, Upto
<1>5. \A i \in S : d.blocks[i].kind = "figure" =>
        d.blocks[i].ref \in 1 .. Len(d.figures) + Len(new) /\ d.blocks[i].ref \notin remove
  BY <1>2 DEF Stays, Pictures
<1>6. \A i \in DOMAIN d.blocks : l[i] = ShownAs(d.blocks[i], all)
  BY DEF ShownIn
<1> HIDE DEF r, S, stays, all, C, l
<1>7. DOMAIN r.blocks = 1 .. C
  BY <1>2
<1>8. ASSUME NEW k \in 1 .. C PROVE ShownAs(r.blocks[k], r.figures) = l[Nth(S, k)]
  <2> DEFINE i == Nth(S, k)
             b == d.blocks[i]
  <2>1. i \in S /\ i \in DOMAIN d.blocks /\ stays[k] = b
    BY <1>2
  <2>2. l[i] = ShownAs(b, all)
    BY <1>6, <2>1
  <2>3. CASE b.kind = "figure"
    <3>1. r.blocks[k] = Figure(Moved(d, remove, b.ref))
      BY <1>2, <2>1, <2>3
    <3>2. b.ref \in 1 .. Len(d.figures) + Len(new) /\ b.ref \notin remove
      BY <1>5, <2>1, <2>3
    <3> HIDE DEF b
    <3>3. r.figures[Moved(d, remove, b.ref)] = all[b.ref]
      BY <3>2, MovedShows DEF r, all
    <3>4. ShownAs(r.blocks[k], r.figures) = Figure(all[b.ref])
      BY <3>1, <3>3, ShownAsIs
    <3> QED BY <2>2, <2>3, <3>4 DEF ShownAs
  <2>4. CASE b.kind # "figure"
    <3>1. r.blocks[k] = b
      BY <1>2, <2>1, <2>4
    <3> QED BY <2>2, <2>4, <3>1 DEF ShownAs
  <2> QED BY <2>3, <2>4
<1>9. ShownIn(r.blocks, r.figures) = [k \in 1 .. C |-> l[Nth(S, k)]]
  BY <1>7, <1>8 DEF ShownIn
<1> QED BY <1>3, <1>4, <1>9 DEF r, S, all, l

LEMMA ShownJoins ==
  ASSUME NEW B, NEW s \in Seq(B), NEW t \in Seq(B), NEW figures
  PROVE  ShownIn(s \o t, figures) = ShownIn(s, figures) \o ShownIn(t, figures)
<1> DEFINE E == {ShownAs(b, figures) : b \in B}
           x == ShownIn(s, figures)
           y == ShownIn(t, figures)
           l == s \o t
           z == ShownIn(l, figures)
           both == x \o y
<1>1. /\ l \in Seq(B) /\ Len(l) = Len(s) + Len(t) /\ Len(s) \in Nat /\ Len(t) \in Nat
      /\ DOMAIN s = 1 .. Len(s) /\ DOMAIN t = 1 .. Len(t) /\ DOMAIN l = 1 .. Len(s) + Len(t)
      /\ \A i \in 1 .. Len(s) : l[i] = s[i]
      /\ \A i \in 1 .. Len(t) : l[Len(s) + i] = t[i]
  BY Joined
<1>2. x \in Seq(E) /\ Len(x) = Len(s) /\ \A i \in DOMAIN s : x[i] = ShownAs(s[i], figures)
  BY ShownSeq
<1>3. y \in Seq(E) /\ Len(y) = Len(t) /\ \A i \in DOMAIN t : y[i] = ShownAs(t[i], figures)
  BY ShownSeq
<1> HIDE DEF l
<1>4. z \in Seq(E) /\ Len(z) = Len(l) /\ \A i \in DOMAIN l : z[i] = ShownAs(l[i], figures)
  <2>1. l \in Seq(B)
    BY <1>1
  <2> QED BY ONLY <2>1, ShownSeq
<1> HIDE DEF E, x, y, z
<1>5. /\ both \in Seq(E) /\ Len(both) = Len(s) + Len(t)
      /\ \A i \in 1 .. Len(s) : both[i] = x[i]
      /\ \A i \in 1 .. Len(t) : both[Len(s) + i] = y[i]
  <2>1. /\ x \o y \in Seq(E) /\ Len(x \o y) = Len(x) + Len(y)
        /\ \A i \in 1 .. Len(x) : (x \o y)[i] = x[i]
        /\ \A i \in 1 .. Len(y) : (x \o y)[Len(x) + i] = y[i]
    <3>1. x \in Seq(E) /\ y \in Seq(E)
      BY <1>2, <1>3
    <3> QED BY ONLY <3>1, Joined
  <2> QED BY <1>2, <1>3, <2>1
<1> HIDE DEF both
<1>6. ASSUME NEW i \in 1 .. Len(s) + Len(t) PROVE z[i] = both[i]
  <2>1. CASE i <= Len(s)
    <3>1. i \in 1 .. Len(s)
      BY <1>1, <2>1
    <3> QED BY <1>1, <1>2, <1>4, <1>5, <3>1
  <2>2. CASE ~(i <= Len(s))
    <3> DEFINE k == i - Len(s)
    <3>1. k \in 1 .. Len(t) /\ i = Len(s) + k
      BY <1>1, <2>2
    <3> HIDE DEF k
    <3>2. l[i] = t[k] /\ both[i] = y[k] /\ y[k] = ShownAs(t[k], figures)
      BY <1>1, <1>3, <1>5, <3>1
    <3> QED BY <1>1, <1>4, <3>2
  <2> QED BY <2>1, <2>2
<1>7. z = both
  <2> DEFINE N == Len(s) + Len(t)
  <2>1. /\ N \in Nat /\ z \in Seq(E) /\ both \in Seq(E) /\ Len(z) = N /\ Len(both) = N
        /\ \A i \in 1 .. N : z[i] = both[i]
    BY <1>1, <1>4, <1>5, <1>6
  <2> HIDE DEF N
  <2>2. z = [i \in 1 .. N |-> z[i]] /\ both = [i \in 1 .. N |-> both[i]]
    BY <2>1
  <2> QED BY <2>1, <2>2
<1> QED BY <1>7 DEF z, both, x, y, l

(* The document twin shows the walk's blocks with the placed images in       *)
(* their places, without the figures of the model that a marker's figure     *)
(* replaces, and the rest at the end.                                        *)
Placing(d, w) ==
  {p \in DOMAIN w.out : w.out[p].kind = "figure" => w.out[p].ref \notin Takes(d, w.t.images)}
ShownOut(d, w) == Settled(ShownIn(w.out, d.figures), w.t.images)
FiguresOf(m, files) == [k \in DOMAIN files |-> Figure(UrlOf(m, files[k]))]

LEMMA DocShows ==
  ASSUME NEW m \in Seq(Upload), NEW d, d \in Docs(InBlocks(DOMAIN d.figures)),
         NEW w, Walked(m, DOMAIN d.figures, w)
  PROVE  Shown(PlaceAll(d, m, w).doc)
           = Filtered(ShownOut(d, w), Placing(d, w)) \o FiguresOf(m, Rest(d, m, w.t))
<1> DEFINE old == Len(d.figures)
           R == DOMAIN d.figures
           images == w.t.images
           rest == Rest(d, m, w.t)
           urls == [k \in DOMAIN rest |-> UrlOf(m, rest[k])]
           new == NewFigures(m, d, w)
           e == WithNew(m, d, w)
           remove == Takes(d, images)
           mid == Middle(d, w)
           ends == Ends(m, d, w)
           all == d.figures \o new
           S == Stays(e, remove)
           B == CleanBlocks(Int)
<1>1. d.figures \in Seq(Url) /\ old \in Nat /\ R = 1 .. old /\ R \in SUBSET Int
  <2>1. d.figures \in Seq(Url)
    BY DocIs
  <2> QED BY <2>1
<1>2. /\ Tracked(m, w.t) /\ images \in Seq(Url) /\ w.out \in Seq(OutBlocks(R))
      /\ \A p \in DOMAIN w.out : w.out[p].kind = "placed" => w.out[p].ref \in DOMAIN images
  BY DEF Walked, Tracked, Trackers, Walks
<1>3. Len(images) \in Nat /\ DOMAIN images = 1 .. Len(images)
  BY <1>2
<1>4. rest \in Seq(Marker) /\ \A k \in DOMAIN rest : UrlOf(m, rest[k]) \in Url
  BY <1>2, RestIs
<1>5. Len(rest) \in Nat /\ DOMAIN rest = 1 .. Len(rest)
  BY <1>4
<1> HIDE DEF rest
<1>6. urls \in Seq(Url) /\ Len(urls) = Len(rest) /\ DOMAIN urls = 1 .. Len(rest)
  BY <1>4, <1>5
<1>7. Given(m, d, w)
  BY <1>1, GivenIs
<1>8. /\ PlaceAll(d, m, w).doc = reindexFigures(e, remove, new)
      /\ mid \in Seq(B) /\ DOMAIN mid = DOMAIN w.out
      /\ \A p \in DOMAIN w.out :
           mid[p] = IF w.out[p].kind = "placed" THEN Figure(old + w.out[p].ref) ELSE w.out[p]
      /\ ends \in Seq(B) /\ new \in Seq(Url)
      /\ e \in Docs(B) /\ remove \in SUBSET DOMAIN d.figures
  BY <1>7 DEF Given
<1>9. e.blocks = mid \o ends /\ e.figures = d.figures
  BY DEF WithNew
<1>10. ends = [k \in 1 .. Len(rest) |-> Figure(old + Len(images) + k)]
  BY <1>5 DEF Ends, rest
<1>11. new = images \o urls
  BY DEF NewFigures, rest
<1>12. \A x : Figure(x).kind = "figure" /\ Figure(x).ref = x
  BY DEF Figure
<1> HIDE DEF e, mid, ends, new, remove, old, images, urls, R
<1>13. /\ Len(new) = Len(images) + Len(rest)
       /\ \A k \in 1 .. Len(images) : new[k] = images[k]
       /\ \A k \in 1 .. Len(rest) : new[Len(images) + k] = urls[k]
  <2>1. LET l == images \o urls
        IN  /\ Len(l) = Len(images) + Len(urls) /\ DOMAIN l = 1 .. Len(images) + Len(urls)
            /\ \A i \in 1 .. Len(images) : l[i] = images[i]
            /\ \A i \in 1 .. Len(urls) : l[Len(images) + i] = urls[i]
    <3>1. images \in Seq(Url) /\ urls \in Seq(Url)
      BY <1>2, <1>6
    <3> QED BY ONLY <3>1, Joined
  <2> QED BY <1>6, <1>11, <2>1
<1>14. /\ \A i \in 1 .. old : all[i] = d.figures[i]
       /\ \A i \in 1 .. Len(new) : all[old + i] = new[i]
  BY <1>1, <1>8, Joined DEF old
<1> HIDE DEF all
<1>15. /\ \A k \in 1 .. Len(images) : all[old + k] = images[k]
       /\ \A k \in 1 .. Len(rest) : all[old + Len(images) + k] = UrlOf(m, rest[k])
  <2>1. \A k \in 1 .. Len(images) : k \in 1 .. Len(new)
    BY <1>3, <1>5, <1>13
  <2>2. \A k \in 1 .. Len(rest) : /\ Len(images) + k \in 1 .. Len(new)
                                   /\ old + (Len(images) + k) = old + Len(images) + k
    BY <1>1, <1>3, <1>5, <1>13
  <2>3. \A k \in 1 .. Len(rest) : urls[k] = UrlOf(m, rest[k])
    BY <1>5 DEF urls
  <2> QED BY <1>13, <1>14, <2>1, <2>2, <2>3
<1>16. ASSUME NEW p \in DOMAIN w.out, w.out[p].kind = "figure"
       PROVE  w.out[p].ref \in 1 .. old
  <2>1. w.out[p] \in OutBlocks(R)
    BY <1>2
  <2> QED BY <1>1, <1>16, <2>1, OutBlockIs
<1>17. \A p \in DOMAIN w.out : w.out[p].kind = "placed" => w.out[p].ref \in 1 .. Len(images)
  BY <1>2, <1>3
<1>18. /\ DOMAIN mid = 1 .. Len(mid) /\ Len(mid) \in Nat
       /\ DOMAIN ends = 1 .. Len(rest) /\ Len(ends) = Len(rest)
       /\ DOMAIN e.blocks = 1 .. Len(mid) + Len(rest)
       /\ \A i \in 1 .. Len(mid) : e.blocks[i] = mid[i]
       /\ \A k \in 1 .. Len(rest) : e.blocks[Len(mid) + k] = ends[k]
  <2>1. DOMAIN ends = 1 .. Len(rest)
    BY <1>10
  <2>2. Len(ends) = Len(rest)
    BY <1>5, <1>8, <2>1
  <2>3. LET l == mid \o ends
        IN  /\ Len(l) = Len(mid) + Len(ends) /\ DOMAIN l = 1 .. Len(mid) + Len(ends)
            /\ \A i \in 1 .. Len(mid) : l[i] = mid[i]
            /\ \A i \in 1 .. Len(ends) : l[Len(mid) + i] = ends[i]
    <3>1. mid \in Seq(B) /\ ends \in Seq(B)
      BY <1>8
    <3> HIDE DEF B
    <3> QED BY ONLY <3>1, Joined
  <2>4. DOMAIN mid = 1 .. Len(mid) /\ Len(mid) \in Nat
    BY <1>8
  <2> QED BY <1>9, <2>1, <2>2, <2>3, <2>4
<1>19. \A i \in DOMAIN e.blocks : i \in DOMAIN mid \/ \E k \in 1 .. Len(rest) : i = Len(mid) + k
  <2> SUFFICES ASSUME NEW i \in DOMAIN e.blocks, i \notin DOMAIN mid
               PROVE  \E k \in 1 .. Len(rest) : i = Len(mid) + k
    OBVIOUS
  <2>1. i - Len(mid) \in 1 .. Len(rest) /\ i = Len(mid) + (i - Len(mid))
    BY <1>5, <1>18
  <2> QED BY <2>1
(* What is kept: the walk's blocks but the replaced figures, and the ends.   *)
<1>20. S = Placing(d, w) \union {Len(mid) + k : k \in DOMAIN ends}
  <2>1. ASSUME NEW p \in DOMAIN mid PROVE p \in S <=> p \in Placing(d, w)
    <3>1. p \in DOMAIN w.out /\ p \in DOMAIN e.blocks /\ e.blocks[p] = mid[p]
      <4>1. p \in DOMAIN e.blocks
        BY <1>5, <1>18
      <4> QED BY <1>8, <1>18, <4>1
    <3>2. p \in S <=> (mid[p].kind = "figure" => mid[p].ref \notin remove)
      BY <3>1 DEF Stays
    <3>3. p \in Placing(d, w) <=> (w.out[p].kind = "figure" => w.out[p].ref \notin remove)
      BY <3>1 DEF Placing, remove, images
    <3>4. CASE w.out[p].kind = "placed"
      <4>1. old + w.out[p].ref \notin 1 .. old
        BY <1>1, <1>3, <1>17, <3>1, <3>4
      <4>2. mid[p].ref \notin remove
        BY <1>1, <1>8, <1>12, <3>1, <3>4, <4>1 DEF R
      <4> QED BY <3>2, <3>3, <3>4, <4>2
    <3>5. CASE w.out[p].kind # "placed"
      BY <1>8, <3>1, <3>2, <3>3, <3>5
    <3> QED BY <3>4, <3>5
  <2>2. ASSUME NEW k \in 1 .. Len(rest) PROVE Len(mid) + k \in S
    <3>1. Len(mid) + k \in DOMAIN e.blocks
      BY <1>5, <1>18
    <3>2. e.blocks[Len(mid) + k] = Figure(old + Len(images) + k)
      BY <1>10, <1>18
    <3>3. old + Len(images) + k \notin 1 .. old
      BY <1>1, <1>3, <1>5
    <3>4. old + Len(images) + k \notin remove
      BY <1>1, <1>8, <3>3 DEF R
    <3> QED BY <1>12, <3>1, <3>2, <3>4 DEF Stays
  <2>3. \A i \in S : i \in DOMAIN e.blocks
    BY DEF Stays
  <2>4. \A p \in Placing(d, w) : p \in DOMAIN mid
    BY <1>8 DEF Placing
  <2> HIDE DEF S
  <2>5. \A i \in S : i \in Placing(d, w) \union {Len(mid) + k : k \in DOMAIN ends}
    BY <1>18, <1>19, <2>1, <2>3
  <2>6. \A i \in Placing(d, w) \union {Len(mid) + k : k \in DOMAIN ends} : i \in S
    BY <1>18, <2>1, <2>2, <2>4
  <2> QED BY <2>5, <2>6
<1>21. \A i \in Pictures(e.blocks) : e.blocks[i].ref \in 1 .. Len(e.figures) + Len(new)
  <2> SUFFICES ASSUME NEW i \in DOMAIN e.blocks, e.blocks[i].kind = "figure"
               PROVE  e.blocks[i].ref \in 1 .. Len(e.figures) + Len(new)
    BY DEF Pictures
  <2>1. Len(e.figures) = old /\ Len(new) = Len(images) + Len(rest)
    BY <1>9, <1>13 DEF old
  <2>2. CASE i \in DOMAIN mid
    <3>1. i \in DOMAIN w.out /\ e.blocks[i] = mid[i]
      BY <1>8, <1>18, <2>2
    <3>2. CASE w.out[i].kind = "placed"
      <4>1. e.blocks[i].ref = old + w.out[i].ref /\ w.out[i].ref \in 1 .. Len(images)
        BY <1>8, <1>12, <1>17, <3>1, <3>2
      <4> QED BY <1>1, <1>3, <1>5, <2>1, <4>1
    <3>3. CASE w.out[i].kind # "placed"
      <4>1. e.blocks[i] = w.out[i]
        BY <1>8, <3>1, <3>3
      <4>2. e.blocks[i].ref \in 1 .. old
        BY <1>16, <3>1, <4>1
      <4> QED BY <1>1, <1>3, <1>5, <2>1, <4>2
    <3> QED BY <3>2, <3>3
  <2>3. ASSUME NEW k \in 1 .. Len(rest), i = Len(mid) + k
        PROVE  e.blocks[i].ref \in 1 .. Len(e.figures) + Len(new)
    <3>1. e.blocks[i].ref = old + Len(images) + k
      BY <1>10, <1>12, <1>18, <2>3
    <3> QED BY <1>1, <1>3, <1>5, <2>1, <3>1
  <2> QED BY <1>19, <2>2, <2>3
<1>22. Shown(reindexFigures(e, remove, new)) = Filtered(ShownIn(e.blocks, all), S)
  <2>1. remove \in SUBSET DOMAIN e.figures
    BY <1>8, <1>9
  <2>2. Shown(reindexFigures(e, remove, new))
          = Filtered(ShownIn(e.blocks, e.figures \o new), Stays(e, remove))
    BY <1>8, <1>21, <2>1, ReindexShown
  <2> QED BY <1>9, <2>2 DEF all
<1>23. ShownIn(e.blocks, all) = ShownIn(mid, all) \o ShownIn(ends, all)
  BY <1>8, <1>9, ShownJoins
<1>24. ShownIn(mid, all) = ShownOut(d, w)
  <2> DEFINE out == ShownIn(w.out, d.figures)
  <2>1. DOMAIN out = DOMAIN w.out /\ \A p \in DOMAIN w.out : out[p] = ShownAs(w.out[p], d.figures)
    BY DEF ShownIn
  <2> HIDE DEF out
  <2>2. ShownOut(d, w) = [p \in DOMAIN w.out |->
                            IF out[p].kind = "placed" THEN Figure(images[out[p].ref]) ELSE out[p]]
    BY <2>1 DEF ShownOut, Settled, out, images
  <2>3. ASSUME NEW p \in DOMAIN w.out
        PROVE  ShownAs(mid[p], all)
                 = IF out[p].kind = "placed" THEN Figure(images[out[p].ref]) ELSE out[p]
    <3>1. CASE w.out[p].kind = "placed"
      <4>1. mid[p] = Figure(old + w.out[p].ref) /\ all[old + w.out[p].ref] = images[w.out[p].ref]
        BY <1>8, <1>15, <1>17, <3>1
      <4>2. out[p] = w.out[p]
        BY <2>1, <3>1 DEF ShownAs
      <4>3. ShownAs(mid[p], all) = Figure(all[old + w.out[p].ref])
        BY <4>1, ShownAsIs
      <4> QED BY <3>1, <4>1, <4>2, <4>3
    <3>2. CASE w.out[p].kind = "figure"
      <4>1. mid[p] = w.out[p] /\ all[w.out[p].ref] = d.figures[w.out[p].ref]
        BY <1>8, <1>14, <1>16, <3>2
      <4>2. out[p] = Figure(d.figures[w.out[p].ref])
        BY <2>1, <3>2 DEF ShownAs
      <4>3. ShownAs(mid[p], all) = Figure(d.figures[w.out[p].ref])
        BY <3>2, <4>1 DEF ShownAs
      <4>4. out[p].kind = "figure"
        BY <1>12, <4>2
      <4> QED BY <4>2, <4>3, <4>4
    <3>3. CASE w.out[p].kind \notin {"placed", "figure"}
      <4>1. mid[p] = w.out[p] /\ out[p] = w.out[p]
        BY <1>8, <2>1, <3>3 DEF ShownAs
      <4> QED BY <3>3, <4>1 DEF ShownAs
    <3> QED BY <3>1, <3>2, <3>3
  <2>4. ShownIn(mid, all) = [p \in DOMAIN w.out |-> ShownAs(mid[p], all)]
    BY <1>8 DEF ShownIn
  <2> QED BY <2>2, <2>3, <2>4
<1>25. ShownIn(ends, all) = FiguresOf(m, rest)
  <2>1. ASSUME NEW k \in 1 .. Len(rest) PROVE ShownAs(ends[k], all) = Figure(UrlOf(m, rest[k]))
    <3>1. ends[k] = Figure(old + Len(images) + k)
      BY <1>10
    <3>2. ShownAs(ends[k], all) = Figure(all[old + Len(images) + k])
      BY <3>1, ShownAsIs
    <3> QED BY <1>15, <3>2
  <2> QED BY <1>5, <1>18, <2>1 DEF ShownIn, FiguresOf
<1>26. Filtered(ShownIn(mid, all) \o ShownIn(ends, all), S)
         = Filtered(ShownIn(mid, all), Placing(d, w)) \o ShownIn(ends, all)
  <2> DEFINE E == {ShownAs(b, all) : b \in B}
             x == ShownIn(mid, all)
             y == ShownIn(ends, all)
  <2>1. x \in Seq(E) /\ Len(x) = Len(mid) /\ DOMAIN x = DOMAIN mid
    BY <1>8, ShownSeq
  <2>2. y \in Seq(E) /\ DOMAIN y = DOMAIN ends
    BY <1>8, ShownSeq
  <2>3. Placing(d, w) \in SUBSET DOMAIN x
    BY <1>8, <2>1 DEF Placing
  <2> HIDE DEF x, y, E, S
  <2>4. S = Placing(d, w) \union {Len(x) + k : k \in DOMAIN y}
    BY <1>20, <2>1, <2>2
  <2> QED BY <2>1, <2>2, <2>3, <2>4, FilterJoins DEF x, y
<1> QED BY <1>8, <1>22, <1>23, <1>24, <1>25, <1>26 DEF rest

-----------------------------------------------------------------------------
(* The HTML twin: what is appended at the end.                               *)
LEMMA JoinLonger ==
  ASSUME NEW E, NEW s \in Seq(E), NEW t \in Seq(E), NEW e \in E
  PROVE  s \o Append(t, e) = Append(s \o t, e) /\ s \o << >> = s
  OBVIOUS

LEMMA FiguresLonger ==
  ASSUME NEW m, NEW s \in Seq(Marker), NEW f \in Marker
  PROVE  FiguresOf(m, Append(s, f)) = Append(FiguresOf(m, s), Figure(UrlOf(m, f)))
<1> DEFINE n == Len(s)
           a == FiguresOf(m, s)
           b == Figure(UrlOf(m, f))
           E == {Figure(UrlOf(m, x)) : x \in Marker}
<1>1. /\ n \in Nat /\ DOMAIN s = 1 .. n /\ DOMAIN Append(s, f) = 1 .. n + 1
      /\ \A i \in 1 .. n : Append(s, f)[i] = s[i] /\ s[i] \in Marker
      /\ Append(s, f)[n + 1] = f
  OBVIOUS
<1>2. a \in Seq(E) /\ Len(a) = n /\ b \in E /\ \A i \in 1 .. n : a[i] = Figure(UrlOf(m, s[i]))
  <2>1. a = [i \in 1 .. n |-> Figure(UrlOf(m, s[i]))]
    BY <1>1 DEF FiguresOf
  <2>2. \A i \in 1 .. n : Figure(UrlOf(m, s[i])) \in E
    BY <1>1
  <2>3. b \in E
    OBVIOUS
  <2> HIDE DEF a, E, n, b
  <2> QED BY <1>1, <2>1, <2>2, <2>3
<1>3. /\ DOMAIN Append(a, b) = 1 .. n + 1 /\ Append(a, b)[n + 1] = b
      /\ \A i \in 1 .. n : Append(a, b)[i] = a[i]
      /\ Append(a, b) = [i \in 1 .. n + 1 |-> Append(a, b)[i]]
  <2> HIDE DEF a, b, E
  <2>1. /\ Append(a, b) \in Seq(E) /\ Len(Append(a, b)) = n + 1
        /\ DOMAIN Append(a, b) = 1 .. n + 1 /\ Append(a, b)[n + 1] = b
        /\ \A i \in 1 .. n : Append(a, b)[i] = a[i]
    BY <1>1, <1>2, Longer
  <2> DEFINE l == Append(a, b)
  <2>2. l \in Seq(E) /\ Len(l) = n + 1
    BY <2>1
  <2> HIDE DEF l
  <2>3. l = [i \in 1 .. n + 1 |-> l[i]]
    BY ONLY <2>2
  <2> QED BY <2>1, <2>3 DEF l
<1>4. FiguresOf(m, Append(s, f)) = [i \in 1 .. n + 1 |-> Figure(UrlOf(m, Append(s, f)[i]))]
  BY <1>1 DEF FiguresOf
<1>5. \A i \in 1 .. n + 1 : Figure(UrlOf(m, Append(s, f)[i])) = Append(a, b)[i]
  <2>1. \A i \in 1 .. n + 1 : i \in 1 .. n \/ i = n + 1
    BY <1>1
  <2>2. \A i \in 1 .. n : Figure(UrlOf(m, Append(s, f)[i])) = Append(a, b)[i]
    BY <1>1, <1>2, <1>3
  <2>3. Figure(UrlOf(m, Append(s, f)[n + 1])) = Append(a, b)[n + 1]
    BY <1>1, <1>3
  <2> QED BY <2>1, <2>2, <2>3
<1> HIDE DEF a, b, n, E
<1> QED BY <1>3, <1>4, <1>5 DEF a, b

LEMMA ImagesLonger ==
  ASSUME NEW E, NEW s \in Seq(E), NEW u, Figure(u) \in E
  PROVE  Images(Append(s, Figure(u))) = Images(s) \union {u}
<1> DEFINE t == Append(s, Figure(u))
           n == Len(s)
<1>1. /\ n \in Nat /\ DOMAIN s = 1 .. n /\ DOMAIN t = 1 .. n + 1
      /\ \A i \in 1 .. n : t[i] = s[i]
      /\ t[n + 1] = Figure(u)
  BY Longer
<1>2. Figure(u).kind = "figure" /\ Figure(u).ref = u
  BY DEF Figure
<1>3. \A i \in 1 .. n + 1 : i \in 1 .. n \/ i = n + 1
  BY <1>1
<1>4. Pictures(t) = Pictures(s) \union {n + 1}
  BY <1>1, <1>2, <1>3 DEF Pictures
<1>5. \A i \in Pictures(s) : t[i].ref = s[i].ref
  BY <1>1 DEF Pictures
<1> HIDE DEF t
<1>6. Images(t) = {s[i].ref : i \in Pictures(s)} \union {u}
  BY <1>1, <1>2, <1>4, <1>5 DEF Images
<1> QED BY <1>6 DEF t, Images

Missing(m, base, files) == {i \in DOMAIN files : UrlOf(m, files[i]) \notin Images(base)}

(* Images that are not there yet, each of another name, go to the end in     *)
(* their order.                                                              *)
LEMMA EndsInHtml ==
  ASSUME NEW m, NEW B, NEW base \in Seq(B), NEW files \in Seq(Marker),
         \A f \in Marker : f \in Range(files) => Figure(UrlOf(m, f)) \in B,
         \A i, j \in DOMAIN files : UrlOf(m, files[i]) = UrlOf(m, files[j]) => i = j
  PROVE  EndedBy(m, base, files)
           = base \o FiguresOf(m, Filtered(files, Missing(m, base, files)))
<1> DEFINE N == Len(files)
           url == [i \in DOMAIN files |-> UrlOf(m, files[i])]
           P == {i \in DOMAIN files : url[i] \notin Images(base)}
           Kept(n) == Filtered(files, P \intersect (1 .. n))
<1>1. /\ N \in Nat /\ DOMAIN files = 1 .. N
      /\ \A i \in 1 .. N : files[i] \in Marker /\ files[i] \in Range(files)
  BY DEF Range
<1>2. /\ P \in SUBSET (1 .. N) /\ \A i \in 1 .. N : url[i] = UrlOf(m, files[i])
      /\ P \in SUBSET DOMAIN files
  BY <1>1
<1>3. /\ \A i \in 1 .. N : i \in P <=> url[i] \notin Images(base)
      /\ P = Missing(m, base, files)
  BY <1>1 DEF Missing
<1> HIDE DEF N, url, P
<1>4. PICK r : EndSteps(r, N, files, m, base)
  BY <1>1, EndRun
<1>5. \A n \in 0 .. N : Kept(n) \in Seq(Marker) /\ \A k \in DOMAIN Kept(n) : Kept(n)[k] \in Range(files)
  <2> SUFFICES ASSUME NEW n \in 0 .. N
               PROVE  Kept(n) \in Seq(Marker) /\ \A k \in DOMAIN Kept(n) : Kept(n)[k] \in Range(files)
    OBVIOUS
  <2> DEFINE Q == P \intersect (1 .. n)
  <2>1. Q \in SUBSET DOMAIN files
    BY <1>2
  <2> HIDE DEF Q
  <2>2. /\ Filtered(files, Q) \in Seq(Marker)
        /\ \A k \in DOMAIN Filtered(files, Q) :
             Filtered(files, Q)[k] = files[Nth(Q, k)] /\ Nth(Q, k) \in Q
    BY <2>1, FilterKeeps
  <2>3. \A k \in DOMAIN Filtered(files, Q) : Filtered(files, Q)[k] \in Range(files)
    BY <1>1, <2>1, <2>2
  <2> QED BY <2>2, <2>3 DEF Q
<1>6. \A n \in 0 .. N : FiguresOf(m, Kept(n)) \in Seq(B)
  <2> SUFFICES ASSUME NEW n \in 0 .. N PROVE FiguresOf(m, Kept(n)) \in Seq(B)
    OBVIOUS
  <2> DEFINE kept == Kept(n)
  <2>1. kept \in Seq(Marker) /\ \A k \in DOMAIN kept : kept[k] \in Range(files)
    BY <1>5
  <2> HIDE DEF kept
  <2>2. DOMAIN kept = 1 .. Len(kept) /\ Len(kept) \in Nat /\ \A k \in DOMAIN kept : kept[k] \in Marker
    BY <2>1
  <2>3. \A k \in 1 .. Len(kept) : Figure(UrlOf(m, kept[k])) \in B
    BY <2>1, <2>2
  <2>4. FiguresOf(m, kept) \in Seq(B)
    BY <2>2, <2>3 DEF FiguresOf
  <2> QED BY <2>4 DEF kept
<1> DEFINE Right(n) ==
             /\ r[n] = base \o FiguresOf(m, Kept(n))
             /\ Images(r[n]) = Images(base) \union {url[j] : j \in P \intersect (1 .. n)}
           S == {n \in 0 .. N : Right(n)}
<1>7. 0 \in S
  <2>1. P \intersect (1 .. 0) = {}
    OBVIOUS
  <2>2. Kept(0) = << >>
    <3>1. {} \in SUBSET DOMAIN files
      OBVIOUS
    <3>2. Filtered(files, {}) \in Seq(Marker) /\ Len(Filtered(files, {})) = 0
      BY <3>1, FilterKeeps, FS_EmptySet
    <3>3. Filtered(files, {}) = << >>
      BY <3>2
    <3> QED BY <2>1, <3>3
  <2> HIDE DEF Kept
  <2>3. FiguresOf(m, << >>) = << >>
    BY DEF FiguresOf
  <2>4. base \o << >> = base
    OBVIOUS
  <2>5. r[0] = base
    BY <1>4 DEF EndSteps
  <2>6. Right(0)
    BY <2>1, <2>2, <2>3, <2>4, <2>5
  <2> HIDE DEF Right
  <2> QED BY <1>1, <2>6
<1>8. ASSUME NEW n \in 1 .. N, n - 1 \in S PROVE n \in S
  <2> DEFINE u == url[n]
             before == r[n - 1]
             shown == FiguresOf(m, Kept(n - 1))
             first == P \intersect (1 .. n - 1)
  <2>1. /\ before = base \o shown
        /\ Images(before) = Images(base) \union {url[j] : j \in first}
        /\ r[n] = AtEnd(before, u) /\ n - 1 \in 0 .. N /\ n \in 0 .. N
        /\ u = UrlOf(m, files[n]) /\ files[n] \in Marker /\ files[n] \in Range(files)
    <3>1. Right(n - 1) /\ n - 1 \in 0 .. N
      BY <1>8
    <3>2. r[n] = AtEnd(before, UrlOf(m, files[n]))
      BY <1>4 DEF EndSteps
    <3> HIDE DEF Kept
    <3> QED BY <1>1, <1>2, <3>1, <3>2
  <2>2. \A k \in P \intersect (1 .. n) : k \in first \/ (k = n /\ n \in P)
    BY <1>1
  <2>3. first \subseteq P \intersect (1 .. n) /\ (n \in P => n \in P \intersect (1 .. n))
    BY <1>1
  <2>4. /\ n \in P => Kept(n) = Append(Kept(n - 1), files[n])
        /\ n \notin P => Kept(n) = Kept(n - 1)
    <3> DEFINE A == P \intersect (1 .. n)
               C == P \intersect (1 .. n - 1)
    <3>1. n \notin P => A = C
      <4>1. \A k \in 1 .. n : k \in 1 .. n - 1 \/ k = n
        OBVIOUS
      <4>2. \A k \in 1 .. n - 1 : k \in 1 .. n
        OBVIOUS
      <4> QED BY <4>1, <4>2
    <3>2. ASSUME n \in P PROVE Filtered(files, A) = Append(Filtered(files, C), files[n])
      <4>1. A \in SUBSET DOMAIN files /\ n \in A /\ (\A k \in A : k <= n) /\ C = A \ {n}
        BY <1>2, <3>2
      <4> HIDE DEF A, C
      <4> QED BY <4>1, FilterStep
    <3> QED BY <3>1, <3>2
  <2>5. Kept(n - 1) \in Seq(Marker) /\ shown \in Seq(B)
    BY <1>5, <1>6, <2>1
  <2>6. Figure(u) \in B
    BY <2>1
  <2> HIDE DEF Kept, before, shown, first, S, u
  <2>7. CASE n \in P
    <3>1. u \notin Images(before)
      <4> SUFFICES ASSUME u \in Images(before) PROVE FALSE
        OBVIOUS
      <4>1. u \notin Images(base)
        BY <1>3, <2>7 DEF u
      <4>2. PICK j \in first : url[j] = u
        BY <2>1, <4>1
      <4>3. j \in DOMAIN files /\ n \in DOMAIN files /\ j # n
        BY <1>1 DEF first
      <4> QED BY <1>1, <1>2, <2>1, <4>2, <4>3
    <3>2. r[n] = Append(before, Figure(u))
      BY <2>1, <3>1 DEF AtEnd
    <3>3. FiguresOf(m, Kept(n)) = Append(shown, Figure(u))
      BY <2>1, <2>4, <2>5, <2>7, FiguresLonger DEF shown
    <3>4. Append(before, Figure(u)) = base \o Append(shown, Figure(u))
      <4>1. base \in Seq(B)
        OBVIOUS
      <4>2. base \o Append(shown, Figure(u)) = Append(base \o shown, Figure(u))
        BY ONLY <2>5, <2>6, <4>1, JoinLonger
      <4> QED BY <2>1, <4>2
    <3>5. before \in Seq(B)
      BY <2>1, <2>5, Joined
    <3>6. Images(r[n]) = Images(before) \union {u}
      BY <2>6, <3>2, <3>5, ImagesLonger
    <3>7. Images(r[n]) = Images(base) \union {url[j] : j \in P \intersect (1 .. n)}
      <4>1. {url[j] : j \in P \intersect (1 .. n)} = {url[j] : j \in first} \union {u}
        BY <2>2, <2>3, <2>7 DEF u
      <4> QED BY <2>1, <3>6, <4>1
    <3>8. Right(n)
      BY <3>2, <3>3, <3>4, <3>7
    <3> HIDE DEF Right
    <3> QED BY <2>1, <3>8 DEF S
  <2>8. CASE n \notin P
    <3>1. u \in Images(before)
      BY <1>3, <2>1, <2>8 DEF u
    <3>2. r[n] = before /\ Kept(n) = Kept(n - 1)
      BY <2>1, <2>4, <2>8, <3>1 DEF AtEnd
    <3>3. P \intersect (1 .. n) = first
      BY <2>2, <2>3, <2>8
    <3>4. Right(n)
      BY <2>1, <3>2, <3>3 DEF shown
    <3> HIDE DEF Right
    <3> QED BY <2>1, <3>4 DEF S
  <2> QED BY <2>7, <2>8
<1>9. Right(N)
  <2> HIDE DEF S, Right
  <2>1. \A n \in 0 .. N : n \in S
    BY <1>1, <1>7, <1>8, InductionUpTo
  <2>2. N \in S
    BY <1>1, <2>1
  <2> QED BY <2>2 DEF S
<1>10. EndedBy(m, base, files) = r[N] /\ P \intersect (1 .. N) = P
  BY <1>2, <1>4 DEF EndSteps
<1> HIDE DEF S
<1> QED BY <1>3, <1>9, <1>10

-----------------------------------------------------------------------------
(* The twins agree.                                                          *)
NamesApart(m) == \A i, j \in DOMAIN m : m[i].url = m[j].url => m[i].file = m[j].file

(* No two uploads have one output name: then no two files that match do.     *)
LEMMA ApartIs ==
  ASSUME NEW m \in Seq(Upload), NamesApart(m), NEW f, NEW g, Match(m, f) # 0, Match(m, g) # 0,
         UrlOf(m, f) = UrlOf(m, g)
  PROVE  f = g
<1>1. Match(m, f) \in DOMAIN m /\ m[Match(m, f)].file = f
  BY MatchIs
<1>2. Match(m, g) \in DOMAIN m /\ m[Match(m, g)].file = g
  BY MatchIs
<1>3. m[Match(m, f)].url = m[Match(m, g)].url
  BY DEF UrlOf
<1> HIDE DEF Match
<1> QED BY <1>1, <1>2, <1>3 DEF NamesApart

LEMMA SettledStays ==
  ASSUME NEW E, NEW s \in Seq(E), NEW S \in SUBSET DOMAIN s, NEW refs
  PROVE  Settled(Filtered(s, S), refs) = Filtered(Settled(s, refs), S)
<1> DEFINE C == Cardinality(S)
           a == Filtered(s, S)
           x == Settled(s, refs)
<1>1. a \in Seq(E) /\ Len(a) = C /\ \A n \in DOMAIN a : a[n] = s[Nth(S, n)] /\ Nth(S, n) \in S
  BY FilterKeeps
<1>2. a = [n \in 1 .. C |-> s[Nth(S, n)]] /\ Filtered(x, S) = [n \in 1 .. C |-> x[Nth(S, n)]]
  BY DEF Filtered, Nth, Rank, Upto
<1>3. /\ DOMAIN a = 1 .. C
      /\ \A p \in DOMAIN s : x[p] = (IF s[p].kind = "placed" THEN Figure(refs[s[p].ref]) ELSE s[p])
  BY <1>2 DEF Settled
<1> HIDE DEF a, x, C
<1>4. Settled(a, refs)
        = [n \in 1 .. C |-> IF a[n].kind = "placed" THEN Figure(refs[a[n].ref]) ELSE a[n]]
  BY <1>3 DEF Settled
<1>5. \A n \in 1 .. C :
        x[Nth(S, n)] = IF a[n].kind = "placed" THEN Figure(refs[a[n].ref]) ELSE a[n]
  <2> SUFFICES ASSUME NEW n \in 1 .. C
               PROVE  x[Nth(S, n)] = IF a[n].kind = "placed" THEN Figure(refs[a[n].ref]) ELSE a[n]
    OBVIOUS
  <2>1. a[n] = s[Nth(S, n)] /\ Nth(S, n) \in DOMAIN s
    BY <1>1, <1>3
  <2> QED BY <1>3, <2>1
<1> QED BY <1>2, <1>4, <1>5 DEF a, x

(* The images of a list are those of its figures.                            *)
LEMMA ImagesStay ==
  ASSUME NEW E, NEW s \in Seq(E), NEW S \in SUBSET DOMAIN s, NEW u
  PROVE  u \in Images(Filtered(s, S)) <=> \E p \in S : s[p].kind = "figure" /\ s[p].ref = u
<1> DEFINE a == Filtered(s, S)
<1>1. /\ \A n \in DOMAIN a : a[n] = s[Nth(S, n)] /\ Nth(S, n) \in S
      /\ \A p \in S : \E n \in DOMAIN a : Nth(S, n) = p
  BY FilterKeeps
<1> HIDE DEF a
<1>2. u \in Images(a) <=> \E n \in DOMAIN a : a[n].kind = "figure" /\ a[n].ref = u
  BY DEF Images, Pictures
<1>3. (\E n \in DOMAIN a : a[n].kind = "figure" /\ a[n].ref = u)
        <=> \E p \in S : s[p].kind = "figure" /\ s[p].ref = u
  BY <1>1
<1> QED BY <1>2, <1>3 DEF a

(* A marker that was not placed names an image that is none of the placed.   *)
LEMMA UnplacedApart ==
  ASSUME NEW m \in Seq(Upload), NamesApart(m), NEW t, Tracked(m, t)
  PROVE  LET files == Unplaced(t)
         IN  /\ \A i, j \in DOMAIN files : UrlOf(m, files[i]) = UrlOf(m, files[j]) => i = j
             /\ \A i \in DOMAIN files : /\ UrlOf(m, files[i]) \notin Range(t.images)
                                        /\ UrlOf(m, files[i]) \in Url
             /\ files \in Seq(Marker)
<1> DEFINE files == Unplaced(t)
<1>1. /\ files \in Seq(Marker)
      /\ \A i \in DOMAIN files : Match(m, files[i]) # 0 /\ files[i] \notin t.placed
      /\ \A i, j \in DOMAIN files : files[i] = files[j] => i = j
  BY UnplacedAre
<1> HIDE DEF files
<1>2. \A i, j \in DOMAIN files : UrlOf(m, files[i]) = UrlOf(m, files[j]) => i = j
  <2> SUFFICES ASSUME NEW i \in DOMAIN files, NEW j \in DOMAIN files,
                      UrlOf(m, files[i]) = UrlOf(m, files[j])
               PROVE  i = j
    OBVIOUS
  <2>1. files[i] = files[j]
    BY <1>1, ApartIs
  <2> QED BY <1>1, <2>1
<1>3. ASSUME NEW i \in DOMAIN files, UrlOf(m, files[i]) \in Range(t.images) PROVE FALSE
  <2>1. PICK k \in DOMAIN t.images : t.images[k] = UrlOf(m, files[i])
    BY <1>3 DEF Range
  <2>2. PICK f \in t.placed : t.images[k] = UrlOf(m, f)
    BY <2>1 DEF Tracked
  <2>3. Match(m, f) # 0
    BY <2>2 DEF Tracked
  <2>4. f = files[i]
    BY <1>1, <2>1, <2>2, <2>3, ApartIs
  <2> QED BY <1>1, <2>2, <2>4
<1>4. \A i \in DOMAIN files : UrlOf(m, files[i]) \in Url
  BY <1>1, MatchIs
<1> QED BY <1>1, <1>2, <1>3, <1>4 DEF files

(* What the walk's blocks show, place by place.                              *)
LEMMA ShownOutIs ==
  ASSUME NEW m \in Seq(Upload), NEW d, d \in Docs(InBlocks(DOMAIN d.figures)),
         NEW w, Walked(m, DOMAIN d.figures, w), NEW p \in DOMAIN w.out
  PROVE  /\ p \in DOMAIN ShownOut(d, w)
         /\ w.out[p].kind = "figure" =>
              /\ w.out[p].ref \in DOMAIN d.figures
              /\ ShownOut(d, w)[p] = Figure(d.figures[w.out[p].ref])
         /\ w.out[p].kind = "placed" =>
              /\ w.out[p].ref \in DOMAIN w.t.images
              /\ ShownOut(d, w)[p] = Figure(w.t.images[w.out[p].ref])
         /\ w.out[p].kind \notin {"figure", "placed"} =>
              ShownOut(d, w)[p].kind = w.out[p].kind
<1> DEFINE b == w.out[p]
           y == ShownIn(w.out, d.figures)
<1>1. b \in OutBlocks(DOMAIN d.figures) /\ (b.kind = "placed" => b.ref \in DOMAIN w.t.images)
  <2>1. w.out \in Seq(OutBlocks(DOMAIN d.figures))
    BY DEF Walked, Walks
  <2>2. b.kind = "placed" => b.ref \in DOMAIN w.t.images
    BY DEF Walked
  <2> QED BY <2>1, <2>2
<1>2. b.kind = "figure" => b.ref \in DOMAIN d.figures
  BY <1>1, OutBlockIs
<1>3. y[p] = ShownAs(b, d.figures) /\ DOMAIN y = DOMAIN w.out
  BY DEF ShownIn
<1> HIDE DEF b, y
<1>4. /\ p \in DOMAIN ShownOut(d, w)
      /\ ShownOut(d, w)[p] = IF y[p].kind = "placed" THEN Figure(w.t.images[y[p].ref]) ELSE y[p]
  BY <1>3 DEF ShownOut, Settled, y
<1>5. b.kind = "figure" => y[p] = Figure(d.figures[b.ref]) /\ y[p].kind = "figure"
  BY <1>3 DEF ShownAs, Figure
<1>6. b.kind # "figure" => y[p] = b
  BY <1>3 DEF ShownAs
<1> QED BY <1>1, <1>2, <1>4, <1>5, <1>6 DEF b

LEMMA ShownOutSeq ==
  ASSUME NEW m, NEW d, NEW w, Walked(m, DOMAIN d.figures, w)
  PROVE  /\ ShownOut(d, w) \in Seq({ShownOut(d, w)[p] : p \in DOMAIN w.out})
         /\ DOMAIN ShownOut(d, w) = DOMAIN w.out
<1>1. /\ DOMAIN w.out = 1 .. Len(w.out) /\ Len(w.out) \in Nat
  BY DEF Walked, Walks
<1> DEFINE x == ShownOut(d, w)
<1>2. x = [p \in DOMAIN w.out |-> x[p]]
  BY DEF ShownOut, Settled, ShownIn
<1> HIDE DEF x
<1> QED BY <1>1, <1>2 DEF x

(* An image that no marker placed is in the text of the HTML twin just when  *)
(* the model placed it.                                                      *)
LEMMA SameAtEnd ==
  ASSUME NEW m \in Seq(Upload), NEW d, WellWritten(d), NEW w, Walked(m, DOMAIN d.figures, w),
         \A i \in DOMAIN d.blocks : d.blocks[i].kind = "figure" => d.blocks[i] \in Range(w.out),
         NEW u, u \notin Range(w.t.images)
  PROVE  u \in Images(Filtered(ShownOut(d, w), Placing(d, w))) <=> u \in Range(d.figures)
<1> DEFINE x == ShownOut(d, w)
           S == Placing(d, w)
           E == {x[p] : p \in DOMAIN w.out}
<1>1. d \in Docs(InBlocks(DOMAIN d.figures))
  BY DEF WellWritten
<1>2. x \in Seq(E) /\ DOMAIN x = DOMAIN w.out
  BY ShownOutSeq
<1>3. S \in SUBSET DOMAIN x
  BY <1>2 DEF Placing
<1>4. \A p \in DOMAIN w.out :
        p \in S <=> (w.out[p].kind = "figure" => w.out[p].ref \notin Takes(d, w.t.images))
  BY DEF Placing
<1>5. \A p \in DOMAIN w.out :
         /\ w.out[p].kind = "figure" =>
              /\ w.out[p].ref \in DOMAIN d.figures
              /\ x[p] = Figure(d.figures[w.out[p].ref])
         /\ w.out[p].kind = "placed" =>
              /\ w.out[p].ref \in DOMAIN w.t.images
              /\ x[p] = Figure(w.t.images[w.out[p].ref])
         /\ w.out[p].kind \notin {"figure", "placed"} => x[p].kind = w.out[p].kind
  BY <1>1, ShownOutIs
<1> HIDE DEF x, S, E
<1>6. u \in Images(Filtered(x, S)) <=> \E p \in S : x[p].kind = "figure" /\ x[p].ref = u
  BY <1>2, <1>3, ImagesStay
<1>7. \A y : Figure(y).kind = "figure" /\ Figure(y).ref = y
  BY DEF Figure
<1>8. ASSUME NEW p \in S, x[p].kind = "figure", x[p].ref = u PROVE u \in Range(d.figures)
  <2>1. p \in DOMAIN w.out
    BY <1>2, <1>3
  <2>2. CASE w.out[p].kind = "figure"
    BY <1>5, <1>7, <1>8, <2>1, <2>2 DEF Range
  <2>3. CASE w.out[p].kind = "placed"
    <3>1. u \in Range(w.t.images)
      BY <1>5, <1>7, <1>8, <2>1, <2>3 DEF Range
    <3> QED BY <3>1
  <2>4. CASE w.out[p].kind \notin {"figure", "placed"}
    BY <1>5, <1>8, <2>1, <2>4
  <2> QED BY <2>2, <2>3, <2>4
<1>9. ASSUME u \in Range(d.figures) PROVE \E p \in S : x[p].kind = "figure" /\ x[p].ref = u
  <2>1. PICK n \in DOMAIN d.figures : d.figures[n] = u
    BY <1>9 DEF Range
  <2>2. PICK i \in Pictures(d.blocks) : d.blocks[i].ref = n
    BY <2>1 DEF WellWritten
  <2>3. i \in DOMAIN d.blocks /\ d.blocks[i].kind = "figure"
    BY <2>2 DEF Pictures
  <2>4. PICK p \in DOMAIN w.out : w.out[p] = d.blocks[i]
    BY <2>3 DEF Range
  <2>5. w.out[p].kind = "figure" /\ w.out[p].ref = n
    BY <2>2, <2>3, <2>4
  <2>6. n \notin Takes(d, w.t.images)
    BY <2>1 DEF Takes
  <2>7. p \in S
    BY <1>4, <2>5, <2>6
  <2>8. x[p] = Figure(u)
    BY <1>5, <2>1, <2>5
  <2> QED BY <1>7, <2>7, <2>8
<1> QED BY <1>6, <1>8, <1>9 DEF x, S

(* The HTML twin, told by the walk of the document twin.                     *)
LEMMA HtmlShows ==
  ASSUME NEW m \in Seq(Upload), NEW d, d \in Docs(InBlocks(DOMAIN d.figures)),
         NEW w, Walked(m, DOMAIN d.figures, w)
  PROVE  Finished(m, Twin(w, d.figures))
           = EndedBy(m, Filtered(ShownOut(d, w), Placing(d, w)), Unplaced(w.t))
<1> DEFINE v == Twin(w, d.figures)
           y == ShownIn(w.out, d.figures)
           images == w.t.images
           stays == {i \in DOMAIN y : y[i].kind = "figure" => y[i].ref \notin Range(images)}
<1>1. v.t = w.t /\ v.out = y
  BY DEF Twin
<1>2. w.out \in Seq(OutBlocks(DOMAIN d.figures))
  BY DEF Walked, Walks
<1>3. /\ y \in Seq({ShownAs(b, d.figures) : b \in OutBlocks(DOMAIN d.figures)})
      /\ DOMAIN y = DOMAIN w.out
      /\ \A p \in DOMAIN w.out : y[p] = ShownAs(w.out[p], d.figures)
  BY <1>2, ShownSeq
<1> HIDE DEF v, y, images
<1>4. stays = Placing(d, w)
  <2>1. ASSUME NEW p \in DOMAIN w.out
        PROVE  (y[p].kind = "figure" => y[p].ref \notin Range(images))
                 <=> (w.out[p].kind = "figure" => w.out[p].ref \notin Takes(d, images))
    <3>1. CASE w.out[p].kind = "figure"
      <4>1. w.out[p].ref \in DOMAIN d.figures
        BY <1>2, <3>1, OutBlockIs
      <4>2. y[p].kind = "figure" /\ y[p].ref = d.figures[w.out[p].ref]
        <5>1. y[p] = ShownAs(w.out[p], d.figures)
          BY <1>3
        <5>2. ShownAs(w.out[p], d.figures) = Figure(d.figures[w.out[p].ref])
          BY ONLY <3>1 DEF ShownAs
        <5> QED BY ONLY <5>1, <5>2 DEF Figure
      <4>3. w.out[p].ref \in Takes(d, images) <=> d.figures[w.out[p].ref] \in Range(images)
        BY <4>1 DEF Takes
      <4> QED BY <3>1, <4>2, <4>3
    <3>2. CASE w.out[p].kind # "figure"
      <4>1. y[p] = w.out[p]
        BY <1>3, <3>2 DEF ShownAs
      <4> QED BY <3>2, <4>1
    <3> QED BY <3>1, <3>2
  <2>2. Placing(d, w) = {p \in DOMAIN w.out :
                           w.out[p].kind = "figure" => w.out[p].ref \notin Takes(d, images)}
    BY DEF Placing, images
  <2> QED BY <1>3, <2>1, <2>2
<1>5. Finished(m, v) = EndedBy(m, Settled(Filtered(y, stays), images), Unplaced(w.t))
  BY <1>1 DEF Finished, EndedBy, images
<1> HIDE DEF stays
<1>6. Placing(d, w) \in SUBSET DOMAIN y
  BY <1>3 DEF Placing
<1>7. Settled(Filtered(y, stays), images) = Filtered(Settled(y, images), Placing(d, w))
  <2>1. Settled(Filtered(y, Placing(d, w)), images) = Filtered(Settled(y, images), Placing(d, w))
    BY <1>3, <1>6, SettledStays
  <2> QED BY <1>4, <2>1
<1> QED BY <1>5, <1>7 DEF v, ShownOut, y, images

LEMMA TwinsAlike ==
  ASSUME NEW m \in Seq(Upload), NamesApart(m), NEW d, WellWritten(d)
  PROVE  Shown(applyImagePlaceholdersDoc(d, m).doc) = applyImagePlaceholdersHtml(Shown(d), m)
<1> DEFINE w == Walk(m, d.blocks)
           R == DOMAIN d.figures
           x == ShownOut(d, w)
           base == Filtered(x, Placing(d, w))
           files == Unplaced(w.t)
           B == {x[p] : p \in DOMAIN w.out} \union {Figure(UrlOf(m, f)) : f \in Marker}
<1>1. d \in Docs(InBlocks(R)) /\ d.blocks \in Seq(InBlocks(R))
  BY DocIs DEF WellWritten
<1>2. /\ Walked(m, R, w)
      /\ \A i \in DOMAIN d.blocks : d.blocks[i].kind = "figure" => d.blocks[i] \in Range(w.out)
  BY <1>1, WalkEnds
<1>3. Walk(m, Shown(d)) = Twin(w, d.figures)
  BY <1>1, ShownIs, TwinWalk
<1>4. applyImagePlaceholdersDoc(d, m) = PlaceAll(d, m, w)
  BY DEF applyImagePlaceholdersDoc
<1> HIDE DEF w
<1>5. Shown(PlaceAll(d, m, w).doc) = base \o FiguresOf(m, Rest(d, m, w.t))
  BY <1>1, <1>2, DocShows
<1>6. applyImagePlaceholdersHtml(Shown(d), m) = EndedBy(m, base, files)
  <2>1. applyImagePlaceholdersHtml(Shown(d), m) = Finished(m, Twin(w, d.figures))
    BY <1>3 DEF applyImagePlaceholdersHtml
  <2> QED BY <1>1, <1>2, <2>1, HtmlShows
<1>7. Tracked(m, w.t)
  BY <1>2 DEF Walked
<1>8. /\ \A i, j \in DOMAIN files : UrlOf(m, files[i]) = UrlOf(m, files[j]) => i = j
      /\ \A i \in DOMAIN files : UrlOf(m, files[i]) \notin Range(w.t.images)
      /\ files \in Seq(Marker)
  BY <1>7, UnplacedApart
<1>9. base \in Seq(B)
  <2> DEFINE E == {x[p] : p \in DOMAIN w.out}
  <2>1. x \in Seq(E) /\ DOMAIN x = DOMAIN w.out
    BY <1>2, ShownOutSeq
  <2>2. Placing(d, w) \in SUBSET DOMAIN x
    BY <2>1 DEF Placing
  <2>3. E \subseteq B
    OBVIOUS
  <2> HIDE DEF E, x, B
  <2>4. base \in Seq(E)
    BY <2>1, <2>2, FilterKeeps
  <2> HIDE DEF base
  <2> QED BY <2>3, <2>4
<1>10. \A f \in Marker : Figure(UrlOf(m, f)) \in B
  OBVIOUS
<1> HIDE DEF B
<1>11. \A i \in DOMAIN files : UrlOf(m, files[i]) \in Images(base) <=> UrlOf(m, files[i]) \in Range(d.figures)
  BY <1>2, <1>8, SameAtEnd
<1>12. Rest(d, m, w.t) = Filtered(files, Missing(m, base, files))
  <2>1. Missing(m, base, files)
          = {i \in DOMAIN files : UrlOf(m, files[i]) \notin Range(d.figures)}
    BY <1>11 DEF Missing
  <2>2. Rest(d, m, w.t) = Filtered(files, {i \in DOMAIN files :
                                             UrlOf(m, files[i]) \notin Range(d.figures)})
    BY DEF Rest
  <2> HIDE DEF base, files
  <2> QED BY <2>1, <2>2
<1> HIDE DEF base, files
<1>13. EndedBy(m, base, files) = base \o FiguresOf(m, Rest(d, m, w.t))
  <2>1. EndedBy(m, base, files)
          = base \o FiguresOf(m, Filtered(files, Missing(m, base, files)))
    BY ONLY <1>8, <1>9, <1>10, EndsInHtml
  <2> QED BY ONLY <1>12, <2>1
<1> QED BY <1>4, <1>5, <1>6, <1>13

(* So in every state the twins agree on the document that the model wrote.   *)
LEMMA TwinsAgreeInv == MarkerInv => TwinsAgree
<1> SUFFICES ASSUME MarkerInv, marking # "writing", NamesApart(uploads)
             PROVE  Shown(applyImagePlaceholdersDoc(written, uploads).doc)
                      = applyImagePlaceholdersHtml(Shown(written), uploads)
  BY DEF TwinsAgree, NamesApart
<1>1. uploads \in Seq(Upload) /\ WellWritten(written)
  BY ManifestIs DEF MarkerInv
<1> QED BY <1>1, TwinsAlike

LEMMA MarkerStutterInv == MarkerInv /\ UNCHANGED markerVars => MarkerInv'
<1> SUFFICES ASSUME MarkerInv, UNCHANGED markerVars PROVE MarkerInv'
  OBVIOUS
<1>1. /\ marking' = marking /\ uploads' = uploads /\ typed' = typed /\ doc' = doc
      /\ report' = report /\ written' = written /\ coverage' = coverage
  BY DEF markerVars
<1>2. /\ uploads' \in Manifest /\ typed' \in SUBSET Marker
      /\ (marking # "writing" => WellWritten(written))'
  BY <1>1 DEF MarkerInv, WellWritten, HasBoundary
<1>3. (marking = "written" =>
         /\ doc \in Docs(InBlocks(Int)) /\ HasBoundary(doc)
         /\ report # NoReport => Stepped(uploads, doc, report))'
  BY <1>1 DEF MarkerInv, HasBoundary, Stepped, Match, UrlOf
<1>4. EveryImageShown'
  BY <1>1 DEF MarkerInv, EveryImageShown, EachUsedOnce, Expected, UrlOf, Match
<1> QED BY <1>2, <1>3, <1>4 DEF MarkerInv

(* Markers land: in every state of every run, whatever the model wrote, each *)
(* image of a marker the user typed is shown, and both twins place the same  *)
(* images at the same places.                                                *)
THEOREM MarkersStayLanded == MarkerSpec => []MarkersLand
<1>1. MarkerInit => MarkerInv
  BY MarkerInitInv
<1>2. MarkerInv /\ [MarkerNext]_markerVars => MarkerInv'
  <2> SUFFICES ASSUME MarkerInv, [MarkerNext]_markerVars PROVE MarkerInv'
    OBVIOUS
  <2>1. CASE Produce
    BY <2>1, ProduceInv
  <2>2. CASE RepairField
    BY <2>2, RepairFieldInv
  <2>3. CASE Finalize
    BY <2>3, FinalizeInv
  <2>4. CASE UNCHANGED markerVars
    BY <2>4, MarkerStutterInv
  <2> QED BY <2>1, <2>2, <2>3, <2>4 DEF MarkerNext
<1>3. MarkerInv => MarkersLand
  <2>1. MarkerInv => EveryImageShown
    BY DEF MarkerInv
  <2> QED BY <2>1, TwinsAgreeInv DEF MarkersLand
<1> QED BY <1>1, <1>2, <1>3, PTL DEF MarkerSpec
=============================================================================

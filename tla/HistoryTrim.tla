----------------------------- MODULE HistoryTrim -----------------------------
(***************************************************************************)
(* The history trim of the generate route (trim.js): the history           *)
(* U1 M1 U2 M2 ... Un Mn loses its oldest pairs (M_i, U_i+1), first while  *)
(* its bytes are over the size limit, then while its tokens are over the   *)
(* token limit.  One step is one round of a `while` of removeWhileOver.    *)
(*                                                                         *)
(* Turn 0 is the new user turn, turn 2i - 1 is U_i and turn 2i is M_i.     *)
(* The token counts are known from the start here: countAll stores them by *)
(* position (module GenerateHandler has the workers), and only those of    *)
(* the turns the size trim retained are used.                              *)
(***************************************************************************)
EXTENDS FiniteSetsExt, Integers

CONSTANTS
  MaxPairs,      \* bound: user and model turns of the history
  Byte, Token,   \* the weights a turn can have
  SizeLimit,     \* SIZE_TRIM_LIMIT_BYTES
  TokenLimit     \* inputTokenLimit * TOKEN_TRIM_RATIO

ASSUME TrimAssumption ==
  /\ MaxPairs \in Nat
  /\ Byte \subseteq Nat /\ Token \subseteq Nat
  /\ SizeLimit \in Nat /\ TokenLimit \in Nat

VARIABLES
  pairs,      \* n
  bytes,      \* measureTurn of every turn
  tokens,     \* countTokens of every turn
  phase,      \* which loop runs, or how the trim ended
  consumed,   \* units taken from the front
  remaining,  \* what the loop's total has come down to
  removed     \* trimmedTurnIds

input == <<pairs, bytes, tokens>>
trimVars == <<input, phase, consumed, remaining, removed>>

Turn == 1 .. 2 * MaxPairs
History == 1 .. 2 * pairs
NewTurn == 0
Total(weight, turns) == MapThenSumSet(LAMBDA t : weight[t], turns)

(* removalUnits: the i-th one is (M_i, U_i+1). *)
Units == 1 .. pairs - 1

(* Faulty variant: the units begin one pair too early. *)
UnitTooEarly(i) == {2 * i - 2, 2 * i - 1}

Unit(i) == {2 * i, 2 * i + 1}

-----------------------------------------------------------------------------
TrimInit ==
  /\ pairs \in 0 .. MaxPairs
  /\ bytes \in [Turn \cup {NewTurn} -> Byte]
  /\ tokens \in [Turn \cup {NewTurn} -> Token]
  /\ \A t \in Turn \ History : \A u \in Turn \ History : bytes[t] = bytes[u] /\ tokens[t] = tokens[u]
  /\ phase = "size"
  /\ consumed = 0
  /\ remaining = Total(bytes, History \cup {NewTurn})
  /\ removed = {}

(* The loop condition of removeWhileOver. *)
Over(limit) == remaining > limit /\ consumed + 1 \in Units

(* One round: the oldest unit that is left goes, with both of its turns. *)
Cut(weight) ==
  LET unit == Unit(consumed + 1) IN
  /\ consumed' = consumed + 1
  /\ removed' = removed \cup unit
  /\ remaining' = remaining - Total(weight, unit)
  /\ UNCHANGED <<input, phase>>

SizeCut == phase = "size" /\ Over(SizeLimit) /\ Cut(bytes)

(* Faulty variant: every turn is counted, those that are gone as well. *)
SizeDoneCountsAll ==
  /\ phase = "size" /\ ~Over(SizeLimit)
  /\ IF remaining > SizeLimit
       THEN phase' = "refused" /\ UNCHANGED remaining
       ELSE /\ phase' = "tokens"
            /\ remaining' = Total(tokens, History \cup {NewTurn})
  /\ UNCHANGED <<input, consumed, removed>>

(* The size trim is over: 413, or the tokens of what it retained. *)
SizeDone ==
  /\ phase = "size" /\ ~Over(SizeLimit)
  /\ IF remaining > SizeLimit
       THEN phase' = "refused" /\ UNCHANGED remaining
       ELSE /\ phase' = "tokens"
            /\ remaining' = Total(tokens, (History \ removed) \cup {NewTurn})
  /\ UNCHANGED <<input, consumed, removed>>

TokenCut == phase = "tokens" /\ Over(TokenLimit) /\ Cut(tokens)

TokensDone ==
  /\ phase = "tokens" /\ ~Over(TokenLimit)
  /\ phase' = IF remaining > TokenLimit THEN "refused" ELSE "ok"
  /\ UNCHANGED <<input, consumed, remaining, removed>>

TrimNext == SizeCut \/ SizeDone \/ TokenCut \/ TokensDone

TrimSpec == TrimInit /\ [][TrimNext]_trimVars

-----------------------------------------------------------------------------
(* The types; only turns that exist are removed (removeWhileOver). *)
TrimTypeOK ==
  /\ pairs \in 0 .. MaxPairs
  /\ bytes \in [Turn \cup {NewTurn} -> Byte] /\ tokens \in [Turn \cup {NewTurn} -> Token]
  /\ phase \in {"size", "tokens", "ok", "refused"}
  /\ consumed \in Nat /\ remaining \in Int
  /\ removed \subseteq Turn

(* The first user turn and the final model turn stay, and what stays still  *)
(* alternates: a turn goes together with the other half of its unit.       *)
ProtectedKept ==
  /\ removed \subseteq History
  /\ pairs > 0 => 1 \notin removed /\ 2 * pairs \notin removed
  /\ \A i \in Units : 2 * i \in removed <=> 2 * i + 1 \in removed

(* The request that is left when the k oldest units are gone fits. *)
Left(k) == (History \ UNION {Unit(i) : i \in 1 .. k}) \cup {NewTurn}
Fits(k) == Total(bytes, Left(k)) <= SizeLimit /\ Total(tokens, Left(k)) <= TokenLimit

(* The trim removes as few of the oldest units as make the request fit both *)
(* limits, though it looks at them one after the other and with running    *)
(* totals, and it refuses only when all units together are not enough.     *)
LeastTrim ==
  /\ phase = "ok" => /\ removed = UNION {Unit(i) : i \in 1 .. consumed}
                     /\ Fits(consumed) /\ \A k \in 0 .. consumed - 1 : ~Fits(k)
  /\ phase = "refused" => \A k \in {0} \cup Units : ~Fits(k)
=============================================================================

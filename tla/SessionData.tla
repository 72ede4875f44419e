----------------------------- MODULE SessionData -----------------------------
(***************************************************************************)
(* The data of one Image Studio session and the pure rules on it: what a   *)
(* response does to a session (apply-response.ts), which history a cut may *)
(* remove, when a session expires and which sessions a creation evicts     *)
(* (session-lifecycle.ts).                                                 *)
(*                                                                         *)
(* A turn is named by its role and by `at`, the number of the commit that  *)
(* stored it.  turnOrder only ever grows at its end, by one user turn and  *)
(* one model turn per commit, and only loses elements, so it is always in  *)
(* the order of `at` with the user turn first, and the SET of its turns    *)
(* stands for it.                                                          *)
(***************************************************************************)
EXTENDS Integers, FiniteSets

Role == {"user", "model"}
Turn == [role : Role, at : Nat]
Version == [num : Nat, turn : Turn, downloaded : BOOLEAN]

(* SessionMeta: turnOrder, versions, nextVersionNumber and lastActivity. *)
Meta == [order : SUBSET Turn, versions : SUBSET Version, next : Nat \ {0}, last : Nat]

(* A StoredSession: the meta record and the rows of the `turns` store. *)
Stored == [meta : Meta, turns : SUBSET Turn]

EmptyMeta(now) == [order |-> {}, versions |-> {}, next |-> 1, last |-> now]
Nothing == [meta |-> EmptyMeta(0), turns |-> {}]

UserTurn(at) == [role |-> "user", at |-> at]
ModelTurn(at) == [role |-> "model", at |-> at]

(* The history order of two turns of one session. *)
Before(t, u) ==
  \/ t.at < u.at
  \/ t.at = u.at /\ t.role = "user" /\ u.role = "model"

(* loadSession returns the rows the order names and drops the others. *)
View(meta, rows) == [meta |-> meta, turns |-> meta.order \cap rows]

-----------------------------------------------------------------------------
(* protectedTurnIds: the first turn of the order and the turn that holds    *)
(* the latest version.                                                      *)
First(meta) == {t \in meta.order : \A u \in meta.order : u # t => Before(t, u)}
Latest(meta) == {v \in meta.versions : \A w \in meta.versions : w.num <= v.num}
ProtectedTurns(meta) ==
  First(meta) \cup (IF meta.order = {} THEN {} ELSE {v.turn : v \in Latest(meta)})

(* What the server may report as trimmed from the history it was sent: the  *)
(* oldest removal units (M_i, U_i+1), that is every turn strictly between    *)
(* the first turn and some model turn.  A reply that lists the first turn is *)
(* the malformed one the client guards against.                              *)
TrimChoices(history) ==
  LET first == {t \in history : \A u \in history : u # t => Before(t, u)}
      between(m) == {t \in history : Before(t, m) /\ t \notin first}
  IN {between(m) : m \in {t \in history : t.role = "model"}} \cup {{}, first}

(* applyResponse: the session's meta after a response with `images` new     *)
(* versions (none for a text or safety reply) that reports `trimmed`.       *)
Removed(stored, trimmed) == trimmed \cap stored.meta.order \cap stored.turns

NewVersions(next, images, at) ==
  {[num |-> next + k, turn |-> ModelTurn(at), downloaded |-> FALSE] : k \in 0 .. images - 1}

NewTurns(images, at) == IF images = 0 THEN {} ELSE {UserTurn(at), ModelTurn(at)}

(* Faulty variants: a cut that forgets the versions of the turns it takes,   *)
(* and version numbers counted from the versions that are left.              *)
ApplyMetaKeepsVersions(stored, trimmed, images, at, now) ==
  LET meta == stored.meta IN
  [order    |-> (meta.order \ Removed(stored, trimmed)) \cup NewTurns(images, at),
   versions |-> meta.versions \cup NewVersions(meta.next, images, at),
   next     |-> meta.next + images,
   last     |-> now]

ApplyMetaCountsVersions(stored, trimmed, images, at, now) ==
  LET gone == Removed(stored, trimmed)
      left == {v \in stored.meta.versions : v.turn \notin gone}
      next == Cardinality(left) + 1
  IN [order    |-> (stored.meta.order \ gone) \cup NewTurns(images, at),
      versions |-> left \cup NewVersions(next, images, at),
      next     |-> next + images,
      last     |-> now]

ApplyMeta(stored, trimmed, images, at, now) ==
  LET gone == Removed(stored, trimmed)
      meta == stored.meta
  IN [order    |-> (meta.order \ gone) \cup NewTurns(images, at),
      versions |-> {v \in meta.versions : v.turn \notin gone}
                     \cup NewVersions(meta.next, images, at),
      next     |-> meta.next + images,
      last     |-> now]

(* Faulty variant: deleteTurnIds left empty. *)
ApplyTurnsNoDelete(turns, stored, trimmed, images, at) == turns \cup NewTurns(images, at)

(* The batch's effect on the rows of the session (deleteTurnIds, putTurns). *)
ApplyTurns(turns, stored, trimmed, images, at) ==
  (turns \ Removed(stored, trimmed)) \cup NewTurns(images, at)

(* markDownloaded on a session's meta: the flag and the renewed activity. *)
FlagMeta(meta, num, now) ==
  [meta EXCEPT !.versions = {IF v.num = num THEN [v EXCEPT !.downloaded = TRUE] ELSE v : v \in @},
               !.last = now]

-----------------------------------------------------------------------------
(* isExpired: strictly more than the time to live since the last activity. *)
IsExpired(last, now, ttl) == now - last > ttl

(* Older last activity first, a tie broken by the smaller id. *)
Older(metaOf, s, t) ==
  \/ metaOf[s].last < metaOf[t].last
  \/ metaOf[s].last = metaOf[t].last /\ s < t

(* What newestFirst puts first: the latest activity, on a tie the smaller id. *)
Newest(sessions, metaOf) ==
  {s \in sessions : \A t \in sessions :
     \/ metaOf[t].last < metaOf[s].last
     \/ metaOf[t].last = metaOf[s].last /\ s <= t}

(* Faulty variant: the new session is not counted. *)
IsVictimSetUncounted(victims, stored, metaOf, excluded, cap) ==
  LET needed == Cardinality(stored) - cap IN
  /\ victims \subseteq stored \ excluded
  /\ \A v \in victims, s \in (stored \ excluded) \ victims : Older(metaOf, v, s)
  /\ Cardinality(victims) = IF needed <= 0 THEN 0 ELSE needed

(* pickEvictionVictims: as many of the oldest unprotected sessions as one   *)
(* more session needs to stay within the cap, or all of them if fewer.      *)
IsVictimSet(victims, stored, metaOf, excluded, cap) ==
  LET needed == Cardinality(stored) + 1 - cap
      candidates == stored \ excluded
  IN /\ victims \subseteq candidates
     /\ \A v \in victims, s \in candidates \ victims : Older(metaOf, v, s)
     /\ IF needed <= 0
          THEN victims = {}
          ELSE \/ Cardinality(victims) = needed
               \/ Cardinality(victims) < needed /\ victims = candidates

-----------------------------------------------------------------------------
(* What every SessionMeta must satisfy: version numbers are unique, all      *)
(* below the next number, and each belongs to a turn of the order.           *)
WellFormed(meta) ==
  /\ \A v \in meta.versions : v.num \in 1 .. meta.next - 1 /\ v.turn \in meta.order
  /\ \A v, w \in meta.versions : v.num = w.num => v = w
=============================================================================

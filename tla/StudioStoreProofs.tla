-------------------------- MODULE StudioStoreProofs --------------------------
(***************************************************************************)
(* What the Image Studio store keeps for every number of sessions, sends,  *)
(* images and storage failures: types, copies and the cap for every        *)
(* interleaving of its handlers; in the last part, where the theorems      *)
(* assume Serialized, what holds when no handler starts during a storage   *)
(* call of another.                                                        *)
(***************************************************************************)
EXTENDS StudioStore, FiniteSetTheorems, TLAPS

-----------------------------------------------------------------------------
(* The pure rules return sessions of the right type. *)

(* What a new session starts as, and what a load that found nothing returns. *)
LEMMA EmptyMetaType ==
  /\ \A t \in Nat : EmptyMeta(t) \in Meta
  /\ Nothing \in Stored
BY DEF EmptyMeta, Meta, Nothing, Stored

(* loadSession returns a session of the right type. *)
LEMMA ViewType ==
  ASSUME NEW meta \in Meta, NEW turns \in SUBSET Turn
  PROVE  View(meta, turns) \in Stored
BY DEF View, Stored, Meta

(* The turns of one accepted response. *)
LEMMA NewTurnsType ==
  ASSUME NEW images \in Nat, NEW at \in Nat
  PROVE  NewTurns(images, at) \in SUBSET Turn
BY DEF NewTurns, UserTurn, ModelTurn, Turn, Role

(* applyResponse returns a meta of the right type. *)
LEMMA ApplyMetaType ==
  ASSUME NEW s \in Stored, NEW trimmed, NEW images \in Nat, NEW at \in Nat, NEW t \in Nat
  PROVE  ApplyMeta(s, trimmed, images, at, t) \in Meta
<1>1. s.meta.order \in SUBSET Turn /\ s.meta.versions \in SUBSET Version /\ s.meta.next \in Nat \ {0}
  BY DEF Stored, Meta
<1>2. NewTurns(images, at) \in SUBSET Turn
  BY NewTurnsType
<1>3. NewVersions(s.meta.next, images, at) \in SUBSET Version
  <2>1. ModelTurn(at) \in Turn
    BY DEF ModelTurn, Turn, Role
  <2>2. \A k \in 0 .. images - 1 :
          [num |-> s.meta.next + k, turn |-> ModelTurn(at), downloaded |-> FALSE] \in Version
    BY <1>1, <2>1 DEF Version
  <2> QED BY <2>2 DEF NewVersions
<1>4. s.meta.next + images \in Nat \ {0}
  BY <1>1
<1> QED BY <1>1, <1>2, <1>3, <1>4 DEF ApplyMeta, Meta

(* The rows after a response's batch are turns. *)
LEMMA ApplyTurnsType ==
  ASSUME NEW turns \in SUBSET Turn, NEW s, NEW trimmed, NEW images \in Nat, NEW at \in Nat
  PROVE  ApplyTurns(turns, s, trimmed, images, at) \in SUBSET Turn
BY NewTurnsType DEF ApplyTurns

(* markDownloaded returns a meta of the right type. *)
LEMMA FlagMetaType ==
  ASSUME NEW meta \in Meta, NEW num, NEW t \in Nat
  PROVE  FlagMeta(meta, num, t) \in Meta
<1>1. \A v \in meta.versions : v \in Version /\ [v EXCEPT !.downloaded = TRUE] \in Version
  BY DEF Meta, Version
<1>2. {IF v.num = num THEN [v EXCEPT !.downloaded = TRUE] ELSE v : v \in meta.versions} \in SUBSET Version
  BY <1>1
<1> QED BY <1>2 DEF FlagMeta, Meta

(* A storage call resolves or rejects. *)
LEMMA MayType == ASSUME NEW fault, NEW ok \in May(fault) PROVE ok \in BOOLEAN
BY DEF May

-----------------------------------------------------------------------------
(* The steps the actions are made of keep the types. *)

(* A call, and what follows it up to the commit, belongs to a session, and   *)
(* so does a reload that found one.                                          *)
HasSession(a) ==
  \/ a.pc \in {"calling", "verifying", "loading", "committing"}
  \/ a.pc = "reloading" /\ a.alive # {}

CallsHaveSession == \A i \in Action : HasSession(action[i]) => action[i].session \in Session

TypeInv == TypeOK /\ CallsHaveSession

(* A load returns a session of the right type. *)
LEMMA LoadType ==
  ASSUME StoreTypeOK, NEW s \in Session
  PROVE  LoadOf(s) \in Stored
<1>1. metaOf[s] \in Meta /\ rows[s] \in SUBSET Turn
  BY DEF StoreTypeOK
<1> QED BY <1>1, ViewType DEF LoadOf

(* The conditional load: nothing when the call rejects or finds nothing. *)
LEMMA LoadedType ==
  ASSUME StoreTypeOK, NEW s \in Session, NEW ok
  PROVE  (IF ok THEN LoadOf(s) ELSE Nothing) \in Stored
BY LoadType, EmptyMetaType

(* A commit keeps the types of the store. *)
LEMMA PutType ==
  ASSUME StoreTypeOK, NEW s \in Session, NEW meta \in Meta, NEW turns \in SUBSET Turn,
         Put(s, meta, turns)
  PROVE  StoreTypeOK'
<1>1. meta.next - 1 \in Nat
  BY DEF Meta
<1>2. assigned' \in [Session -> Nat]
  BY <1>1 DEF Put, StoreTypeOK
<1> QED BY <1>2 DEF Put, StoreTypeOK

(* So do expiry and eviction. *)
LEMMA DropType ==
  ASSUME StoreTypeOK, NEW gone, DropSessions(gone)
  PROVE  StoreTypeOK'
<1>1. EmptyMeta(0) \in Meta
  BY EmptyMetaType
<1> QED BY <1>1 DEF DropSessions, StoreTypeOK

(* A handler that moves on. *)
LEMMA AdvanceType ==
  ASSUME action \in [Action -> ActionState], NEW i \in Action, NEW next \in ActionState,
         Advance(i, next)
  PROVE  action' \in [Action -> ActionState]
BY DEF Advance

(* The records handlers start and end with. *)
LEMMA IdleType == IdleAction \in ActionState /\ DoneAction \in ActionState
<1>1. MaxContent \in Nat /\ MaxImages \in Nat /\ Nothing \in Stored
  BY StoreAssumption, EmptyMetaType
<1>2. IdleAction \in ActionState
  BY <1>1 DEF IdleAction, ActionState, Pc, NoSession
<1>3. DoneAction \in ActionState
  BY <1>2 DEF DoneAction, ActionState, Pc
<1> QED BY <1>2, <1>3

(* A handler that ends. *)
LEMMA FinishType ==
  ASSUME action \in [Action -> ActionState], running \in Action, CallsHaveSession,
         NEW i \in Action, Finish(i)
  PROVE  action' \in [Action -> ActionState] /\ running' \in Action /\ CallsHaveSession'
<1>1. 0 \in Action
  BY StoreAssumption DEF Action
<1>2. ~HasSession(DoneAction)
  BY DEF DoneAction, IdleAction, HasSession
<1> QED BY <1>1, <1>2, IdleType DEF Finish, CallsHaveSession

(* The composer of a session gets an action's content back. *)
LEMMA RestoreType ==
  ASSUME drafts \in [Session \cup {NoSession} -> 0 .. MaxContent],
         action \in [Action -> ActionState], NEW i \in Action, Restore(i)
  PROVE  drafts' \in [Session \cup {NoSession} -> 0 .. MaxContent]
BY DEF Restore, ActionState

(* Retry is offered for an action's content. *)
LEMMA OfferType ==
  ASSUME action \in [Action -> ActionState], NEW i \in Action, OfferRetry(i)
  PROVE  retryTurn' \in [session : Session \cup {NoSession}, content : 0 .. MaxContent]
BY DEF OfferRetry, ActionState

(* refreshSessions and init up to their first answer. *)
LEMMA StartReloadType ==
  ASSUME TypeInv, NEW i \in Action, NEW r \in Action, StartReload(i, r)
  PROVE  /\ StoreTypeOK'
         /\ action' \in [Action -> ActionState] /\ running' \in Action /\ CallsHaveSession'
<1> DEFINE alive == stored \ Expired
<1>1. PICK ok \in May("read") :
        IF ok
          THEN /\ DropSessions(Expired)
               /\ \E s \in IF alive = {} THEN {NoSession} ELSE Newest(alive, metaOf) :
                    Advance(i, [IdleAction EXCEPT !.pc = "reloading", !.alive = alive, !.session = s])
               /\ running' = r
          ELSE UNCHANGED dbVars /\ Finish(i)
  BY DEF StartReload
<1>2. CASE ok
  <2>1. PICK s \in IF alive = {} THEN {NoSession} ELSE Newest(alive, metaOf) :
          Advance(i, [IdleAction EXCEPT !.pc = "reloading", !.alive = alive, !.session = s])
    BY <1>1, <1>2
  <2> DEFINE next == [IdleAction EXCEPT !.pc = "reloading", !.alive = alive, !.session = s]
  <2>2. alive \subseteq Session /\ s \in Session \cup {NoSession}
    BY DEF TypeInv, TypeOK, StoreTypeOK, Newest
  <2>3. next \in ActionState /\ (HasSession(next) => next.session \in Session)
    BY <2>2, IdleType DEF ActionState, Pc, HasSession, StoreTypeOK, TypeInv, TypeOK, Newest, IdleAction
  <2>4. action' \in [Action -> ActionState]
    <3> HIDE DEF next
    <3> QED BY <2>1, <2>3, AdvanceType DEF TypeInv, TypeOK, HandlersTypeOK, next
  <2>5. CallsHaveSession'
    <3> HIDE DEF next
    <3>1. action' = [action EXCEPT ![i] = next]
      BY <2>1 DEF Advance, next
    <3> QED BY <3>1, <2>3 DEF CallsHaveSession, TypeInv, TypeOK, HandlersTypeOK
  <2>6. StoreTypeOK' /\ running' \in Action
    BY <1>1, <1>2, DropType DEF TypeInv, TypeOK
  <2> QED BY <2>4, <2>5, <2>6
<1>3. CASE ~ok
  BY <1>1, <1>3, FinishType DEF TypeInv, TypeOK, HandlersTypeOK, StoreTypeOK, dbVars
<1> QED BY <1>2, <1>3

(* A call that ends without an accepted response. *)
LEMMA CallEndsType ==
  ASSUME TypeInv, NEW i \in Action, CallEnds(i)
  PROVE  /\ StoreTypeOK' /\ HandlersTypeOK' /\ BoundsTypeOK' /\ CallsHaveSession'
         /\ drafts' \in [Session \cup {NoSession} -> 0 .. MaxContent]
         /\ UNCHANGED <<current, listed>>
<1>1. Finish(i) /\ Restore(i) /\ UNCHANGED <<dbVars, current, listed, opVars, boundVars, now>>
  BY DEF CallEnds
<1>2. action' \in [Action -> ActionState] /\ running' \in Action /\ CallsHaveSession'
  BY <1>1, FinishType DEF TypeInv, TypeOK, HandlersTypeOK
<1>3. drafts' \in [Session \cup {NoSession} -> 0 .. MaxContent]
  BY <1>1, RestoreType DEF TypeInv, TypeOK, HandlersTypeOK, MemoryTypeOK
<1> QED
  BY <1>1, <1>2, <1>3 DEF TypeInv, TypeOK, StoreTypeOK, HandlersTypeOK, BoundsTypeOK,
     dbVars, opVars, boundVars

(* A creation that was asked for. *)
LEMMA NewCreateType ==
  ASSUME TypeInv, NEW leaving \in Session \cup {NoSession}, NEW seed \in 0 .. MaxContent,
         NEW owner \in Action \cup {NoAction}, NewCreate(leaving, seed, owner)
  PROVE  creates' \subseteq CreateOp /\ used' \subseteq Session
<1>1. PICK id \in Session \ used :
        /\ used' = used \cup {id}
        /\ creates' = creates \cup {[id |-> id, since |-> now, leaving |-> leaving, seed |-> seed,
                                     owner |-> owner, ran |-> FALSE, ok |-> FALSE, evicted |-> {}]}
  BY DEF NewCreate
<1>2. [id |-> id, since |-> now, leaving |-> leaving, seed |-> seed,
       owner |-> owner, ran |-> FALSE, ok |-> FALSE, evicted |-> {}] \in CreateOp
  BY DEF CreateOp, TypeInv, TypeOK, BoundsTypeOK
<1> QED BY <1>1, <1>2 DEF TypeInv, TypeOK, BoundsTypeOK, HandlersTypeOK

(* execute() up to its call. *)
LEMMA ExecuteType ==
  ASSUME TypeInv, NEW content \in 0 .. MaxContent, current.id # NoSession, Execute(content)
  PROVE  TypeInv'
<1> DEFINE i == sends + 1
           next == [IdleAction EXCEPT !.pc = "calling", !.session = current.id,
                      !.content = content, !.sent = current.turns]
<1>1. i \in 1 .. MaxSends /\ i \in Action
  BY StoreAssumption DEF Execute, TypeInv, TypeOK, BoundsTypeOK, Action
<1>2. current.id \in Session /\ current.turns \in SUBSET Turn
  BY DEF TypeInv, TypeOK, MemoryTypeOK
<1>3. next \in ActionState /\ next.session \in Session
  BY <1>2, IdleType DEF ActionState, Pc, IdleAction
<1>4. action' = [action EXCEPT ![i] = next]
  BY DEF Execute, Advance
<1>5. StoreTypeOK' /\ BoundsTypeOK'
  BY <1>1 DEF Execute, TypeInv, TypeOK, StoreTypeOK, BoundsTypeOK, dbVars
<1>6. MemoryTypeOK'
  BY StoreAssumption DEF Execute, TypeInv, TypeOK, MemoryTypeOK, NoRetry
<1>7. HandlersTypeOK' /\ CallsHaveSession'
  <2> HIDE DEF next, i
  <2>1. running' = i /\ UNCHANGED opVars
    BY DEF Execute, i
  <2> QED BY <1>1, <1>3, <1>4, <2>1
          DEF TypeInv, TypeOK, HandlersTypeOK, CallsHaveSession, opVars
<1> QED BY <1>5, <1>6, <1>7 DEF TypeInv, TypeOK

(* Initially everything is loaded or empty. *)
LEMMA TypeInit == Init => TypeInv
<1> SUFFICES ASSUME Init PROVE TypeInv
  OBVIOUS
<1> USE StoreAssumption
<1>1. StoreTypeOK
  <2>1. \A k \in 1 .. History, r \in Role : [role |-> r, at |-> k] \in Turn
    BY DEF Turn
  <2>2. \A k \in 1 .. History :
          [num |-> k, turn |-> ModelTurn(k), downloaded |-> FALSE] \in Version
    BY DEF Version, ModelTurn, Turn, Role
  <2>3. EarlierMeta \in Meta
    BY <2>1, <2>2 DEF EarlierMeta, Meta
  <2>4. metaOf \in [Session -> Meta]
    BY <2>3, EmptyMetaType DEF Init
  <2>5. \A s \in Session : metaOf[s].order \in SUBSET Turn /\ metaOf[s].next - 1 \in Nat
    BY <2>4 DEF Meta
  <2>6. rows \in [Session -> SUBSET Turn] /\ assigned \in [Session -> Nat]
    BY <2>5 DEF Init
  <2> QED BY <2>4, <2>6 DEF Init, StoreTypeOK
<1>2. MemoryTypeOK
  BY EmptyMetaType DEF Init, MemoryTypeOK, NoCurrent, NoRetry
<1>3. HandlersTypeOK /\ CallsHaveSession
  <2>1. IdleAction \in ActionState /\ ~HasSession(IdleAction)
    BY IdleType DEF IdleAction, HasSession
  <2> QED BY <2>1 DEF Init, HandlersTypeOK, CallsHaveSession, Action
<1>4. BoundsTypeOK
  BY DEF Init, BoundsTypeOK
<1> QED BY <1>1, <1>2, <1>3, <1>4 DEF TypeInv, TypeOK

(* What the steps of a call and of the handler it ends in keep. *)
LEMMA CallStepType ==
  ASSUME TypeInv, NEW i \in Action, CallStep(i)
  PROVE  TypeInv'
<1>1. CASE Deadline(i)
  <2>1. CallEnds(i) /\ OfferRetry(i) /\ UNCHANGED blocked
    BY <1>1 DEF Deadline
  <2> QED BY <2>1, CallEndsType, OfferType DEF TypeInv, TypeOK, MemoryTypeOK, HandlersTypeOK
<1>2. CASE CallFails(i)
  <2>1. /\ CallEnds(i)
        /\ \/ blocked' = action[i].session /\ UNCHANGED retryTurn
           \/ OfferRetry(i) /\ UNCHANGED blocked
           \/ UNCHANGED <<retryTurn, blocked>>
    BY <1>2 DEF CallFails
  <2>2. action[i].session \in Session \cup {NoSession}
    BY DEF TypeInv, TypeOK, HandlersTypeOK, ActionState
  <2>3. /\ retryTurn' \in [session : Session \cup {NoSession}, content : 0 .. MaxContent]
        /\ blocked' \in Session \cup {NoSession}
    BY <2>1, <2>2, OfferType DEF TypeInv, TypeOK, MemoryTypeOK, HandlersTypeOK
  <2> QED BY <2>1, <2>3, CallEndsType DEF TypeInv, TypeOK, MemoryTypeOK
<1>3. CASE CallAnswered(i)
  <2>1. PICK images \in 0 .. MaxImages, trimmed \in TrimChoices(action[i].sent), ok \in May("read") :
          Advance(i, [action[i] EXCEPT
                        !.pc = "verifying", !.images = images, !.trimmed = trimmed, !.ok = ok,
                        !.alive = stored \cap {action[i].session}])
    BY <1>3 DEF CallAnswered
  <2> DEFINE next == [action[i] EXCEPT
                        !.pc = "verifying", !.images = images, !.trimmed = trimmed, !.ok = ok,
                        !.alive = stored \cap {action[i].session}]
  <2>2. action[i] \in ActionState /\ action[i].session \in Session
    BY <1>3 DEF TypeInv, TypeOK, HandlersTypeOK, CallsHaveSession, HasSession, CallAnswered
  <2>3. trimmed \in SUBSET Turn
    <3>1. action[i].sent \in SUBSET Turn
      BY <2>2 DEF ActionState
    <3> QED BY <3>1 DEF TrimChoices
  <2>4. next \in ActionState /\ next.session \in Session
    BY <2>2, <2>3, MayType DEF ActionState, Pc
  <2>5. action' = [action EXCEPT ![i] = next]
    BY <2>1 DEF Advance
  <2>6. HandlersTypeOK' /\ CallsHaveSession'
    <3> HIDE DEF next
    <3> QED BY <1>3, <2>4, <2>5 DEF CallAnswered, TypeInv, TypeOK, HandlersTypeOK, CallsHaveSession, opVars
  <2> QED BY <1>3, <2>6 DEF CallAnswered, TypeInv, TypeOK, StoreTypeOK, MemoryTypeOK, BoundsTypeOK,
             dbVars, memVars, boundVars
<1> QED BY <1>1, <1>2, <1>3 DEF CallStep

(* A handler that leaves the records as they are and ends. *)
LEMMA EndsType ==
  ASSUME TypeInv, NEW i \in Action, Finish(i),
         UNCHANGED <<opVars, boundVars, now>>, StoreTypeOK', MemoryTypeOK'
  PROVE  TypeInv'
<1>1. action' \in [Action -> ActionState] /\ running' \in Action /\ CallsHaveSession'
  BY FinishType DEF TypeInv, TypeOK, HandlersTypeOK
<1> QED BY <1>1 DEF TypeInv, TypeOK, HandlersTypeOK, BoundsTypeOK, opVars, boundVars

(* A handler that moves on within its session. *)
LEMMA MovesType ==
  ASSUME TypeInv, NEW i \in Action, NEW next \in ActionState, Advance(i, next),
         HasSession(next) => next.session \in Session
  PROVE  action' \in [Action -> ActionState] /\ CallsHaveSession'
BY AdvanceType DEF TypeInv, TypeOK, HandlersTypeOK, CallsHaveSession, Advance

(* The verdict on the session of an answered call. *)
LEMMA VerifiedType ==
  ASSUME TypeInv, NEW i \in Action, VerifyFails(i) \/ Discard(i) \/ StartCommit(i)
  PROVE  TypeInv'
<1>1. CASE VerifyFails(i)
  <2>1. CallEnds(i) /\ OfferRetry(i) /\ UNCHANGED blocked
    BY <1>1 DEF VerifyFails
  <2> QED BY <2>1, CallEndsType, OfferType DEF TypeInv, TypeOK, MemoryTypeOK, HandlersTypeOK
<1>2. CASE Discard(i)
  <2>1. 0 \in Action
    BY StoreAssumption DEF Action
  <2>2. StartReload(i, 0) /\ UNCHANGED <<memVars, opVars, boundVars, now>>
    BY <1>2 DEF Discard
  <2> QED BY <2>1, <2>2, StartReloadType DEF TypeInv, TypeOK, MemoryTypeOK, HandlersTypeOK, BoundsTypeOK,
             memVars, opVars, boundVars
<1>3. CASE StartCommit(i)
  <2> DEFINE s == action[i].session
             next(ok) == [action[i] EXCEPT !.pc = "loading", !.ok = ok, !.alive = stored \cap {s},
                            !.loaded = IF ok THEN LoadOf(s) ELSE Nothing]
  <2>1. PICK ok \in May("read") : Advance(i, next(ok))
    BY <1>3 DEF StartCommit
  <2>2. action[i] \in ActionState /\ s \in Session
    BY <1>3 DEF TypeInv, TypeOK, HandlersTypeOK, CallsHaveSession, HasSession, StartCommit
  <2>3. (IF ok THEN LoadOf(s) ELSE Nothing) \in Stored
    BY <2>2, LoadedType DEF TypeInv, TypeOK
  <2>4. next(ok) \in ActionState /\ next(ok).session \in Session
    BY <2>2, <2>3, MayType DEF ActionState, Pc
  <2>5. action' \in [Action -> ActionState] /\ CallsHaveSession'
    <3> HIDE DEF next
    <3> QED BY <2>1, <2>4, MovesType
  <2>6. running' \in Action
    <3>1. running' = 0 /\ 0 \in Action
      <4>1. running' = 0
        BY <1>3, Zenon DEF StartCommit
      <4> QED BY <4>1, StoreAssumption DEF Action
    <3> QED BY <3>1
  <2> QED BY <1>3, <2>5, <2>6 DEF StartCommit, TypeInv, TypeOK, StoreTypeOK, MemoryTypeOK,
             HandlersTypeOK, BoundsTypeOK, dbVars, memVars, opVars, boundVars
<1> QED BY <1>1, <1>2, <1>3

(* commitResponse. *)
LEMMA CommitType ==
  ASSUME TypeInv, NEW i \in Action, Commit(i)
  PROVE  TypeInv'
<1> DEFINE a == action[i]
           s == a.session
           meta == ApplyMeta(a.loaded, a.trimmed, a.images, commits + 1, now)
           turns == ApplyTurns(rows[s], a.loaded, a.trimmed, a.images, commits + 1)
           shown == ApplyTurns(a.loaded.turns, a.loaded, a.trimmed, a.images, commits + 1)
           next(ok) == [a EXCEPT !.pc = "committing", !.ok = ok, !.loaded = View(meta, shown)]
<1>1. a \in ActionState /\ s \in Session
  BY DEF Commit, Loaded, TypeInv, TypeOK, HandlersTypeOK, CallsHaveSession, HasSession
<1>2. a.loaded \in Stored /\ a.images \in Nat /\ a.loaded.turns \in SUBSET Turn
  BY <1>1, StoreAssumption DEF ActionState, Stored
<1>3. rows[s] \in SUBSET Turn /\ commits + 1 \in Nat /\ now \in Nat
  BY <1>1 DEF TypeInv, TypeOK, StoreTypeOK, BoundsTypeOK
<1>4. meta \in Meta
  BY <1>2, <1>3, ApplyMetaType
<1>5. turns \in SUBSET Turn /\ shown \in SUBSET Turn
  BY <1>2, <1>3, ApplyTurnsType
<1>6. View(meta, shown) \in Stored
  BY <1>4, <1>5, ViewType
<1>7. PICK ok \in May("write") :
        /\ IF ok THEN Put(s, meta, turns) ELSE UNCHANGED dbVars
        /\ Advance(i, next(ok))
  BY DEF Commit
<1>8. next(ok) \in ActionState /\ next(ok).session \in Session
  <2> HIDE DEF meta, shown
  <2> QED BY <1>1, <1>6, MayType DEF ActionState, Pc
<1>9. action' \in [Action -> ActionState] /\ CallsHaveSession'
  <2> HIDE DEF next
  <2> QED BY <1>7, <1>8, MovesType
<1>10. StoreTypeOK'
  <2> HIDE DEF meta, turns, s
  <2>1. CASE ok
    BY <2>1, <1>1, <1>4, <1>5, <1>7, PutType DEF TypeInv, TypeOK
  <2>2. CASE ~ok
    BY <2>2, <1>7 DEF TypeInv, TypeOK, StoreTypeOK, dbVars
  <2> QED BY <2>1, <2>2
<1> QED BY <1>3, <1>9, <1>10 DEF Commit, TypeInv, TypeOK, MemoryTypeOK, HandlersTypeOK, BoundsTypeOK,
           memVars, opVars

(* The other steps of commitResponse. *)
LEMMA ResponseType ==
  ASSUME TypeInv, NEW i \in Action,
         \/ LoadFails(i) \/ LoadFindsNothing(i) \/ RefuseResponse(i) \/ RecordReply(i)
         \/ CommitFails(i) \/ Committed(i)
  PROVE  TypeInv'
<1>1. CASE LoadFails(i)
  BY <1>1, EndsType DEF LoadFails, TypeInv, TypeOK, StoreTypeOK, MemoryTypeOK, dbVars, memVars
<1>2. CASE LoadFindsNothing(i)
  <2>1. StartReload(i, running) /\ UNCHANGED <<memVars, opVars, boundVars, now>> /\ running \in Action
    BY <1>2 DEF LoadFindsNothing, TypeInv, TypeOK, HandlersTypeOK
  <2> QED BY <2>1, StartReloadType DEF TypeInv, TypeOK, MemoryTypeOK, HandlersTypeOK, BoundsTypeOK,
             memVars, opVars, boundVars
<1>3. CASE RefuseResponse(i) \/ CommitFails(i)
  <2>1. /\ Finish(i) /\ Restore(i)
        /\ UNCHANGED <<dbVars, current, listed, retryTurn, blocked, opVars, boundVars, now>>
    BY <1>3 DEF RefuseResponse, CommitFails
  <2>2. StoreTypeOK' /\ MemoryTypeOK'
    BY <2>1, RestoreType DEF TypeInv, TypeOK, StoreTypeOK, MemoryTypeOK, HandlersTypeOK, dbVars
  <2> QED BY <2>1, <2>2, EndsType
<1>4. CASE RecordReply(i)
  <2>1. /\ Finish(i) /\ Restore(i) /\ OfferRetry(i)
        /\ UNCHANGED <<dbVars, current, listed, blocked, opVars, boundVars, now>>
    BY <1>4 DEF RecordReply
  <2>2. StoreTypeOK' /\ MemoryTypeOK'
    BY <2>1, RestoreType, OfferType DEF TypeInv, TypeOK, StoreTypeOK, MemoryTypeOK, HandlersTypeOK, dbVars
  <2> QED BY <2>1, <2>2, EndsType
<1>5. CASE Committed(i)
  <2>1. /\ ReplaceStored(action[i].session, action[i].loaded)
        /\ IF action[i].images = 0
             THEN Restore(i) /\ OfferRetry(i)
             ELSE UNCHANGED <<drafts, retryTurn>>
        /\ Finish(i)
        /\ UNCHANGED <<dbVars, listed, blocked, opVars, boundVars, now>>
    BY <1>5 DEF Committed
  <2>2. action[i].loaded \in Stored /\ action[i].session \in Session \cup {NoSession}
    BY DEF TypeInv, TypeOK, HandlersTypeOK, ActionState
  <2>3. current' \in [id : Session \cup {NoSession}, meta : Meta, turns : SUBSET Turn]
    BY <2>1, <2>2 DEF ReplaceStored, Show, TypeInv, TypeOK, MemoryTypeOK, Stored
  <2>4. /\ drafts' \in [Session \cup {NoSession} -> 0 .. MaxContent]
        /\ retryTurn' \in [session : Session \cup {NoSession}, content : 0 .. MaxContent]
    BY <2>1, RestoreType, OfferType DEF TypeInv, TypeOK, MemoryTypeOK, HandlersTypeOK
  <2>5. StoreTypeOK' /\ MemoryTypeOK'
    BY <2>1, <2>3, <2>4 DEF TypeInv, TypeOK, StoreTypeOK, MemoryTypeOK, dbVars
  <2> QED BY <2>1, <2>5, EndsType
<1> QED BY <1>1, <1>2, <1>3, <1>4, <1>5

(* refreshSessions and init, once loadAndExpire answered. *)
LEMMA ReloadType ==
  ASSUME TypeInv, NEW i \in Action,
         ReloadKeeps(i) \/ ReloadSelects(i) \/ Reselected(i) \/ ReloadCreates(i)
  PROVE  TypeInv'
<1>1. action[i] \in ActionState /\ action[i].alive \subseteq Session
      /\ action[i].session \in Session \cup {NoSession} /\ action[i].loaded \in Stored
  BY DEF TypeInv, TypeOK, HandlersTypeOK, ActionState
<1>2. current.id \in Session \cup {NoSession}
      /\ NoCurrent \in [id : Session \cup {NoSession}, meta : Meta, turns : SUBSET Turn]
  BY EmptyMetaType DEF TypeInv, TypeOK, MemoryTypeOK, NoCurrent
<1>3. CASE ReloadKeeps(i)
  <2>1. StoreTypeOK' /\ MemoryTypeOK'
    BY <1>1, <1>3 DEF ReloadKeeps, TypeInv, TypeOK, StoreTypeOK, MemoryTypeOK, dbVars
  <2> QED BY <1>3, <2>1, EndsType DEF ReloadKeeps
<1>4. CASE ReloadSelects(i)
  <2> DEFINE s == action[i].session
             next(ok) == [action[i] EXCEPT !.pc = "reselecting", !.ok = ok /\ s \in stored,
                            !.loaded = IF ok THEN LoadOf(s) ELSE Nothing]
  <2>1. PICK ok \in May("read") : Advance(i, next(ok))
    BY <1>4 DEF ReloadSelects
  <2>2. (IF ok THEN LoadOf(s) ELSE Nothing) \in Stored
    <3>1. s \in Session
      BY <1>4 DEF ReloadSelects, ReloadReplaces, HasSession, TypeInv, CallsHaveSession
    <3> QED BY <3>1, LoadedType DEF TypeInv, TypeOK
  <2>3. next(ok) \in ActionState /\ ~HasSession(next(ok))
    <3>1. (ok /\ s \in stored) \in BOOLEAN
      OBVIOUS
    <3> QED BY <1>1, <2>2, <3>1 DEF ActionState, Pc, HasSession
  <2>4. action' \in [Action -> ActionState] /\ CallsHaveSession'
    <3> HIDE DEF next
    <3> QED BY <2>1, <2>3, MovesType
  <2>5. MemoryTypeOK'
    BY <1>1, <1>2, <1>4 DEF ReloadSelects, ReloadReplaces, TypeInv, TypeOK, MemoryTypeOK
  <2> QED BY <1>4, <2>4, <2>5 DEF ReloadSelects, ReloadReplaces, TypeInv, TypeOK, StoreTypeOK,
             HandlersTypeOK, BoundsTypeOK, dbVars
<1>5. CASE Reselected(i)
  <2>1. MemoryTypeOK'
    BY <1>1, <1>5 DEF Reselected, Show, Stored, TypeInv, TypeOK, MemoryTypeOK
  <2> QED BY <1>5, <2>1, EndsType DEF Reselected, TypeInv, TypeOK, StoreTypeOK, dbVars
<1>6. CASE ReloadCreates(i)
  <2> DEFINE next == [action[i] EXCEPT !.pc = "recreating"]
             leaving == IF i = Opening THEN current.id ELSE NoSession
  <2>1. Advance(i, next) /\ NewCreate(leaving, 0, i)
    BY <1>6 DEF ReloadCreates
  <2>2. next \in ActionState /\ ~HasSession(next)
    BY <1>1 DEF ActionState, Pc, HasSession
  <2>3. action' \in [Action -> ActionState] /\ CallsHaveSession'
    <3> HIDE DEF next
    <3> QED BY <2>1, <2>2, MovesType
  <2>4. creates' \subseteq CreateOp /\ used' \subseteq Session
    <3>1. leaving \in Session \cup {NoSession} /\ 0 \in 0 .. MaxContent
      BY <1>2, StoreAssumption
    <3> HIDE DEF leaving
    <3> QED BY <2>1, <3>1, NewCreateType
  <2>5. MemoryTypeOK'
    BY <1>1, <1>2, <1>6 DEF ReloadCreates, ReloadReplaces, TypeInv, TypeOK, MemoryTypeOK
  <2> QED BY <1>6, <2>3, <2>4, <2>5 DEF ReloadCreates, ReloadReplaces, TypeInv, TypeOK, StoreTypeOK,
             HandlersTypeOK, BoundsTypeOK, dbVars
<1> QED BY <1>3, <1>4, <1>5, <1>6

(* What the user does in the composer, with a call and with the list. *)
LEMMA UserStepType == ASSUME TypeInv, UserStep PROVE TypeInv'
<1>1. CASE Open
  <2>1. Opening \in Action
    BY StoreAssumption DEF Action, Opening
  <2>2. StartReload(Opening, running) /\ UNCHANGED <<memVars, opVars, boundVars, now>> /\ running \in Action
    BY <1>1 DEF Open, TypeInv, TypeOK, HandlersTypeOK
  <2> QED BY <2>1, <2>2, StartReloadType DEF TypeInv, TypeOK, MemoryTypeOK, HandlersTypeOK,
             BoundsTypeOK, memVars, opVars, boundVars
<1>2. CASE Type \/ EditVersion
  <2>1. contents' \in 0 .. MaxContent /\ contents + 1 \in 0 .. MaxContent
    BY <1>2, StoreAssumption DEF Type, EditVersion, TypeInv, TypeOK, BoundsTypeOK
  <2>2. drafts' \in [Session \cup {NoSession} -> 0 .. MaxContent]
    BY <1>2, <2>1 DEF Type, EditVersion, TypeInv, TypeOK, MemoryTypeOK
  <2> QED BY <1>2, <2>1, <2>2 DEF Type, EditVersion, TypeInv, TypeOK, StoreTypeOK, MemoryTypeOK,
             HandlersTypeOK, BoundsTypeOK, CallsHaveSession, dbVars, opVars
<1>3. CASE Send \/ Retry
  <2>1. /\ drafts[current.id] \in 0 .. MaxContent
        /\ retryTurn.content \in 0 .. MaxContent
    BY DEF TypeInv, TypeOK, MemoryTypeOK
  <2> QED BY <1>3, <2>1, ExecuteType DEF Send, Retry
<1>4. CASE Cancel
  <2>1. running \in Action /\ CallEnds(running) /\ UNCHANGED <<retryTurn, blocked>>
    BY <1>4 DEF Cancel, TypeInv, TypeOK, HandlersTypeOK
  <2> QED BY <2>1, CallEndsType DEF TypeInv, TypeOK, MemoryTypeOK
<1>5. CASE Select
  <2> DEFINE op(s, ok) == [id |-> s, ok |-> ok /\ s \in stored,
                           loaded |-> IF ok THEN LoadOf(s) ELSE Nothing]
  <2>1. PICK s \in listed, ok \in May("read") : selects' = selects \cup {op(s, ok)}
    BY <1>5 DEF Select
  <2>2. s \in Session
    BY DEF TypeInv, TypeOK, MemoryTypeOK
  <2>3. (IF ok THEN LoadOf(s) ELSE Nothing) \in Stored
    BY <2>2, LoadedType DEF TypeInv, TypeOK
  <2>4. op(s, ok) \in SelectOp
    <3>1. (ok /\ s \in stored) \in BOOLEAN
      OBVIOUS
    <3> QED BY <2>2, <2>3, <3>1 DEF SelectOp
  <2>5. selects' \subseteq SelectOp
    <3> HIDE DEF op
    <3> QED BY <2>1, <2>4 DEF TypeInv, TypeOK, HandlersTypeOK
  <2> QED BY <1>5, <2>5 DEF Select, TypeInv, TypeOK, StoreTypeOK, MemoryTypeOK, HandlersTypeOK,
             BoundsTypeOK, CallsHaveSession, dbVars, memVars, boundVars
<1>6. CASE NewSession \/ SeededSession
  <2>1. current.id \in Session \cup {NoSession} /\ NoAction \in Action \cup {NoAction}
    BY DEF TypeInv, TypeOK, MemoryTypeOK
  <2>2. PICK seed \in 0 .. MaxContent :
          NewCreate(current.id, seed, NoAction) /\ contents' \in 0 .. MaxContent
    BY <1>6, StoreAssumption DEF NewSession, SeededSession, TypeInv, TypeOK, BoundsTypeOK
  <2>3. creates' \subseteq CreateOp /\ used' \subseteq Session
    BY <2>1, <2>2, NewCreateType
  <2> QED BY <1>6, <2>2, <2>3 DEF NewSession, SeededSession, TypeInv, TypeOK, StoreTypeOK, MemoryTypeOK,
             HandlersTypeOK, BoundsTypeOK, CallsHaveSession, dbVars, memVars
<1>7. CASE Deliver
  <2>1. PICK v \in current.meta.versions :
          marks' = marks \cup {[origin |-> current.id, num |-> v.num, flagged |-> NoSession,
                                ok |-> FALSE, written |-> Nothing]}
    BY <1>7 DEF Deliver
  <2>2. v.num \in Nat /\ current.id \in Session \cup {NoSession}
    BY DEF TypeInv, TypeOK, MemoryTypeOK, Meta, Version
  <2>3. PICK op \in MarkOp : marks' = marks \cup {op}
    <3>1. current.id # NoSession
      BY <1>7 DEF Deliver, TypeInv
    <3> QED BY <2>1, <2>2, <3>1, EmptyMetaType DEF MarkOp
  <2> QED BY <1>7, <2>3 DEF Deliver, TypeInv, TypeOK, StoreTypeOK, MemoryTypeOK, HandlersTypeOK,
             BoundsTypeOK, CallsHaveSession, dbVars, memVars, boundVars
<1> QED BY <1>1, <1>2, <1>3, <1>4, <1>5, <1>6, <1>7 DEF UserStep

(* The storage calls of creations. *)
LEMMA CreationType ==
  ASSUME TypeInv, CreateRuns \/ Created
  PROVE  TypeInv'
<1>1. CASE CreateRuns
  <2>1. PICK op \in creates :
          /\ \/ /\ creates' = (creates \ {op}) \cup {[op EXCEPT !.ran = TRUE]}
                /\ UNCHANGED dbVars
             \/ \E victims \in SUBSET stored :
                  /\ creates' = (creates \ {op})
                                  \cup {[op EXCEPT !.ran = TRUE, !.ok = TRUE, !.evicted = victims]}
                  /\ stored' = (stored \ victims) \cup {op.id}
                  /\ metaOf' = [s \in Session |-> IF s = op.id THEN EmptyMeta(op.since)
                                                  ELSE IF s \in victims THEN EmptyMeta(0) ELSE metaOf[s]]
                  /\ rows' = [s \in Session |-> IF s \in victims THEN {} ELSE rows[s]]
                  /\ UNCHANGED assigned
          /\ UNCHANGED <<memVars, selects, marks, boundVars, running, action, now>>
    BY <1>1 DEF CreateRuns
  <2>2. op \in CreateOp /\ op.id \in Session /\ op.since \in Nat
    BY DEF TypeInv, TypeOK, HandlersTypeOK, CreateOp
  <2>3. creates' \subseteq CreateOp /\ StoreTypeOK'
    <3>1. CASE creates' = (creates \ {op}) \cup {[op EXCEPT !.ran = TRUE]} /\ UNCHANGED dbVars
      <4>1. [op EXCEPT !.ran = TRUE] \in CreateOp
        BY <2>2 DEF CreateOp
      <4> QED BY <3>1, <4>1 DEF TypeInv, TypeOK, HandlersTypeOK, StoreTypeOK, dbVars
    <3>2. ASSUME NEW victims \in SUBSET stored,
                 creates' = (creates \ {op})
                              \cup {[op EXCEPT !.ran = TRUE, !.ok = TRUE, !.evicted = victims]},
                 stored' = (stored \ victims) \cup {op.id},
                 metaOf' = [s \in Session |-> IF s = op.id THEN EmptyMeta(op.since)
                                              ELSE IF s \in victims THEN EmptyMeta(0) ELSE metaOf[s]],
                 rows' = [s \in Session |-> IF s \in victims THEN {} ELSE rows[s]],
                 UNCHANGED assigned
          PROVE  creates' \subseteq CreateOp /\ StoreTypeOK'
      <4>1. victims \in SUBSET Session
        BY DEF TypeInv, TypeOK, StoreTypeOK
      <4>2. [op EXCEPT !.ran = TRUE, !.ok = TRUE, !.evicted = victims] \in CreateOp
        BY <2>2, <4>1 DEF CreateOp
      <4>3. creates' \subseteq CreateOp
        BY <3>2, <4>2 DEF TypeInv, TypeOK, HandlersTypeOK
      <4>4. metaOf' \in [Session -> Meta]
        BY <2>2, <3>2, EmptyMetaType DEF TypeInv, TypeOK, StoreTypeOK
      <4> QED BY <2>2, <3>2, <4>3, <4>4 DEF TypeInv, TypeOK, StoreTypeOK
    <3> QED BY <2>1, <3>1, <3>2
  <2> QED BY <2>1, <2>3 DEF TypeInv, TypeOK, MemoryTypeOK, HandlersTypeOK, BoundsTypeOK,
             CallsHaveSession, memVars, boundVars
<1>2. CASE Created
  <2>1. PICK op \in creates :
          /\ creates' = creates \ {op}
          /\ IF op.ok
               THEN /\ listed' = (listed \ op.evicted) \cup {op.id}
                    /\ drafts' = [s \in DOMAIN drafts |-> IF s = op.id THEN op.seed
                                                          ELSE IF s \in op.evicted THEN 0 ELSE drafts[s]]
                    /\ current' = Show(op.id, [meta |-> EmptyMeta(op.since), turns |-> {}])
               ELSE UNCHANGED <<listed, drafts, current>>
          /\ IF op.owner = NoAction THEN UNCHANGED <<running, action>> ELSE Finish(op.owner)
          /\ UNCHANGED <<dbVars, retryTurn, blocked, selects, marks, boundVars, now>>
    BY <1>2 DEF Created
  <2>2. op \in CreateOp
    BY DEF TypeInv, TypeOK, HandlersTypeOK
  <2>3. MemoryTypeOK'
    <3>1. CASE op.ok
      <4>1. current' \in [id : Session \cup {NoSession}, meta : Meta, turns : SUBSET Turn]
        BY <2>1, <2>2, <3>1, EmptyMetaType DEF Show, CreateOp
      <4>2. drafts' \in [Session \cup {NoSession} -> 0 .. MaxContent]
        <5>1. drafts \in [Session \cup {NoSession} -> 0 .. MaxContent]
          BY DEF TypeInv, TypeOK, MemoryTypeOK
        <5>2. op.seed \in 0 .. MaxContent /\ 0 \in 0 .. MaxContent
          BY <2>2, StoreAssumption DEF CreateOp
        <5>3. drafts' = [s \in Session \cup {NoSession} |->
                           IF s = op.id THEN op.seed ELSE IF s \in op.evicted THEN 0 ELSE drafts[s]]
          BY <2>1, <3>1, <5>1
        <5> QED BY <5>1, <5>2, <5>3
      <4> QED BY <2>1, <2>2, <3>1, <4>1, <4>2 DEF CreateOp, TypeInv, TypeOK, MemoryTypeOK
    <3>2. CASE ~op.ok
      BY <2>1, <3>2 DEF TypeInv, TypeOK, MemoryTypeOK
    <3> QED BY <3>1, <3>2
  <2>4. action' \in [Action -> ActionState] /\ running' \in Action /\ CallsHaveSession'
    <3>1. CASE op.owner = NoAction
      BY <2>1, <3>1 DEF TypeInv, TypeOK, HandlersTypeOK, CallsHaveSession
    <3>2. CASE op.owner # NoAction
      <4>1. op.owner \in Action
        BY <2>2, <3>2 DEF CreateOp
      <4> QED BY <2>1, <3>2, <4>1, FinishType DEF TypeInv, TypeOK, HandlersTypeOK
    <3> QED BY <3>1, <3>2
  <2> QED BY <2>1, <2>3, <2>4 DEF TypeInv, TypeOK, StoreTypeOK, HandlersTypeOK, BoundsTypeOK,
             dbVars, boundVars
<1> QED BY <1>1, <1>2

(* The storage calls of selects and of the downloaded flag. *)
LEMMA FlagType ==
  ASSUME TypeInv, Selected \/ DeliveryEnds \/ MarkDownloaded \/ Marked
  PROVE  TypeInv'
<1>1. CASE Selected
  <2>1. PICK op \in selects :
          /\ selects' = selects \ {op}
          /\ current' = IF op.ok THEN Show(op.id, op.loaded) ELSE current
          /\ UNCHANGED <<dbVars, listed, drafts, retryTurn, blocked, creates, marks, boundVars,
                         running, action, now>>
    BY <1>1 DEF Selected
  <2>2. op \in SelectOp
    BY DEF TypeInv, TypeOK, HandlersTypeOK
  <2>3. current' \in [id : Session \cup {NoSession}, meta : Meta, turns : SUBSET Turn]
    BY <2>1, <2>2 DEF SelectOp, Show, Stored, TypeInv, TypeOK, MemoryTypeOK
  <2> QED BY <2>1, <2>3 DEF TypeInv, TypeOK, StoreTypeOK, MemoryTypeOK, HandlersTypeOK, BoundsTypeOK,
             CallsHaveSession, dbVars, boundVars
<1>2. CASE DeliveryEnds
  BY <1>2 DEF DeliveryEnds, TypeInv, TypeOK, StoreTypeOK, MemoryTypeOK, HandlersTypeOK, BoundsTypeOK,
     CallsHaveSession, dbVars, memVars, boundVars
<1>3. CASE MarkDownloaded
  <2> DEFINE meta(m) == FlagMeta(current.meta, m.num, now)
             flag(m, ok) == [m EXCEPT !.flagged = current.id, !.ok = ok,
                               !.written = [meta |-> meta(m), turns |-> current.turns]]
  <2>1. PICK m \in marks, ok \in May("write") :
          /\ current.id # NoSession
          /\ marks' = (marks \ {m}) \cup {flag(m, ok)}
          /\ IF ok THEN Put(current.id, meta(m), rows[current.id]) ELSE UNCHANGED dbVars
    BY <1>3 DEF MarkDownloaded
  <2>2. m \in MarkOp /\ current.id \in Session /\ current.meta \in Meta
        /\ current.turns \in SUBSET Turn /\ now \in Nat
    BY <2>1 DEF TypeInv, TypeOK, MemoryTypeOK, HandlersTypeOK, BoundsTypeOK
  <2>3. meta(m) \in Meta
    BY <2>2, FlagMetaType
  <2>4. flag(m, ok) \in MarkOp
    <3> HIDE DEF meta
    <3>1. [meta |-> meta(m), turns |-> current.turns] \in Stored
      BY <2>2, <2>3 DEF Stored
    <3> QED BY <2>2, <3>1, MayType DEF MarkOp
  <2>5. marks' \subseteq MarkOp
    <3> HIDE DEF flag
    <3> QED BY <2>1, <2>4 DEF TypeInv, TypeOK, HandlersTypeOK
  <2>6. StoreTypeOK'
    <3> HIDE DEF meta, flag
    <3>1. rows[current.id] \in SUBSET Turn
      BY <2>2 DEF TypeInv, TypeOK, StoreTypeOK
    <3>2. CASE ok
      BY <2>1, <2>2, <2>3, <3>1, <3>2, PutType DEF TypeInv, TypeOK
    <3>3. CASE ~ok
      BY <2>1, <3>3 DEF TypeInv, TypeOK, StoreTypeOK, dbVars
    <3> QED BY <3>2, <3>3
  <2> QED BY <1>3, <2>5, <2>6 DEF MarkDownloaded, TypeInv, TypeOK, MemoryTypeOK, HandlersTypeOK,
             BoundsTypeOK, CallsHaveSession, memVars, boundVars
<1>4. CASE Marked
  <2>1. PICK m \in marks :
          /\ marks' = marks \ {m}
          /\ IF m.ok THEN ReplaceStored(m.flagged, m.written) ELSE UNCHANGED current
          /\ UNCHANGED <<dbVars, listed, drafts, retryTurn, blocked, creates, selects, boundVars,
                         running, action, now>>
    BY <1>4 DEF Marked
  <2>2. m \in MarkOp
    BY DEF TypeInv, TypeOK, HandlersTypeOK
  <2>3. current' \in [id : Session \cup {NoSession}, meta : Meta, turns : SUBSET Turn]
    BY <2>1, <2>2 DEF MarkOp, ReplaceStored, Show, Stored, TypeInv, TypeOK, MemoryTypeOK
  <2> QED BY <2>1, <2>3 DEF TypeInv, TypeOK, StoreTypeOK, MemoryTypeOK, HandlersTypeOK, BoundsTypeOK,
             CallsHaveSession, dbVars, boundVars
<1> QED BY <1>1, <1>2, <1>3, <1>4

(* Every step keeps the types. *)
LEMMA TypeStep == TypeInv /\ [Next]_vars => TypeInv'
<1> SUFFICES ASSUME TypeInv, [Next]_vars PROVE TypeInv'
  OBVIOUS
<1>1. CASE Tick
  BY <1>1 DEF Tick, TypeInv, TypeOK, StoreTypeOK, MemoryTypeOK, HandlersTypeOK, BoundsTypeOK,
     CallsHaveSession, dbVars, memVars, opVars, boundVars
<1>2. CASE UserStep
  BY <1>2, UserStepType
<1>3. CASE CreateRuns \/ Created
  BY <1>3, CreationType
<1>4. CASE Selected \/ DeliveryEnds \/ MarkDownloaded \/ Marked
  BY <1>4, FlagType
<1>5. CASE \E i \in Action : CallStep(i) \/ Continue(i)
  BY <1>5, CallStepType, VerifiedType, CommitType, ResponseType, ReloadType DEF Continue
<1>6. CASE UNCHANGED vars
  BY <1>6 DEF vars, TypeInv, TypeOK, StoreTypeOK, MemoryTypeOK, HandlersTypeOK, BoundsTypeOK,
     CallsHaveSession, dbVars, memVars, opVars, boundVars
<1> QED BY <1>1, <1>2, <1>3, <1>4, <1>5, <1>6 DEF Next

(* The inductive invariant behind the types: an action that may still commit *)
(* has a session to commit to.                                               *)
THEOREM TypeInvariant == Spec => []TypeInv
BY TypeInit, TypeStep, PTL DEF Spec

(* Types hold in every reachable state, however the handlers interleave: no  *)
(* handler writes under the id of no session.                                *)
THEOREM TypeCorrect == Spec => []TypeOK
<1>1. TypeInv => TypeOK
  BY DEF TypeInv
<1> QED BY <1>1, TypeInvariant, PTL

-----------------------------------------------------------------------------
(* Every copy of a session is well formed and behind the numbers stored.    *)

(* A copy `m` of session s: well formed, and numbering no version that was   *)
(* not stored first.                                                         *)
KeptBy(numbers, s, m) ==
  /\ WellFormed(m)
  /\ s \in Session => m.next - 1 <= numbers[s]

(* The copies whose storage call resolved. *)
Answered(a) == a.ok /\ a.pc \in {"loading", "committing", "reselecting"}

StoreKept == \A s \in Session : KeptBy(assigned, s, metaOf[s])
CurrentKept == KeptBy(assigned, current.id, current.meta)
ActionKept(numbers, a) ==
  /\ WellFormed(a.loaded.meta)
  /\ Answered(a) => KeptBy(numbers, a.session, a.loaded.meta)
ActionsKept == \A i \in Action : ActionKept(assigned, action[i])
SelectKept(numbers, op) ==
  /\ WellFormed(op.loaded.meta)
  /\ op.ok => KeptBy(numbers, op.id, op.loaded.meta)
SelectsKept == \A op \in selects : SelectKept(assigned, op)
MarkKept(numbers, m) ==
  /\ WellFormed(m.written.meta)
  /\ m.ok /\ m.flagged # NoSession => KeptBy(numbers, m.flagged, m.written.meta)
MarksKept == \A m \in marks : MarkKept(assigned, m)

CopiesKept == StoreKept /\ CurrentKept /\ ActionsKept /\ SelectsKept /\ MarksKept

NumbersGrow == \A s \in Session : assigned[s] <= assigned'[s]

(* An empty session has no versions. *)
LEMMA EmptyKept ==
  /\ \A t \in Nat : WellFormed(EmptyMeta(t)) /\ EmptyMeta(t).next = 1
  /\ WellFormed(Nothing.meta) /\ Nothing.meta.next = 1
BY DEF WellFormed, EmptyMeta, Nothing

(* The flag changes neither the number nor the turn of a version. *)
LEMMA FlagKept ==
  ASSUME NEW meta \in Meta, NEW num, NEW t \in Nat, WellFormed(meta)
  PROVE  WellFormed(FlagMeta(meta, num, t))
<1> DEFINE f(v) == IF v.num = num THEN [v EXCEPT !.downloaded = TRUE] ELSE v
           new == FlagMeta(meta, num, t)
<1>1. \A v \in meta.versions : f(v).num = v.num /\ f(v).turn = v.turn
  BY DEF Meta, Version
<1>2. /\ new.versions = {f(v) : v \in meta.versions}
      /\ new.next = meta.next /\ new.order = meta.order
  BY DEF FlagMeta, Meta
<1>3. \A v \in new.versions : v.num \in 1 .. new.next - 1 /\ v.turn \in new.order
  <2> HIDE DEF f, new
  <2> QED BY <1>1, <1>2 DEF WellFormed
<1>4. \A v, w \in new.versions : v.num = w.num => v = w
  <2> HIDE DEF f, new
  <2>1. ASSUME NEW x \in meta.versions, NEW y \in meta.versions, f(x).num = f(y).num
        PROVE  f(x) = f(y)
    BY <1>1, <2>1 DEF WellFormed
  <2> QED BY <1>2, <2>1
<1> QED BY <1>3, <1>4 DEF WellFormed

(* A response's cut takes a turn together with its versions, and the new     *)
(* versions are numbered from the next number on.                            *)
LEMMA ApplyKept ==
  ASSUME NEW s \in Stored, WellFormed(s.meta), NEW trimmed, NEW images \in Nat, NEW at \in Nat, NEW t
  PROVE  WellFormed(ApplyMeta(s, trimmed, images, at, t))
<1> DEFINE old == s.meta
           gone == Removed(s, trimmed)
           new == ApplyMeta(s, trimmed, images, at, t)
           left == {v \in old.versions : v.turn \notin gone}
           added == NewVersions(old.next, images, at)
<1>1. /\ new.versions = left \cup added
      /\ new.order = (old.order \ gone) \cup NewTurns(images, at)
      /\ new.next = old.next + images
  BY DEF ApplyMeta
<1>2. old.next \in Nat \ {0} /\ old.versions \subseteq Version
  BY DEF Stored, Meta
<1>3. \A v \in left : v.num \in 1 .. old.next - 1 /\ v.turn \in old.order \ gone
  BY DEF WellFormed
<1>4. \A v \in added : \E k \in 0 .. images - 1 :
        v = [num |-> old.next + k, turn |-> ModelTurn(at), downloaded |-> FALSE]
  BY DEF NewVersions
<1>5. \A v \in added : v.num \in old.next .. new.next - 1 /\ v.turn \in NewTurns(images, at)
  <2> SUFFICES ASSUME NEW v \in added
               PROVE  v.num \in old.next .. new.next - 1 /\ v.turn \in NewTurns(images, at)
    OBVIOUS
  <2>1. PICK k \in 0 .. images - 1 :
          v = [num |-> old.next + k, turn |-> ModelTurn(at), downloaded |-> FALSE]
    BY <1>4
  <2>2. v.num = old.next + k /\ v.turn = ModelTurn(at) /\ images # 0
    BY <2>1
  <2>3. v.num \in old.next .. new.next - 1
    <3> HIDE DEF new, added
    <3> QED BY <2>2, <1>1, <1>2
  <2> QED BY <2>2, <2>3 DEF NewTurns
<1>6. \A v, w \in added : v.num = w.num => v = w
  <2> SUFFICES ASSUME NEW v \in added, NEW w \in added, v.num = w.num PROVE v = w
    OBVIOUS
  <2>1. PICK k \in 0 .. images - 1 :
          v = [num |-> old.next + k, turn |-> ModelTurn(at), downloaded |-> FALSE]
    BY <1>4
  <2>2. PICK l \in 0 .. images - 1 :
          w = [num |-> old.next + l, turn |-> ModelTurn(at), downloaded |-> FALSE]
    BY <1>4
  <2>3. k = l
    BY <1>2, <2>1, <2>2
  <2> QED BY <2>1, <2>2, <2>3
<1>7. \A v \in new.versions : v.num \in 1 .. new.next - 1 /\ v.turn \in new.order
  <2> HIDE DEF new, left, added, gone
  <2> QED BY <1>1, <1>2, <1>3, <1>5
<1>8. \A v, w \in new.versions : v.num = w.num => v = w
  <2>1. \A v, w \in left : v.num = w.num => v = w
    BY DEF WellFormed
  <2>2. \A v \in left, w \in added : v.num # w.num
    <3> HIDE DEF new, left, added
    <3> QED BY <1>1, <1>2, <1>3, <1>5
  <2> HIDE DEF new, left, added
  <2> QED BY <1>1, <1>6, <2>1, <2>2
<1> QED BY <1>7, <1>8 DEF WellFormed

(* A copy stays behind numbers that only grow. *)
LEMMA KeptGrows ==
  ASSUME TypeInv, TypeInv', NumbersGrow, NEW s, NEW m \in Meta, KeptBy(assigned, s, m)
  PROVE  KeptBy(assigned', s, m)
BY DEF KeptBy, NumbersGrow, TypeInv, TypeOK, StoreTypeOK, Meta

(* A commit lets the numbers grow past the version it stores. *)
LEMMA PutGrows ==
  ASSUME StoreTypeOK, NEW s \in Session, NEW meta \in Meta, NEW turns, Put(s, meta, turns)
  PROVE  NumbersGrow /\ meta.next - 1 <= assigned'[s]
BY DEF Put, NumbersGrow, StoreTypeOK, Meta

(* No step forgets a number that was stored. *)
LEMMA NumbersGrowStep == TypeInv /\ [Next]_vars => NumbersGrow
<1> SUFFICES ASSUME TypeInv, [Next]_vars PROVE NumbersGrow
  OBVIOUS
<1>1. CASE UNCHANGED assigned
  BY <1>1 DEF NumbersGrow, TypeInv, TypeOK, StoreTypeOK
<1>2. CASE MarkDownloaded
  <2>1. PICK m \in marks, ok \in May("write") :
          /\ current.id # NoSession
          /\ IF ok THEN Put(current.id, FlagMeta(current.meta, m.num, now), rows[current.id])
                   ELSE UNCHANGED dbVars
    BY <1>2 DEF MarkDownloaded
  <2>2. current.id \in Session /\ FlagMeta(current.meta, m.num, now) \in Meta
    BY <2>1, FlagMetaType DEF TypeInv, TypeOK, MemoryTypeOK, BoundsTypeOK
  <2>3. CASE ok
    BY <2>1, <2>2, <2>3, PutGrows DEF TypeInv, TypeOK
  <2>4. CASE ~ok
    BY <1>1, <2>1, <2>4 DEF dbVars
  <2> QED BY <2>3, <2>4
<1>3. ASSUME NEW i \in Action, Commit(i)
      PROVE  NumbersGrow
  <2> DEFINE a == action[i]
             meta == ApplyMeta(a.loaded, a.trimmed, a.images, commits + 1, now)
             turns == ApplyTurns(rows[a.session], a.loaded, a.trimmed, a.images, commits + 1)
  <2>1. a \in ActionState /\ a.session \in Session /\ a.images \in Nat
    BY <1>3, StoreAssumption
       DEF Commit, Loaded, TypeInv, TypeOK, HandlersTypeOK, CallsHaveSession, HasSession, ActionState
  <2>2. meta \in Meta
    BY <2>1, ApplyMetaType DEF ActionState, TypeInv, TypeOK, BoundsTypeOK
  <2>3. PICK ok \in May("write") : IF ok THEN Put(a.session, meta, turns) ELSE UNCHANGED dbVars
    BY <1>3 DEF Commit
  <2> HIDE DEF meta, turns
  <2>4. CASE ok
    BY <2>1, <2>2, <2>3, <2>4, PutGrows DEF TypeInv, TypeOK
  <2>5. CASE ~ok
    BY <1>1, <2>3, <2>5 DEF dbVars
  <2> QED BY <2>4, <2>5
<1>4. ASSUME NEW i \in Action, NEW r, StartReload(i, r)
      PROVE  UNCHANGED assigned
  BY <1>4 DEF StartReload, DropSessions, dbVars
<1>5. CASE \E i \in Action : CallStep(i)
  BY <1>1, <1>5 DEF CallStep, Deadline, CallFails, CallAnswered, CallEnds, dbVars
<1>6. CASE \E i \in Action : Continue(i) /\ ~Commit(i)
  <2> PICK i \in Action : Continue(i) /\ ~Commit(i)
    BY <1>6
  <2>1. CASE VerifyFails(i) \/ StartCommit(i) \/ LoadFails(i) \/ RefuseResponse(i)
             \/ RecordReply(i) \/ CommitFails(i) \/ Committed(i)
    BY <1>1, <2>1 DEF VerifyFails, StartCommit, LoadFails, RefuseResponse, RecordReply,
       CommitFails, Committed, CallEnds, dbVars
  <2>2. CASE Discard(i) \/ LoadFindsNothing(i)
    BY <1>1, <1>4, <2>2 DEF Discard, LoadFindsNothing
  <2>3. CASE ReloadKeeps(i) \/ ReloadSelects(i) \/ Reselected(i) \/ ReloadCreates(i)
    BY <1>1, <2>3 DEF ReloadKeeps, ReloadSelects, Reselected, ReloadCreates, dbVars
  <2> QED BY <2>1, <2>2, <2>3 DEF Continue
<1>7. CASE UserStep
  <2>1. CASE Open
    <3>1. Opening \in Action
      BY StoreAssumption DEF Action, Opening
    <3> QED BY <1>1, <1>4, <2>1, <3>1 DEF Open
  <2>2. CASE Type \/ Send \/ Retry \/ Cancel
    BY <1>1, <2>2 DEF Type, Send, Retry, Execute, Cancel, CallEnds, dbVars
  <2>3. CASE Select \/ NewSession \/ SeededSession \/ EditVersion \/ Deliver
    BY <1>1, <2>3 DEF Select, NewSession, SeededSession, EditVersion, Deliver, dbVars
  <2> QED BY <1>7, <2>1, <2>2, <2>3 DEF UserStep
<1>8. CASE Tick \/ Selected \/ CreateRuns \/ Created \/ DeliveryEnds \/ Marked
  BY <1>1, <1>8 DEF Tick, Selected, CreateRuns, Created, DeliveryEnds, Marked, dbVars
<1>9. CASE UNCHANGED vars
  BY <1>1, <1>9 DEF vars, dbVars
<1> QED BY <1>2, <1>3, <1>5, <1>6, <1>7, <1>8, <1>9 DEF Next

(* What a step leaves alone stays kept. *)
LEMMA SameKept ==
  ASSUME TypeInv, TypeInv', NumbersGrow, CopiesKept
  PROVE  /\ UNCHANGED metaOf => StoreKept'
         /\ UNCHANGED current => CurrentKept'
         /\ \A i \in Action : ActionKept(assigned', action[i])
         /\ \A op \in selects : SelectKept(assigned', op)
         /\ \A m \in marks : MarkKept(assigned', m)
<1>1. ASSUME UNCHANGED metaOf PROVE StoreKept'
  <2>1. \A s \in Session : metaOf[s] \in Meta
    BY DEF TypeInv, TypeOK, StoreTypeOK
  <2>2. \A s \in Session : KeptBy(assigned', s, metaOf[s])
    BY <2>1, KeptGrows DEF CopiesKept, StoreKept
  <2> QED BY <1>1, <2>2 DEF StoreKept
<1>2. ASSUME UNCHANGED current PROVE CurrentKept'
  <2>1. KeptBy(assigned', current.id, current.meta)
    BY KeptGrows DEF CopiesKept, CurrentKept, TypeInv, TypeOK, MemoryTypeOK
  <2> QED BY <1>2, <2>1 DEF CurrentKept
<1>3. \A i \in Action : ActionKept(assigned', action[i])
  <2>1. \A i \in Action : action[i].loaded.meta \in Meta
    BY DEF TypeInv, TypeOK, HandlersTypeOK, ActionState, Stored
  <2> QED BY <2>1, KeptGrows DEF CopiesKept, ActionsKept, ActionKept
<1>4. \A op \in selects : SelectKept(assigned', op)
  <2>1. \A op \in selects : op.loaded.meta \in Meta
    BY DEF TypeInv, TypeOK, HandlersTypeOK, SelectOp, Stored
  <2> QED BY <2>1, KeptGrows DEF CopiesKept, SelectsKept, SelectKept
<1>5. \A m \in marks : MarkKept(assigned', m)
  <2>1. \A m \in marks : m.written.meta \in Meta
    BY DEF TypeInv, TypeOK, HandlersTypeOK, MarkOp, Stored
  <2> QED BY <2>1, KeptGrows DEF CopiesKept, MarksKept, MarkKept
<1> QED BY <1>1, <1>2, <1>3, <1>4, <1>5

(* One handler moves: the others keep their copies. *)
LEMMA AdvanceKept ==
  ASSUME TypeInv, TypeInv', NumbersGrow, CopiesKept, NEW i \in Action, NEW next,
         Advance(i, next), ActionKept(assigned', next)
  PROVE  ActionsKept'
<1>1. action' = [action EXCEPT ![i] = next] /\ action \in [Action -> ActionState]
  BY DEF Advance, TypeInv, TypeOK, HandlersTypeOK
<1> QED BY <1>1, SameKept DEF ActionsKept

(* One handler ends. *)
LEMMA FinishKept ==
  ASSUME TypeInv, TypeInv', NumbersGrow, CopiesKept, NEW i \in Action, Finish(i)
  PROVE  ActionsKept'
<1>1. Advance(i, DoneAction)
  BY DEF Finish, Advance
<1>2. ActionKept(assigned', DoneAction)
  BY EmptyKept DEF ActionKept, DoneAction, IdleAction, Answered
<1> QED BY <1>1, <1>2, AdvanceKept

(* The selects and marks that are left. *)
LEMMA OpsKept ==
  ASSUME TypeInv, TypeInv', NumbersGrow, CopiesKept
  PROVE  /\ selects' \subseteq selects => SelectsKept'
         /\ marks' \subseteq marks => MarksKept'
BY SameKept DEF SelectsKept, MarksKept

(* What a load returns is kept. *)
LEMMA LoadKept ==
  ASSUME CopiesKept, NEW s \in Session
  PROVE  KeptBy(assigned, s, LoadOf(s).meta)
BY DEF CopiesKept, StoreKept, LoadOf, View

(* Expiry and eviction only empty sessions. *)
LEMMA DropKept ==
  ASSUME TypeInv, TypeInv', CopiesKept, NEW gone, DropSessions(gone)
  PROVE  StoreKept'
<1>1. \A s \in Session : KeptBy(assigned, s, EmptyMeta(0))
  BY EmptyKept DEF KeptBy, TypeInv, TypeOK, StoreTypeOK
<1>2. assigned' = assigned
      /\ metaOf' = [s \in Session |-> IF s \in gone THEN EmptyMeta(0) ELSE metaOf[s]]
  BY DEF DropSessions
<1> QED BY <1>1, <1>2 DEF StoreKept, CopiesKept

(* A commit of a well-formed meta. *)
LEMMA PutKept ==
  ASSUME TypeInv, TypeInv', CopiesKept, NEW s \in Session, NEW meta \in Meta, NEW turns,
         WellFormed(meta), Put(s, meta, turns)
  PROVE  NumbersGrow /\ StoreKept' /\ KeptBy(assigned', s, meta)
<1>1. NumbersGrow /\ meta.next - 1 <= assigned'[s]
  BY PutGrows DEF TypeInv, TypeOK
<1>2. KeptBy(assigned', s, meta)
  BY <1>1 DEF KeptBy
<1>3. metaOf' = [metaOf EXCEPT ![s] = meta] /\ metaOf \in [Session -> Meta]
  BY DEF Put, TypeInv, TypeOK, StoreTypeOK
<1>4. \A t \in Session : KeptBy(assigned', t, metaOf[t])
  BY <1>1, <1>3, KeptGrows DEF CopiesKept, StoreKept
<1> QED BY <1>1, <1>2, <1>3, <1>4 DEF StoreKept

(* Initially all copies are the stored ones or empty. *)
LEMMA KeptInit == Init => CopiesKept
<1> SUFFICES ASSUME Init PROVE CopiesKept
  OBVIOUS
<1>1. WellFormed(EarlierMeta)
  <2>1. /\ EarlierMeta.order = {[role |-> r, at |-> k] : r \in Role, k \in 1 .. History}
        /\ EarlierMeta.next = History + 1
        /\ \A v \in EarlierMeta.versions : \E k \in 1 .. History :
             v = [num |-> k, turn |-> ModelTurn(k), downloaded |-> FALSE]
    BY DEF EarlierMeta
  <2>2. \A k \in 1 .. History : ModelTurn(k) \in EarlierMeta.order
    BY <2>1 DEF ModelTurn, Role
  <2>3. \A v \in EarlierMeta.versions :
          v.num \in 1 .. EarlierMeta.next - 1 /\ v.turn \in EarlierMeta.order
    <3> SUFFICES ASSUME NEW v \in EarlierMeta.versions
                 PROVE  v.num \in 1 .. EarlierMeta.next - 1 /\ v.turn \in EarlierMeta.order
      OBVIOUS
    <3>1. PICK k \in 1 .. History : v = [num |-> k, turn |-> ModelTurn(k), downloaded |-> FALSE]
      BY <2>1
    <3>2. v.num = k /\ v.turn = ModelTurn(k) /\ EarlierMeta.next - 1 = History
      BY <2>1, <3>1, StoreAssumption
    <3> QED BY <2>2, <3>2
  <2>4. \A v, w \in EarlierMeta.versions : v.num = w.num => v = w
    <3> SUFFICES ASSUME NEW v \in EarlierMeta.versions, NEW w \in EarlierMeta.versions, v.num = w.num
                 PROVE  v = w
      OBVIOUS
    <3>1. PICK k \in 1 .. History : v = [num |-> k, turn |-> ModelTurn(k), downloaded |-> FALSE]
      BY <2>1
    <3>2. PICK l \in 1 .. History : w = [num |-> l, turn |-> ModelTurn(l), downloaded |-> FALSE]
      BY <2>1
    <3> QED BY <3>1, <3>2
  <2> QED BY <2>3, <2>4 DEF WellFormed
<1>2. TypeInv
  BY TypeInit
<1>3. \A s \in Session : WellFormed(metaOf[s]) /\ assigned[s] = metaOf[s].next - 1 /\ metaOf[s] \in Meta
  BY <1>1, <1>2, EmptyKept DEF Init, TypeInv, TypeOK, StoreTypeOK
<1>4. StoreKept
  BY <1>3 DEF StoreKept, KeptBy, Meta
<1>5. CurrentKept
  BY EmptyKept, StoreAssumption DEF Init, CurrentKept, NoCurrent, KeptBy, NoSession
<1>6. ActionsKept /\ SelectsKept /\ MarksKept
  BY EmptyKept DEF Init, ActionsKept, ActionKept, IdleAction, Answered, SelectsKept, MarksKept
<1> QED BY <1>4, <1>5, <1>6 DEF CopiesKept

(* refreshSessions and init up to their first answer. *)
LEMMA StartReloadKept ==
  ASSUME TypeInv, TypeInv', NumbersGrow, CopiesKept, NEW i \in Action, NEW r, StartReload(i, r)
  PROVE  StoreKept' /\ ActionsKept'
<1> DEFINE alive == stored \ Expired
           next(s) == [IdleAction EXCEPT !.pc = "reloading", !.alive = alive, !.session = s]
<1>1. PICK ok \in May("read") :
        IF ok
          THEN /\ DropSessions(Expired)
               /\ \E s \in IF alive = {} THEN {NoSession} ELSE Newest(alive, metaOf) : Advance(i, next(s))
          ELSE UNCHANGED dbVars /\ Finish(i)
  BY DEF StartReload
<1>2. CASE ok
  <2>1. PICK s : Advance(i, next(s))
    BY <1>1, <1>2
  <2>2. ActionKept(assigned', next(s))
    BY EmptyKept DEF ActionKept, IdleAction, Answered
  <2>3. ActionsKept'
    <3> HIDE DEF next
    <3> QED BY <2>1, <2>2, AdvanceKept
  <2> QED BY <1>1, <1>2, <2>3, DropKept
<1>3. CASE ~ok
  BY <1>1, <1>3, FinishKept, SameKept DEF dbVars
<1> QED BY <1>2, <1>3

(* The steps of a call. *)
LEMMA CallKept ==
  ASSUME TypeInv, TypeInv', NumbersGrow, CopiesKept, NEW i \in Action,
         CallEnds(i) \/ CallAnswered(i)
  PROVE  CopiesKept'
<1>1. UNCHANGED <<metaOf, current, selects, marks>>
  BY DEF CallEnds, CallAnswered, dbVars, memVars, opVars
<1>2. ASSUME CallEnds(i) PROVE ActionsKept'
  BY <1>2, FinishKept DEF CallEnds
<1>3. ASSUME CallAnswered(i) PROVE ActionsKept'
  <2>1. PICK images, trimmed, ok :
          Advance(i, [action[i] EXCEPT
                        !.pc = "verifying", !.images = images, !.trimmed = trimmed, !.ok = ok,
                        !.alive = stored \cap {action[i].session}])
    BY <1>3 DEF CallAnswered
  <2> DEFINE next == [action[i] EXCEPT
                        !.pc = "verifying", !.images = images, !.trimmed = trimmed, !.ok = ok,
                        !.alive = stored \cap {action[i].session}]
  <2>2. ActionKept(assigned', next)
    <3>1. next.pc = "verifying" /\ next.loaded = action[i].loaded
      BY DEF TypeInv, TypeOK, HandlersTypeOK, ActionState
    <3> HIDE DEF next
    <3> QED BY <3>1, SameKept DEF ActionKept, Answered
  <2> HIDE DEF next
  <2> QED BY <2>1, <2>2, AdvanceKept DEF next
<1> QED BY <1>1, <1>2, <1>3, SameKept, OpsKept DEF CopiesKept

(* The steps after the existence check and of commitResponse. *)
LEMMA ResponseKept ==
  ASSUME TypeInv, TypeInv', NumbersGrow, CopiesKept, NEW i \in Action,
         \/ VerifyFails(i) \/ Discard(i) \/ StartCommit(i) \/ LoadFails(i) \/ LoadFindsNothing(i)
         \/ RefuseResponse(i) \/ RecordReply(i) \/ CommitFails(i) \/ Committed(i)
  PROVE  CopiesKept'
<1>1. CASE VerifyFails(i)
  BY <1>1, CallKept DEF VerifyFails
<1>2. CASE Discard(i) \/ LoadFindsNothing(i)
  <2>1. (\E r : StartReload(i, r)) /\ UNCHANGED <<current, selects, marks>>
    BY <1>2 DEF Discard, LoadFindsNothing, memVars, opVars
  <2> QED BY <2>1, StartReloadKept, SameKept, OpsKept DEF CopiesKept
<1>3. CASE StartCommit(i)
  <2> DEFINE s == action[i].session
             next(ok) == [action[i] EXCEPT !.pc = "loading", !.ok = ok, !.alive = stored \cap {s},
                            !.loaded = IF ok THEN LoadOf(s) ELSE Nothing]
  <2>1. PICK ok \in May("read") : Advance(i, next(ok))
    BY <1>3 DEF StartCommit
  <2>2. action[i] \in ActionState /\ s \in Session /\ UNCHANGED <<metaOf, assigned, current, selects, marks>>
    BY <1>3 DEF TypeInv, TypeOK, HandlersTypeOK, CallsHaveSession, HasSession, StartCommit,
       dbVars, memVars, opVars
  <2>3. ActionKept(assigned', next(ok))
    <3>1. /\ next(ok).ok = ok /\ next(ok).session = s
          /\ next(ok).loaded = IF ok THEN LoadOf(s) ELSE Nothing
      BY <2>2 DEF ActionState
    <3> HIDE DEF next
    <3>2. KeptBy(assigned, s, LoadOf(s).meta)
      BY <2>2, LoadKept
    <3> QED BY <2>2, <3>1, <3>2, EmptyKept DEF ActionKept, Answered, KeptBy
  <2> HIDE DEF next
  <2> QED BY <2>1, <2>2, <2>3, AdvanceKept, SameKept, OpsKept DEF CopiesKept
<1>4. CASE LoadFails(i) \/ RefuseResponse(i) \/ RecordReply(i) \/ CommitFails(i)
  <2>1. Finish(i) /\ UNCHANGED <<metaOf, current, selects, marks>>
    BY <1>4 DEF LoadFails, RefuseResponse, RecordReply, CommitFails, dbVars, memVars, opVars
  <2> QED BY <2>1, FinishKept, SameKept, OpsKept DEF CopiesKept
<1>5. CASE Committed(i)
  <2>1. /\ Finish(i) /\ UNCHANGED <<metaOf, selects, marks>>
        /\ ReplaceStored(action[i].session, action[i].loaded)
        /\ Answered(action[i])
    BY <1>5 DEF Committed, dbVars, opVars, Answered
  <2>2. KeptBy(assigned', action[i].session, action[i].loaded.meta)
    BY <2>1, SameKept DEF ActionKept
  <2>3. CurrentKept'
    <3>1. CASE current.id = action[i].session
      BY <2>1, <2>2, <3>1 DEF ReplaceStored, Show, CurrentKept
    <3>2. CASE current.id # action[i].session
      BY <2>1, <3>2, SameKept DEF ReplaceStored
    <3> QED BY <3>1, <3>2
  <2> QED BY <2>1, <2>3, FinishKept, SameKept, OpsKept DEF CopiesKept
<1> QED BY <1>1, <1>2, <1>3, <1>4, <1>5

(* The commit of a response. *)
LEMMA CommitKept ==
  ASSUME TypeInv, TypeInv', NumbersGrow, CopiesKept, NEW i \in Action, Commit(i)
  PROVE  CopiesKept'
<1> DEFINE a == action[i]
           s == a.session
           meta == ApplyMeta(a.loaded, a.trimmed, a.images, commits + 1, now)
           turns == ApplyTurns(rows[s], a.loaded, a.trimmed, a.images, commits + 1)
           shown == ApplyTurns(a.loaded.turns, a.loaded, a.trimmed, a.images, commits + 1)
           next(ok) == [a EXCEPT !.pc = "committing", !.ok = ok, !.loaded = View(meta, shown)]
<1>1. a \in ActionState /\ s \in Session
  BY DEF Commit, Loaded, TypeInv, TypeOK, HandlersTypeOK, CallsHaveSession, HasSession
<1>2. a.loaded \in Stored /\ a.images \in Nat /\ commits + 1 \in Nat /\ now \in Nat
  BY <1>1, StoreAssumption DEF ActionState, TypeInv, TypeOK, BoundsTypeOK
<1>3. meta \in Meta
  BY <1>2, ApplyMetaType
<1>4. WellFormed(meta)
  <2>1. WellFormed(a.loaded.meta)
    BY DEF CopiesKept, ActionsKept, ActionKept
  <2> QED BY <1>2, <2>1, ApplyKept
<1>5. PICK ok \in May("write") :
        /\ IF ok THEN Put(s, meta, turns) ELSE UNCHANGED dbVars
        /\ Advance(i, next(ok))
  BY DEF Commit
<1>6. next(ok).ok = ok /\ next(ok).session = s /\ next(ok).loaded.meta = meta
  <2> HIDE DEF meta
  <2> QED BY <1>1 DEF ActionState, View
<1> HIDE DEF meta, turns, next
<1>7. CASE ok
  <2>1. StoreKept' /\ KeptBy(assigned', s, meta)
    BY <1>1, <1>3, <1>4, <1>5, <1>7, PutKept
  <2> QED BY <1>4, <1>5, <1>6, <2>1, AdvanceKept, SameKept, OpsKept
          DEF CopiesKept, Commit, ActionKept, memVars, opVars
<1>8. CASE ~ok
  BY <1>4, <1>5, <1>6, <1>8, AdvanceKept, SameKept, OpsKept
     DEF CopiesKept, Commit, ActionKept, Answered, dbVars, memVars, opVars
<1> QED BY <1>7, <1>8

(* refreshSessions and init, once loadAndExpire answered. *)
LEMMA ReloadKept ==
  ASSUME TypeInv, TypeInv', NumbersGrow, CopiesKept, NEW i \in Action,
         ReloadKeeps(i) \/ ReloadSelects(i) \/ Reselected(i) \/ ReloadCreates(i)
  PROVE  CopiesKept'
<1>1. UNCHANGED <<metaOf, assigned, selects, marks>>
  BY DEF ReloadKeeps, ReloadSelects, Reselected, ReloadCreates, ReloadReplaces, dbVars, opVars
<1>2. KeptBy(assigned', NoCurrent.id, NoCurrent.meta)
  BY EmptyKept, StoreAssumption DEF NoCurrent, KeptBy, NoSession
<1>3. action[i] \in ActionState
  BY DEF TypeInv, TypeOK, HandlersTypeOK
<1>4. CASE ReloadKeeps(i)
  BY <1>1, <1>4, FinishKept, SameKept, OpsKept DEF ReloadKeeps, CopiesKept
<1>5. CASE ReloadSelects(i)
  <2> DEFINE s == action[i].session
             next(ok) == [action[i] EXCEPT !.pc = "reselecting", !.ok = ok /\ s \in stored,
                            !.loaded = IF ok THEN LoadOf(s) ELSE Nothing]
  <2>1. PICK ok \in May("read") : Advance(i, next(ok))
    BY <1>5 DEF ReloadSelects
  <2>2. s \in Session
    BY <1>5 DEF ReloadSelects, ReloadReplaces, HasSession, TypeInv, CallsHaveSession
  <2>3. ActionKept(assigned', next(ok))
    <3>1. /\ next(ok).session = s /\ next(ok).ok = (ok /\ s \in stored)
          /\ next(ok).loaded = IF ok THEN LoadOf(s) ELSE Nothing
      BY <1>3 DEF ActionState
    <3> HIDE DEF next
    <3>2. KeptBy(assigned, s, LoadOf(s).meta)
      BY <2>2, LoadKept
    <3> QED BY <1>1, <3>1, <3>2, EmptyKept DEF ActionKept, Answered, KeptBy
  <2>4. CurrentKept'
    BY <1>2, <1>5, SameKept DEF ReloadSelects, ReloadReplaces, CurrentKept
  <2> HIDE DEF next
  <2> QED BY <1>1, <2>1, <2>3, <2>4, AdvanceKept, SameKept, OpsKept DEF CopiesKept
<1>6. CASE Reselected(i)
  <2>1. CurrentKept'
    <3>1. CASE action[i].ok
      <4>1. KeptBy(assigned', action[i].session, action[i].loaded.meta)
        BY <1>6, <3>1, SameKept DEF Reselected, ActionKept, Answered
      <4> QED BY <1>6, <3>1, <4>1 DEF Reselected, Show, CurrentKept
    <3>2. CASE ~action[i].ok
      BY <1>6, <3>2, SameKept DEF Reselected
    <3> QED BY <3>1, <3>2
  <2> QED BY <1>1, <1>6, <2>1, FinishKept, SameKept, OpsKept DEF Reselected, CopiesKept
<1>7. CASE ReloadCreates(i)
  <2> DEFINE next == [action[i] EXCEPT !.pc = "recreating"]
  <2>1. ActionKept(assigned', next)
    <3>1. next.pc = "recreating" /\ next.loaded = action[i].loaded
      BY <1>3 DEF ActionState
    <3> HIDE DEF next
    <3> QED BY <3>1, SameKept DEF ActionKept, Answered
  <2>2. CurrentKept'
    BY <1>2, <1>7, SameKept DEF ReloadCreates, ReloadReplaces, CurrentKept
  <2>3. Advance(i, next)
    BY <1>7 DEF ReloadCreates
  <2> HIDE DEF next
  <2> QED BY <1>1, <2>1, <2>2, <2>3, AdvanceKept, SameKept, OpsKept DEF CopiesKept
<1> QED BY <1>4, <1>5, <1>6, <1>7

(* The user's steps. *)
LEMMA UserStepKept ==
  ASSUME TypeInv, TypeInv', NumbersGrow, CopiesKept, UserStep
  PROVE  CopiesKept'
<1>1. CASE Open
  <2>1. Opening \in Action
    BY StoreAssumption DEF Action, Opening
  <2> QED BY <1>1, <2>1, StartReloadKept, SameKept, OpsKept DEF Open, CopiesKept, memVars, opVars
<1>2. CASE Type \/ EditVersion \/ NewSession \/ SeededSession
  <2>1. UNCHANGED <<metaOf, assigned, current, action, selects, marks>>
    BY <1>2 DEF Type, EditVersion, NewSession, SeededSession, dbVars, memVars, opVars
  <2> QED BY <2>1, SameKept, OpsKept DEF CopiesKept, ActionsKept
<1>3. CASE Send \/ Retry
  <2> DEFINE next(content) == [IdleAction EXCEPT !.pc = "calling", !.session = current.id,
                                 !.content = content, !.sent = current.turns]
  <2>1. PICK content :
          /\ sends < MaxSends
          /\ Advance(sends + 1, next(content))
          /\ UNCHANGED <<dbVars, current, listed, opVars, commits, contents, used, now>>
    BY <1>3 DEF Send, Retry, Execute
  <2>2. sends + 1 \in Action
    BY <2>1, StoreAssumption DEF Action, TypeInv, TypeOK, BoundsTypeOK
  <2>3. ActionKept(assigned', next(content))
    BY EmptyKept DEF ActionKept, IdleAction, Answered
  <2>4. ActionsKept'
    <3> HIDE DEF next
    <3> QED BY <2>1, <2>2, <2>3, AdvanceKept
  <2> QED BY <2>1, <2>4, SameKept, OpsKept DEF CopiesKept, dbVars, opVars
<1>4. CASE Cancel
  <2>1. running \in Action
    BY DEF TypeInv, TypeOK, HandlersTypeOK
  <2> QED BY <1>4, <2>1, CallKept DEF Cancel
<1>5. CASE Select
  <2> DEFINE op(s, ok) == [id |-> s, ok |-> ok /\ s \in stored,
                           loaded |-> IF ok THEN LoadOf(s) ELSE Nothing]
  <2>1. PICK s \in listed, ok \in May("read") : selects' = selects \cup {op(s, ok)}
    BY <1>5 DEF Select
  <2>2. UNCHANGED <<metaOf, assigned, current, action, marks>> /\ s \in Session
    BY <1>5 DEF Select, dbVars, memVars, TypeInv, TypeOK, MemoryTypeOK
  <2>3. KeptBy(assigned, s, LoadOf(s).meta)
    BY <2>2, LoadKept
  <2>4. SelectKept(assigned', op(s, ok))
    BY <2>2, <2>3, EmptyKept DEF SelectKept, KeptBy
  <2>5. SelectsKept'
    <3> HIDE DEF op
    <3> QED BY <2>1, <2>4, SameKept DEF SelectsKept
  <2> QED BY <2>2, <2>5, SameKept, OpsKept DEF CopiesKept, ActionsKept
<1>6. CASE Deliver
  <2>1. PICK v \in current.meta.versions :
          marks' = marks \cup {[origin |-> current.id, num |-> v.num, flagged |-> NoSession,
                                ok |-> FALSE, written |-> Nothing]}
    BY <1>6 DEF Deliver
  <2>2. MarksKept'
    <3>1. MarkKept(assigned', [origin |-> current.id, num |-> v.num, flagged |-> NoSession,
                               ok |-> FALSE, written |-> Nothing])
      BY EmptyKept DEF MarkKept
    <3> QED BY <2>1, <3>1, SameKept DEF MarksKept
  <2>3. UNCHANGED <<metaOf, assigned, current, action, selects>>
    BY <1>6 DEF Deliver, dbVars, memVars
  <2> QED BY <2>2, <2>3, SameKept, OpsKept DEF CopiesKept, ActionsKept
<1> QED BY <1>1, <1>2, <1>3, <1>4, <1>5, <1>6 DEF UserStep

(* The storage calls of creations, selects and the downloaded flag. *)
LEMMA StorageKept ==
  ASSUME TypeInv, TypeInv', NumbersGrow, CopiesKept,
         CreateRuns \/ Created \/ Selected \/ DeliveryEnds \/ MarkDownloaded \/ Marked
  PROVE  CopiesKept'
<1>1. CASE CreateRuns
  <2>1. UNCHANGED <<assigned, current, action, selects, marks>>
    BY <1>1 DEF CreateRuns, dbVars, memVars
  <2>2. PICK op \in creates, victims \in SUBSET stored :
          \/ UNCHANGED metaOf
          \/ metaOf' = [s \in Session |-> IF s = op.id THEN EmptyMeta(op.since)
                                          ELSE IF s \in victims THEN EmptyMeta(0) ELSE metaOf[s]]
    BY <1>1, ZenonT(60) DEF CreateRuns, dbVars
  <2>3. \A t \in Nat : \A s : KeptBy(assigned, s, EmptyMeta(t))
    BY EmptyKept DEF KeptBy, TypeInv, TypeOK, StoreTypeOK
  <2>4. op.since \in Nat
    BY DEF TypeInv, TypeOK, HandlersTypeOK, CreateOp
  <2>5. StoreKept'
    BY <2>1, <2>2, <2>3, <2>4, SameKept DEF StoreKept, CopiesKept
  <2> QED BY <2>1, <2>5, SameKept, OpsKept DEF CopiesKept, ActionsKept
<1>2. CASE Created
  <2>1. PICK op \in creates :
          /\ current' = IF op.ok THEN Show(op.id, [meta |-> EmptyMeta(op.since), turns |-> {}]) ELSE current
          /\ IF op.owner = NoAction THEN UNCHANGED <<running, action>> ELSE Finish(op.owner)
    BY <1>2 DEF Created
  <2>2. UNCHANGED <<metaOf, assigned, selects, marks>> /\ op \in CreateOp
    BY <1>2 DEF Created, dbVars, TypeInv, TypeOK, HandlersTypeOK
  <2>3. CurrentKept'
    <3>1. KeptBy(assigned', op.id, EmptyMeta(op.since))
      BY <2>2, EmptyKept DEF KeptBy, CreateOp, TypeInv, TypeOK, StoreTypeOK
    <3> QED BY <2>1, <3>1, SameKept DEF CurrentKept, Show
  <2>4. ActionsKept'
    <3>1. CASE op.owner = NoAction
      BY <2>1, <2>2, <3>1 DEF CopiesKept, ActionsKept
    <3>2. CASE op.owner # NoAction
      <4>1. op.owner \in Action
        BY <2>2, <3>2 DEF CreateOp
      <4> QED BY <2>1, <3>2, <4>1, FinishKept
    <3> QED BY <3>1, <3>2
  <2> QED BY <2>2, <2>3, <2>4, SameKept, OpsKept DEF CopiesKept
<1>3. CASE Selected
  <2>1. PICK op \in selects :
          /\ selects' = selects \ {op}
          /\ current' = IF op.ok THEN Show(op.id, op.loaded) ELSE current
    BY <1>3 DEF Selected
  <2>2. UNCHANGED <<metaOf, assigned, action, marks>>
    BY <1>3 DEF Selected, dbVars
  <2>3. CurrentKept'
    BY <2>1, SameKept DEF CurrentKept, SelectKept, Show
  <2> QED BY <2>1, <2>2, <2>3, SameKept, OpsKept DEF CopiesKept, ActionsKept
<1>4. CASE DeliveryEnds
  <2>1. UNCHANGED <<metaOf, assigned, current, action, selects>> /\ marks' \subseteq marks
    BY <1>4 DEF DeliveryEnds, dbVars, memVars
  <2> QED BY <2>1, SameKept, OpsKept DEF CopiesKept, ActionsKept
<1>5. CASE MarkDownloaded
  <2> DEFINE meta(m) == FlagMeta(current.meta, m.num, now)
             flag(m, ok) == [m EXCEPT !.flagged = current.id, !.ok = ok,
                               !.written = [meta |-> meta(m), turns |-> current.turns]]
  <2>1. PICK m \in marks, ok \in May("write") :
          /\ current.id # NoSession
          /\ marks' = (marks \ {m}) \cup {flag(m, ok)}
          /\ IF ok THEN Put(current.id, meta(m), rows[current.id]) ELSE UNCHANGED dbVars
    BY <1>5 DEF MarkDownloaded
  <2>2. /\ m \in MarkOp /\ current.id \in Session /\ current.meta \in Meta /\ now \in Nat
        /\ UNCHANGED <<current, action, selects>>
    BY <1>5, <2>1 DEF MarkDownloaded, memVars, TypeInv, TypeOK, MemoryTypeOK, HandlersTypeOK, BoundsTypeOK
  <2>3. meta(m) \in Meta /\ WellFormed(meta(m))
    BY <2>2, FlagMetaType, FlagKept DEF CopiesKept, CurrentKept, KeptBy
  <2>4. /\ flag(m, ok).ok = ok /\ flag(m, ok).flagged = current.id
        /\ flag(m, ok).written.meta = meta(m)
    <3> HIDE DEF meta
    <3> QED BY <2>2 DEF MarkOp
  <2> HIDE DEF meta, flag
  <2>5. StoreKept' /\ (ok => KeptBy(assigned', current.id, meta(m)))
    <3>1. CASE ok
      BY <2>1, <2>2, <2>3, <3>1, PutKept
    <3>2. CASE ~ok
      BY <2>1, <3>2, SameKept DEF dbVars
    <3> QED BY <3>1, <3>2
  <2>6. MarkKept(assigned', flag(m, ok))
    BY <2>3, <2>4, <2>5 DEF MarkKept
  <2>7. MarksKept'
    BY <2>1, <2>6, SameKept DEF MarksKept
  <2> QED BY <2>2, <2>5, <2>7, SameKept, OpsKept DEF CopiesKept, ActionsKept
<1>6. CASE Marked
  <2>1. PICK m \in marks :
          /\ m.flagged # NoSession
          /\ marks' = marks \ {m}
          /\ IF m.ok THEN ReplaceStored(m.flagged, m.written) ELSE UNCHANGED current
    BY <1>6 DEF Marked
  <2>2. UNCHANGED <<metaOf, assigned, action, selects>>
    BY <1>6 DEF Marked, dbVars
  <2>3. CurrentKept'
    <3>1. CASE m.ok
      <4>1. KeptBy(assigned', m.flagged, m.written.meta)
        BY <2>1, <3>1, SameKept DEF MarkKept
      <4>2. CASE current.id = m.flagged
        BY <2>1, <3>1, <4>1, <4>2 DEF ReplaceStored, Show, CurrentKept
      <4>3. CASE current.id # m.flagged
        BY <2>1, <3>1, <4>3, SameKept DEF ReplaceStored
      <4> QED BY <4>2, <4>3
    <3>2. CASE ~m.ok
      BY <2>1, <3>2, SameKept
    <3> QED BY <3>1, <3>2
  <2> QED BY <2>1, <2>2, <2>3, SameKept, OpsKept DEF CopiesKept, ActionsKept
<1> QED BY <1>1, <1>2, <1>3, <1>4, <1>5, <1>6

(* Every step keeps every copy. *)
LEMMA KeptStep == TypeInv /\ CopiesKept /\ [Next]_vars => CopiesKept'
<1> SUFFICES ASSUME TypeInv, CopiesKept, [Next]_vars PROVE CopiesKept'
  OBVIOUS
<1>1. TypeInv' /\ NumbersGrow
  BY TypeStep, NumbersGrowStep
<1>2. CASE Tick \/ UNCHANGED vars
  <2>1. UNCHANGED <<metaOf, assigned, current, action, selects, marks>>
    BY <1>2 DEF Tick, vars, dbVars, memVars, opVars
  <2> QED BY <1>1, <2>1, SameKept, OpsKept DEF CopiesKept, ActionsKept
<1>3. CASE UserStep
  BY <1>1, <1>3, UserStepKept
<1>4. CASE CreateRuns \/ Created \/ Selected \/ DeliveryEnds \/ MarkDownloaded \/ Marked
  BY <1>1, <1>4, StorageKept
<1>5. CASE \E i \in Action : CallStep(i) \/ Continue(i)
  BY <1>1, <1>5, CallKept, ResponseKept, CommitKept, ReloadKept
     DEF CallStep, Continue, Deadline, CallFails
<1> QED BY <1>2, <1>3, <1>4, <1>5 DEF Next

(* The inductive invariant of the copies. *)
THEOREM CopiesInvariant == Spec => []CopiesKept
BY TypeInvariant, KeptInit, KeptStep, PTL DEF Spec

(* A cut removes a turn together with its versions and never lets a version  *)
(* number be taken twice in one copy, whatever storage calls fail and        *)
(* however the handlers of commits, flags, loads and creations interleave.   *)
THEOREM SessionsStayWellFormed == Spec => []SessionsWellFormed
<1>1. TypeInv /\ CopiesKept => SessionsWellFormed
  BY DEF SessionsWellFormed, CopiesKept, StoreKept, CurrentKept, ActionsKept, ActionKept,
     SelectsKept, SelectKept, MarksKept, MarkKept, KeptBy
<1> QED BY <1>1, TypeInvariant, CopiesInvariant, PTL

(* The session shown holds no version that was not stored first: every path  *)
(* that replaces it waits for the commit that stored it, also when commits   *)
(* of two handlers overlap.                                                  *)
THEOREM MemoryStaysBehindStore == Spec => []MemoryBehindStore
<1>1. TypeInv /\ CopiesKept => MemoryBehindStore
  BY DEF MemoryBehindStore, CopiesKept, CurrentKept, KeptBy, TypeInv, TypeOK, MemoryTypeOK
<1> QED BY <1>1, TypeInvariant, CopiesInvariant, PTL

-----------------------------------------------------------------------------
(* A creation leaves at most Cap sessions stored.                           *)

(* Every creation has an id of its own, drawn once, and resolves only after   *)
(* its transaction ran.                                                       *)
CreatesDistinct ==
  /\ \A op \in creates : op.ok => op.ran
  /\ \A op \in creates : op.id \in used
  /\ \A op, o \in creates : op.id = o.id => op = o

(* A new creation takes an id no other ever had. *)
LEMMA NewCreateDistinct ==
  ASSUME CreatesDistinct, NEW leaving, NEW seed, NEW owner, NewCreate(leaving, seed, owner)
  PROVE  /\ CreatesDistinct'
         /\ \A o \in creates' : o.ran => o \in creates
<1>1. PICK id \in Session \ used :
        /\ used' = used \cup {id}
        /\ creates' = creates \cup {[id |-> id, since |-> now, leaving |-> leaving, seed |-> seed,
                                     owner |-> owner, ran |-> FALSE, ok |-> FALSE, evicted |-> {}]}
  BY DEF NewCreate
<1> DEFINE new == [id |-> id, since |-> now, leaving |-> leaving, seed |-> seed,
                   owner |-> owner, ran |-> FALSE, ok |-> FALSE, evicted |-> {}]
<1>2. new.id = id /\ ~new.ran /\ ~new.ok
  OBVIOUS
<1> HIDE DEF new
<1>3. creates' = creates \cup {new}
  BY <1>1 DEF new
<1> QED BY <1>1, <1>2, <1>3 DEF CreatesDistinct

(* Creations that only lose elements stay distinct. *)
LEMMA FewerDistinct ==
  ASSUME CreatesDistinct, creates' \subseteq creates, used \subseteq used'
  PROVE  CreatesDistinct' /\ \A o \in creates' : o.ran => o \in creates
BY DEF CreatesDistinct

(* Only CreateRuns lets a creation run. *)
LEMMA OnlyCreateRuns ==
  ASSUME TypeInv, CreatesDistinct, [Next]_vars, ~CreateRuns
  PROVE  CreatesDistinct' /\ \A o \in creates' : o.ran => o \in creates
<1>1. CASE UNCHANGED <<creates, used>>
  BY <1>1, FewerDistinct
<1>2. CASE Created
  BY <1>2, FewerDistinct DEF Created, boundVars
<1>3. CASE UserStep
  <2>1. CASE Open \/ Type \/ Select \/ EditVersion \/ Deliver
    BY <1>1, <2>1 DEF Open, Type, Select, EditVersion, Deliver, opVars, boundVars
  <2>2. CASE Send \/ Retry \/ Cancel
    BY <1>1, <2>2 DEF Send, Retry, Execute, Cancel, CallEnds, opVars, boundVars
  <2>3. CASE NewSession \/ SeededSession
    BY <2>3, NewCreateDistinct DEF NewSession, SeededSession
  <2> QED BY <1>3, <2>1, <2>2, <2>3 DEF UserStep
<1>4. CASE \E i \in Action : CallStep(i) \/ Continue(i)
  <2> PICK i \in Action : CallStep(i) \/ Continue(i)
    BY <1>4
  <2>1. CASE CallStep(i) \/ VerifyFails(i)
    BY <1>1, <2>1 DEF CallStep, Deadline, CallFails, CallAnswered, VerifyFails, CallEnds, opVars, boundVars
  <2>2. CASE ReloadCreates(i)
    BY <2>2, NewCreateDistinct DEF ReloadCreates
  <2>3. CASE Discard(i) \/ StartCommit(i) \/ LoadFails(i) \/ LoadFindsNothing(i) \/ RefuseResponse(i)
             \/ RecordReply(i) \/ Commit(i) \/ CommitFails(i) \/ Committed(i)
    BY <1>1, <2>3 DEF Discard, StartCommit, LoadFails, LoadFindsNothing, RefuseResponse, RecordReply,
       Commit, CommitFails, Committed, opVars, boundVars
  <2>4. CASE ReloadKeeps(i) \/ ReloadSelects(i) \/ Reselected(i)
    BY <1>1, <2>4 DEF ReloadKeeps, ReloadSelects, Reselected, ReloadReplaces, opVars, boundVars
  <2> QED BY <2>1, <2>2, <2>3, <2>4 DEF Continue
<1>5. CASE Tick \/ Selected \/ DeliveryEnds \/ MarkDownloaded \/ Marked \/ UNCHANGED vars
  BY <1>1, <1>5 DEF Tick, Selected, DeliveryEnds, MarkDownloaded, Marked, vars, opVars, boundVars
<1> QED BY <1>2, <1>3, <1>4, <1>5 DEF Next

(* One more element makes a set larger by one at most. *)
LEMMA OneMore ==
  ASSUME NEW T, IsFiniteSet(T), NEW x
  PROVE  /\ IsFiniteSet(T \cup {x}) /\ Cardinality(T \cup {x}) \in Nat
         /\ Cardinality(T \cup {x}) <= Cardinality(T) + 1
<1>1. /\ IsFiniteSet(T \cup {x})
      /\ Cardinality(T \cup {x}) = IF x \in T THEN Cardinality(T) ELSE Cardinality(T) + 1
  BY FS_AddElement
<1>2. Cardinality(T) \in Nat /\ Cardinality(T \cup {x}) \in Nat
  BY <1>1, FS_CardinalityType
<1> QED BY <1>1, <1>2

(* The sessions a creation spares are three at most. *)
LEMMA AtMostThree ==
  ASSUME NEW a, NEW b, NEW c
  PROVE  IsFiniteSet({a, b, c}) /\ Cardinality({a, b, c}) <= 3
<1> DEFINE one == {a}
           two == one \cup {b}
           three == two \cup {c}
<1>1. IsFiniteSet(one) /\ Cardinality(one) = 1
  BY FS_Singleton
<1>2. three = {a, b, c}
  OBVIOUS
<1> HIDE DEF one
<1>3. IsFiniteSet(two) /\ Cardinality(two) \in Nat /\ Cardinality(two) <= 2
  <2>1. /\ IsFiniteSet(two) /\ Cardinality(two) \in Nat
        /\ Cardinality(two) <= Cardinality(one) + 1
    BY <1>1, OneMore, Zenon
  <2> QED BY <1>1, <2>1
<1> HIDE DEF two
<1>4. IsFiniteSet(three) /\ Cardinality(three) \in Nat /\ Cardinality(three) <= 3
  <2>1. /\ IsFiniteSet(three) /\ Cardinality(three) \in Nat
        /\ Cardinality(three) <= Cardinality(two) + 1
    BY <1>3, OneMore, Zenon
  <2> QED BY <1>3, <2>1
<1> HIDE DEF three
<1> QED BY <1>2, <1>4

(* The victims leave room for one more session: either as many go as are     *)
(* over the cap, or all but the three protected ones do.                     *)
LEMMA VictimsMakeRoom ==
  ASSUME NEW S, IsFiniteSet(S), NEW id, NEW leaving, NEW call, NEW m, NEW victims, NEW cap \in Nat,
         cap >= 3, IsVictimSet(victims, S, m, {leaving, id, call}, cap)
  PROVE  Cardinality((S \ victims) \cup {id}) <= cap
<1> DEFINE needed == Cardinality(S) + 1 - cap
           after == (S \ victims) \cup {id}
<1>1. victims \subseteq S /\ Cardinality(S) \in Nat
  BY FS_CardinalityType DEF IsVictimSet
<1>2. IsFiniteSet(victims) /\ IsFiniteSet(S \ victims)
  BY <1>1, FS_Subset
<1>3. Cardinality(S \ victims) = Cardinality(S) - Cardinality(victims)
  BY <1>1, FS_Difference, FS_Subset, S \cap victims = victims, ZenonT(60)
<1>4. /\ IsFiniteSet(after) /\ Cardinality(after) \in Nat
      /\ Cardinality(after) <= Cardinality(S \ victims) + 1
  BY <1>2, OneMore
<1>5. CASE needed <= 0
  <2>1. victims = {}
    BY <1>5 DEF IsVictimSet
  <2>2. Cardinality(S \ victims) = Cardinality(S)
    BY <2>1
  <2> QED BY <1>1, <1>4, <1>5, <2>2
<1>6. CASE ~(needed <= 0) /\ Cardinality(victims) = needed
  BY <1>1, <1>3, <1>4, <1>6
<1>7. CASE victims = S \ {leaving, id, call}
  <2>1. after \subseteq {leaving, id, call}
    BY <1>7
  <2>2. IsFiniteSet({leaving, id, call}) /\ Cardinality({leaving, id, call}) <= 3
    BY AtMostThree
  <2>3. Cardinality(after) <= Cardinality({leaving, id, call}) /\ Cardinality({leaving, id, call}) \in Nat
    BY <2>1, <2>2, FS_Subset, FS_CardinalityType
  <2> QED BY <1>4, <2>2, <2>3
<1>8. \/ needed <= 0
      \/ ~(needed <= 0) /\ Cardinality(victims) = needed
      \/ victims = S \ {leaving, id, call}
  BY DEF IsVictimSet
<1> QED BY <1>5, <1>6, <1>7, <1>8

(* What a creation's transaction leaves. *)
CreationWithinCap ==
  \A op \in creates : ~op.ran /\ (\E o \in creates' : o.id = op.id /\ o.ran /\ o.ok)
    => Cardinality(stored') <= Cap

(* A creation that runs stays distinct from the others. *)
LEMMA CreateRunsDistinct ==
  ASSUME TypeInv, CreatesDistinct, CreateRuns
  PROVE  CreatesDistinct'
<1>1. PICK op \in creates :
        /\ \/ creates' = (creates \ {op}) \cup {[op EXCEPT !.ran = TRUE]}
           \/ \E victims \in SUBSET stored :
                creates' = (creates \ {op})
                             \cup {[op EXCEPT !.ran = TRUE, !.ok = TRUE, !.evicted = victims]}
        /\ UNCHANGED used
  BY DEF CreateRuns, boundVars
<1>2. op \in CreateOp
  BY DEF TypeInv, TypeOK, HandlersTypeOK
<1>3. PICK new : creates' = (creates \ {op}) \cup {new} /\ new.id = op.id /\ new.ran
  <2>1. /\ [op EXCEPT !.ran = TRUE].id = op.id
        /\ [op EXCEPT !.ran = TRUE].ran
    BY <1>2 DEF CreateOp
  <2>2. ASSUME NEW victims
        PROVE  /\ [op EXCEPT !.ran = TRUE, !.ok = TRUE, !.evicted = victims].id = op.id
               /\ [op EXCEPT !.ran = TRUE, !.ok = TRUE, !.evicted = victims].ran
    BY <1>2 DEF CreateOp
  <2> QED BY <1>1, <2>1, <2>2, Zenon
<1>4. op.id \in used /\ used' = used
  BY <1>1 DEF CreatesDistinct
<1> QED BY <1>3, <1>4 DEF CreatesDistinct

(* The step the property is about. *)
LEMMA CreateRunsKeepsCap ==
  ASSUME TypeInv, CreatesDistinct, Cap >= 3, CreateRuns
  PROVE  CreatesDistinct' /\ CreationWithinCap
<1>1. PICK op \in creates :
        /\ ~op.ran
        /\ \/ creates' = (creates \ {op}) \cup {[op EXCEPT !.ran = TRUE]}
           \/ \E victims \in SUBSET stored :
                /\ IsVictimSet(victims, stored, metaOf, Excluded(op), Cap)
                /\ creates' = (creates \ {op})
                                \cup {[op EXCEPT !.ran = TRUE, !.ok = TRUE, !.evicted = victims]}
                /\ stored' = (stored \ victims) \cup {op.id}
        /\ UNCHANGED used
  BY DEF CreateRuns, boundVars
<1>2. op \in CreateOp
  BY DEF TypeInv, TypeOK, HandlersTypeOK
<1>3. PICK new : creates' = (creates \ {op}) \cup {new} /\ new.id = op.id /\ new.ran
  <2>1. /\ [op EXCEPT !.ran = TRUE].id = op.id
        /\ [op EXCEPT !.ran = TRUE].ran
    BY <1>2 DEF CreateOp
  <2>2. ASSUME NEW victims
        PROVE  /\ [op EXCEPT !.ran = TRUE, !.ok = TRUE, !.evicted = victims].id = op.id
               /\ [op EXCEPT !.ran = TRUE, !.ok = TRUE, !.evicted = victims].ran
    BY <1>2 DEF CreateOp
  <2> QED BY <1>1, <2>1, <2>2, Zenon
<1>4. CreatesDistinct'
  BY CreateRunsDistinct
<1>5. ASSUME NEW o \in creates, ~o.ran, NEW n \in creates', n.id = o.id, n.ran, n.ok
      PROVE  Cardinality(stored') <= Cap
  <2>1. o = op
    BY <1>1, <1>3, <1>5 DEF CreatesDistinct
  <2>2. n = new
    BY <1>3, <1>5, <2>1 DEF CreatesDistinct
  <2>3. CASE creates' = (creates \ {op}) \cup {[op EXCEPT !.ran = TRUE]}
    <3>1. \A x \in creates : x.id = op.id => x = op
      BY DEF CreatesDistinct
    <3>2. n = [op EXCEPT !.ran = TRUE]
      BY <1>5, <2>1, <2>3, <3>1
    <3>3. op.ok
      BY <1>2, <1>5, <3>2 DEF CreateOp
    <3> QED BY <1>1, <3>3 DEF CreatesDistinct
  <2>4. ASSUME NEW victims \in SUBSET stored,
               IsVictimSet(victims, stored, metaOf, Excluded(op), Cap),
               stored' = (stored \ victims) \cup {op.id}
        PROVE  Cardinality(stored') <= Cap
    <3>1. IsFiniteSet(stored)
      BY StoreAssumption, FS_Subset DEF TypeInv, TypeOK, StoreTypeOK
    <3> DEFINE call == IF generating THEN action[running].session ELSE NoSession
    <3>2. Excluded(op) = {op.leaving, op.id, call}
      BY DEF Excluded
    <3>3. IsVictimSet(victims, stored, metaOf, {op.leaving, op.id, call}, Cap)
      BY <2>4, <3>2
    <3> HIDE DEF call
    <3>4. Cardinality((stored \ victims) \cup {op.id}) <= Cap
      BY <3>1, <3>3, StoreAssumption, VictimsMakeRoom
    <3> QED BY <2>4, <3>4
  <2> QED BY <1>1, <2>3, <2>4
<1> QED BY <1>4, <1>5 DEF CreationWithinCap

(* A creation never leaves more than Cap sessions stored, and heals a larger *)
(* count, although it spares the session being left, the one with a call and *)
(* its own: three are always few enough for a Cap of at least three.         *)
THEOREM CreationsKeepCap == Cap >= 3 => (Spec => CreationKeepsCap)
<1> SUFFICES ASSUME Cap >= 3 PROVE Spec => CreationKeepsCap
  OBVIOUS
<1>1. Init => CreatesDistinct
  BY DEF Init, CreatesDistinct
<1>2. TypeInv /\ CreatesDistinct /\ [Next]_vars => CreatesDistinct' /\ [CreationWithinCap]_vars
  <2> SUFFICES ASSUME TypeInv, CreatesDistinct, [Next]_vars
               PROVE  CreatesDistinct' /\ CreationWithinCap
    OBVIOUS
  <2>1. CASE CreateRuns
    BY <2>1, CreateRunsKeepsCap
  <2>2. CASE ~CreateRuns
    <3>1. CreatesDistinct' /\ \A o \in creates' : o.ran => o \in creates
      BY <2>2, OnlyCreateRuns
    <3> QED BY <3>1 DEF CreationWithinCap, CreatesDistinct
  <2> QED BY <2>1, <2>2
<1>3. Spec => [][CreationWithinCap]_vars
  BY <1>1, <1>2, TypeInvariant, PTL DEF Spec
<1> QED BY <1>3 DEF CreationKeepsCap, CreationWithinCap
-----------------------------------------------------------------------------
(* What holds when nothing starts while a storage call is outstanding.      *)

(* A handler that waits for IndexedDB; a flag that is being written.         *)
Waits(a) == a.pc \notin {"idle", "calling", "done"}
BeforeCommit(a) == a.pc \in {"calling", "verifying", "loading", "committing"}
Writing == {m \in marks : m.flagged # NoSession}

(* A call is reported, and nothing else is while a handler stores its end.   *)
CallsReported ==
  /\ ~BeforeCommit(action[Opening])
  /\ \A i \in Action : InFlight(i) => running = i
  /\ \A i \in Action \ {Opening} : Waits(action[i]) /\ action[i].pc # "verifying" => running = 0

(* One storage call at a time.                                               *)
OneHandler ==
  /\ \A i, j \in Action : Waits(action[i]) /\ Waits(action[j]) => i = j
  /\ \A i \in Action : Waits(action[i]) =>
        selects = {} /\ Writing = {} /\ (creates = {} \/ action[i].pc = "recreating")
  /\ creates # {} => selects = {} /\ Writing = {}
  /\ selects # {} => Writing = {}
  /\ \A op, o \in creates : op = o
  /\ \A op \in creates : IF op.owner = NoAction THEN \A i \in Action : ~Waits(action[i])
                                                ELSE action[op.owner].pc = "recreating"

(* The session of a creation that has not run, and an id not drawn yet, is   *)
(* not stored and never was.                                                 *)
Unborn(s) == s \notin used \/ \E op \in creates : op.id = s /\ ~op.ran

StoreSound ==
  /\ \A s \in stored : metaOf[s].next = assigned[s] + 1 /\ metaOf[s].order = rows[s]
  /\ \A s \in Session \ stored : rows[s] = {}
  /\ \A s \in Session : Unborn(s) => s \notin stored /\ assigned[s] = 0
  /\ \A op \in creates : op.id \in used

(* What a handler keeps across its await is what is stored.                  *)
Same(s, st, mo, ro, copy) == s \in st /\ copy = View(mo[s], ro[s])

HandlerFresh(a, st, mo, ro) ==
  /\ a.pc = "loading" /\ a.ok => a.alive = st \cap {a.session} /\ a.loaded = View(mo[a.session], ro[a.session])
  /\ a.pc \in {"committing", "reselecting"} /\ a.ok => Same(a.session, st, mo, ro, a.loaded)
  /\ a.pc = "reloading" => a.alive = st
HandlersFresh == \A i \in Action : HandlerFresh(action[i], stored, metaOf, rows)
SelectsFresh == \A op \in selects : op.ok => Same(op.id, stored, metaOf, rows, op.loaded)
FlagsFresh == \A m \in Writing : m.ok => Same(m.flagged, stored, metaOf, rows, m.written)
CreatesFresh ==
  \A op \in creates :
    /\ op.leaving = current.id
    /\ op.ok => Same(op.id, stored, metaOf, rows, [meta |-> EmptyMeta(op.since), turns |-> {}])

(* No session is shown while one is chosen for the user.                     *)
Chooses(i) ==
  \/ action[i].pc \in {"reselecting", "recreating"}
  \/ i = Opening /\ action[i].pc = "reloading"
NoneShown == \A i \in Action : Chooses(i) => current.id = NoSession

(* The session shown is the session stored, or a handler is about to replace *)
(* it by what it stored.                                                     *)
ShownStored(cur) == Same(cur.id, stored, metaOf, rows, [meta |-> cur.meta, turns |-> cur.turns])
Replacing(a, s) ==
  \/ a.pc = "committing" /\ a.ok /\ a.session = s
  \/ a.pc = "reloading" /\ s \notin a.alive
CurrentFresh ==
  \/ current.id = NoSession
  \/ ShownStored(current)
  \/ \E i \in Action : Replacing(action[i], current.id)
  \/ \E m \in Writing : m.ok /\ m.flagged = current.id

MemoryFresh == SelectsFresh /\ FlagsFresh /\ CreatesFresh /\ NoneShown /\ CurrentFresh

SerialInv == CallsReported /\ OneHandler /\ StoreSound /\ HandlersFresh /\ MemoryFresh

(* Nothing but handler i waits for IndexedDB.                                *)
Alone(i) ==
  /\ creates = {} /\ selects = {} /\ Writing = {}
  /\ \A j \in Action \ {i} : ~Waits(action[j])

(* A handler that waits, but not for a creation, is alone.                   *)
LEMMA WaitingAlone ==
  ASSUME OneHandler, NEW i \in Action, Waits(action[i]), action[i].pc # "recreating"
  PROVE  Alone(i)
BY DEF OneHandler, Alone

(* Whatever starts a storage call is alone.                                  *)
LEMMA QuietAlone ==
  ASSUME ~StorageBusy
  PROVE  /\ \A i \in Action : ~Waits(action[i]) /\ Alone(i)
         /\ creates = {} /\ selects = {} /\ Writing = {}
<1>1. \A i \in Action : ~Waits(action[i])
  BY DEF StorageBusy, Waits
<1>2. creates = {} /\ selects = {} /\ Writing = {}
  BY DEF StorageBusy, Writing
<1> QED BY <1>1, <1>2 DEF Alone

(* The session shown is stored, or the one waiting handler replaces it.      *)
LEMMA AloneShown ==
  ASSUME CurrentFresh, NEW i \in Action, Alone(i)
  PROVE  current.id = NoSession \/ ShownStored(current) \/ Replacing(action[i], current.id)
<1>1. \A j \in Action \ {i} : ~Replacing(action[j], current.id)
  BY DEF Alone, Waits, Replacing
<1> QED BY <1>1 DEF CurrentFresh, Alone

(* A step after which at most one handler waits, and no other call does.     *)
LEMMA AloneAfter ==
  ASSUME NEW i \in Action, \A j \in Action \ {i} : ~Waits(action'[j]),
         creates' = {}, selects' = {}, Writing' = {},
         HandlerFresh(action'[i], stored', metaOf', rows'),
         Chooses(i)' => current'.id = NoSession,
         current'.id = NoSession \/ ShownStored(current)' \/ Replacing(action'[i], current'.id)
  PROVE  OneHandler' /\ HandlersFresh' /\ MemoryFresh'
<1>1. OneHandler'
  BY DEF OneHandler
<1>2. HandlersFresh'
  <2>1. \A j \in Action \ {i} : HandlerFresh(action'[j], stored', metaOf', rows')
    BY DEF HandlerFresh, Waits
  <2> QED BY <2>1 DEF HandlersFresh
<1>3. NoneShown'
  <2>1. \A j \in Action \ {i} : ~Chooses(j)'
    BY DEF Chooses, Waits
  <2> QED BY <2>1 DEF NoneShown
<1>4. CurrentFresh'
  BY DEF CurrentFresh
<1>5. SelectsFresh' /\ FlagsFresh' /\ CreatesFresh'
  BY DEF SelectsFresh, FlagsFresh, CreatesFresh
<1> QED BY <1>1, <1>2, <1>3, <1>4, <1>5 DEF MemoryFresh

(* A step of the one handler that waits.                                     *)
LEMMA AloneStep ==
  ASSUME NEW i \in Action, Alone(i), \A j \in Action \ {i} : action'[j] = action[j],
         creates' = {}, selects' = {}, Writing' = {},
         HandlerFresh(action'[i], stored', metaOf', rows'),
         Chooses(i)' => current'.id = NoSession,
         current'.id = NoSession \/ ShownStored(current)' \/ Replacing(action'[i], current'.id)
  PROVE  OneHandler' /\ HandlersFresh' /\ MemoryFresh'
<1>1. \A j \in Action \ {i} : ~Waits(action'[j])
  BY DEF Alone
<1> QED BY <1>1, AloneAfter

(* Handlers that do not wait before and after a step change nothing here.    *)
LEMMA QuietStep ==
  ASSUME TypeInv, OneHandler, StoreSound, HandlersFresh, MemoryFresh, NEW i \in Action,
         \A j \in Action \ {i} : action'[j] = action[j],
         action'[i] = action[i] \/ (~Waits(action'[i]) /\ action[i].pc \in {"idle", "calling", "verifying", "done"}),
         UNCHANGED <<stored, metaOf, rows, assigned, current, creates, selects, used>>,
         Writing' = Writing
  PROVE  OneHandler' /\ StoreSound' /\ HandlersFresh' /\ MemoryFresh'
<1>1. \A j \in Action : action'[j] = action[j] \/ (~Waits(action'[j]) /\ action[j].pc \in {"idle", "calling", "verifying", "done"})
  OBVIOUS
<1>2. OneHandler'
  <2>1. \A op \in creates : op.owner # NoAction => op.owner \in Action /\ action[op.owner].pc = "recreating"
    BY DEF OneHandler, TypeInv, TypeOK, HandlersTypeOK, CreateOp
  <2>2. \A j \in Action : action[j].pc = "recreating" => action'[j] = action[j]
    BY <1>1
  <2>3. \A j \in Action : Waits(action'[j]) => action'[j] = action[j]
    BY <1>1
  <2>4. \A op \in creates : IF op.owner = NoAction THEN \A j \in Action : ~Waits(action'[j])
                                                   ELSE action'[op.owner].pc = "recreating"
    BY <2>1, <2>2, <2>3 DEF OneHandler
  <2> QED BY <2>3, <2>4 DEF OneHandler
<1>3. StoreSound'
  BY DEF StoreSound, Unborn
<1>4. HandlersFresh'
  <2>1. \A j \in Action : ~Waits(action'[j]) => HandlerFresh(action'[j], stored, metaOf, rows)
    BY DEF Waits, HandlerFresh
  <2> QED BY <1>1, <2>1 DEF HandlersFresh
<1>5. NoneShown' /\ CurrentFresh'
  <2>1. \A j \in Action : Chooses(j)' => Chooses(j)
    BY <1>1 DEF Chooses, Waits
  <2>2. \A j \in Action : Replacing(action[j], current.id) => Replacing(action'[j], current.id)
    BY <1>1 DEF Replacing
  <2>3. ShownStored(current)' <=> ShownStored(current)
    BY DEF ShownStored
  <2> QED BY <2>1, <2>2, <2>3 DEF MemoryFresh, NoneShown, CurrentFresh
<1>6. SelectsFresh' /\ FlagsFresh' /\ CreatesFresh'
  BY DEF MemoryFresh, SelectsFresh, FlagsFresh, CreatesFresh
<1> QED BY <1>2, <1>3, <1>4, <1>5, <1>6 DEF MemoryFresh

-----------------------------------------------------------------------------
(* The store.                                                                *)

(* A step that writes nothing.                                               *)
LEMMA StoreStays ==
  ASSUME StoreSound, UNCHANGED <<stored, metaOf, rows, assigned, creates, used>>
  PROVE  StoreSound'
BY DEF StoreSound, Unborn

(* Expiry takes sessions as a whole.                                         *)
LEMMA DropSound ==
  ASSUME TypeInv, StoreSound, NEW gone, DropSessions(gone), UNCHANGED <<creates, used>>
  PROVE  StoreSound'
<1>1. stored \subseteq Session
  BY DEF TypeInv, TypeOK, StoreTypeOK
<1>2. /\ stored' = stored \ gone /\ assigned' = assigned
      /\ \A s \in Session : metaOf'[s] = IF s \in gone THEN EmptyMeta(0) ELSE metaOf[s]
      /\ \A s \in Session : rows'[s] = IF s \in gone THEN {} ELSE rows[s]
  BY DEF DropSessions
<1> QED BY <1>1, <1>2 DEF StoreSound, Unborn

(* What a commit writes.                                                     *)
LEMMA PutWrites ==
  ASSUME TypeInv, NEW s \in stored, NEW meta, NEW turns, Put(s, meta, turns)
  PROVE  /\ stored' = stored /\ metaOf'[s] = meta /\ rows'[s] = turns
         /\ \A t \in Session \ {s} : /\ metaOf'[t] = metaOf[t] /\ rows'[t] = rows[t]
                                     /\ assigned'[t] = assigned[t]
<1>1. s \in Session /\ metaOf \in [Session -> Meta] /\ rows \in [Session -> SUBSET Turn]
      /\ assigned \in [Session -> Nat]
  BY DEF TypeInv, TypeOK, StoreTypeOK
<1> QED BY <1>1 DEF Put

(* A commit that keeps the order and the rows together, and counts on.       *)
LEMMA PutSound ==
  ASSUME TypeInv, StoreSound, NEW s \in stored, NEW meta \in Meta, NEW turns, Put(s, meta, turns),
         meta.order = turns, meta.next >= metaOf[s].next, UNCHANGED <<creates, used>>
  PROVE  StoreSound'
<1>1. stored \subseteq Session /\ metaOf \in [Session -> Meta] /\ rows \in [Session -> SUBSET Turn]
      /\ assigned \in [Session -> Nat]
  BY DEF TypeInv, TypeOK, StoreTypeOK
<1>2. stored' = stored
  BY PutWrites
<1>3. metaOf'[s] = meta /\ rows'[s] = turns
  BY PutWrites
<1>4. assigned'[s] = meta.next - 1
  <2>1. metaOf[s].next = assigned[s] + 1
    BY DEF StoreSound
  <2>2. meta.next \in Nat /\ metaOf[s].next \in Nat /\ assigned[s] \in Nat
    BY <1>1 DEF Meta
  <2>3. assigned'[s] = IF meta.next - 1 > assigned[s] THEN meta.next - 1 ELSE assigned[s]
    BY <1>1 DEF Put
  <2> QED BY <2>1, <2>2, <2>3
<1>5. \A t \in Session \ {s} : metaOf'[t] = metaOf[t] /\ rows'[t] = rows[t] /\ assigned'[t] = assigned[t]
  BY PutWrites
<1>6. meta.next = assigned'[s] + 1
  BY <1>4 DEF Meta
<1>7. \A t \in stored' : metaOf'[t].next = assigned'[t] + 1 /\ metaOf'[t].order = rows'[t]
  BY <1>1, <1>2, <1>3, <1>5, <1>6 DEF StoreSound
<1>8. \A t \in Session \ stored' : rows'[t] = {}
  BY <1>2, <1>5 DEF StoreSound
<1>9. \A t \in Session : Unborn(t)' => t \notin stored' /\ assigned'[t] = 0
  BY <1>2, <1>5 DEF StoreSound, Unborn
<1> QED BY <1>7, <1>8, <1>9 DEF StoreSound

-----------------------------------------------------------------------------
(* The call that is reported.                                                *)

(* An action that ends clears `running`, and nobody else has a call then.    *)
LEMMA FinishReported ==
  ASSUME TypeInv, CallsReported, NEW i \in Action, Finish(i), InFlight(i) \/ Waits(action[i])
  PROVE  CallsReported'
<1>1. /\ action'[i].pc = "done" /\ running' = IF i = Opening THEN running ELSE 0
      /\ \A j \in Action \ {i} : action'[j] = action[j]
  BY DEF Finish, DoneAction, IdleAction, TypeInv, TypeOK, HandlersTypeOK
<1>2. CASE i = Opening
  BY <1>1, <1>2 DEF CallsReported, BeforeCommit, InFlight, Waits
<1>3. CASE i # Opening
  <2>1. \A j \in Action \ {i} : ~InFlight(j)
    <3>1. running \in {0, i}
      BY <1>3 DEF CallsReported, InFlight
    <3>2. ~InFlight(Opening)
      BY DEF CallsReported, InFlight, BeforeCommit
    <3> QED BY <3>1, <3>2 DEF CallsReported, Opening
  <2>2. Opening \in Action
    BY StoreAssumption DEF Opening, Action
  <2> QED BY <1>1, <1>3, <2>1, <2>2 DEF CallsReported, BeforeCommit, InFlight, Waits
<1> QED BY <1>2, <1>3

(* A handler that goes on after its call, or without one.                    *)
LEMMA AdvanceReported ==
  ASSUME TypeInv, CallsReported, NEW i \in Action, NEW next, Advance(i, next),
         next.pc \notin {"idle", "calling", "verifying", "done"},
         i = Opening => ~BeforeCommit(next) /\ running' = running,
         i # Opening => Waits(action[i])
                        /\ (running' = 0 \/ (running' = running /\ action[i].pc # "verifying"))
  PROVE  CallsReported'
<1>1. action'[i] = next /\ \A j \in Action \ {i} : action'[j] = action[j]
  BY DEF Advance, TypeInv, TypeOK, HandlersTypeOK
<1>2. ~InFlight(i)'
  BY <1>1 DEF InFlight
<1>3. CASE i = Opening
  BY <1>1, <1>2, <1>3 DEF CallsReported, BeforeCommit, InFlight, Waits
<1>4. CASE i # Opening
  <2>1. running' = 0
    BY <1>4 DEF CallsReported
  <2>2. \A j \in Action \ {i} : ~InFlight(j)
    <3>1. running \in {0, i}
      BY <1>4 DEF CallsReported, InFlight, Waits
    <3>2. ~InFlight(Opening)
      BY DEF CallsReported, InFlight, BeforeCommit
    <3> QED BY <3>1, <3>2 DEF CallsReported, Opening
  <2>3. Opening \in Action
    BY StoreAssumption DEF Opening, Action
  <2> QED BY <1>1, <1>2, <1>4, <2>1, <2>2, <2>3 DEF CallsReported, BeforeCommit, InFlight, Waits
<1> QED BY <1>3, <1>4

(* A step that starts, answers and ends no call and no handler.              *)
LEMMA SameReported ==
  ASSUME CallsReported, UNCHANGED <<action, running>>
  PROVE  CallsReported'
BY DEF CallsReported, InFlight
-----------------------------------------------------------------------------
(* What the handlers of calls and commits keep.                              *)

(* refreshSessions and init: the list and the expiry come from one           *)
(* transaction, and the session shown is dropped from it or replaced.        *)
LEMMA ReloadStarts ==
  ASSUME TypeInv, StoreSound, CurrentFresh, NEW i \in Action, Alone(i), NEW r,
         ~Replacing(action[i], current.id), i = Opening => current.id = NoSession,
         StartReload(i, r), UNCHANGED <<current, creates, selects, marks, used>>
  PROVE  OneHandler' /\ StoreSound' /\ HandlersFresh' /\ MemoryFresh'
<1> DEFINE alive == stored \ Expired
<1>1. PICK ok \in May("read") :
        IF ok
          THEN /\ DropSessions(Expired)
               /\ \E s \in IF alive = {} THEN {NoSession} ELSE Newest(alive, metaOf) :
                    Advance(i, [IdleAction EXCEPT !.pc = "reloading", !.alive = alive, !.session = s])
          ELSE UNCHANGED dbVars /\ Finish(i)
  BY DEF StartReload
<1>2. current.id = NoSession \/ ShownStored(current)
  BY AloneShown
<1>3. creates' = {} /\ selects' = {} /\ Writing' = {}
  BY DEF Alone, Writing
<1>4. action \in [Action -> ActionState] /\ stored \subseteq Session
  BY DEF TypeInv, TypeOK, HandlersTypeOK, StoreTypeOK
<1>5. CASE ok
  <2>1. PICK s : Advance(i, [IdleAction EXCEPT !.pc = "reloading", !.alive = alive, !.session = s])
    BY <1>1, <1>5
  <2>2. /\ \A j \in Action \ {i} : action'[j] = action[j]
        /\ action'[i].pc = "reloading" /\ action'[i].alive = alive
    BY <1>4, <2>1 DEF Advance, IdleAction
  <2>3. /\ stored' = alive
        /\ \A s1 \in alive : metaOf'[s1] = metaOf[s1] /\ rows'[s1] = rows[s1]
    BY <1>1, <1>4, <1>5 DEF DropSessions
  <2>4. HandlerFresh(action'[i], stored', metaOf', rows')
    BY <2>2, <2>3 DEF HandlerFresh
  <2>5. current'.id = NoSession \/ ShownStored(current)' \/ Replacing(action'[i], current'.id)
    BY <1>2, <2>2, <2>3 DEF ShownStored, Same, Replacing
  <2>6. Chooses(i)' => current'.id = NoSession
    BY <2>2 DEF Chooses
  <2>7. StoreSound'
    BY <1>1, <1>5, DropSound
  <2> QED BY <1>3, <2>2, <2>4, <2>5, <2>6, <2>7, AloneStep
<1>6. CASE ~ok
  <2>1. /\ \A j \in Action \ {i} : action'[j] = action[j]
        /\ action'[i].pc = "done" /\ UNCHANGED <<stored, metaOf, rows, assigned>>
    BY <1>1, <1>4, <1>6 DEF Finish, DoneAction, IdleAction, dbVars
  <2>2. ShownStored(current)' <=> ShownStored(current)
    BY <2>1 DEF ShownStored
  <2> QED BY <1>2, <1>3, <2>1, <2>2, AloneStep, StoreStays DEF HandlerFresh, Chooses
<1> QED BY <1>5, <1>6

(* The same for the call that is reported.                                   *)
LEMMA ReloadReported ==
  ASSUME TypeInv, CallsReported, NEW i \in Action, NEW r, StartReload(i, r),
         i = Opening => r = running /\ ~InFlight(i),
         i # Opening => Waits(action[i]) /\ (r = 0 \/ (r = running /\ action[i].pc # "verifying"))
  PROVE  CallsReported'
<1> DEFINE alive == stored \ Expired
<1>1. PICK ok \in May("read") :
        IF ok
          THEN /\ \E s \in IF alive = {} THEN {NoSession} ELSE Newest(alive, metaOf) :
                    Advance(i, [IdleAction EXCEPT !.pc = "reloading", !.alive = alive, !.session = s])
               /\ running' = r
          ELSE Finish(i)
  BY DEF StartReload
<1>2. CASE ok
  <2>1. PICK s : Advance(i, [IdleAction EXCEPT !.pc = "reloading", !.alive = alive, !.session = s])
    BY <1>1, <1>2
  <2>2. PICK next : next = [IdleAction EXCEPT !.pc = "reloading", !.alive = alive, !.session = s]
    OBVIOUS
  <2>3. next.pc = "reloading" /\ Advance(i, next) /\ running' = r
    BY <1>1, <1>2, <2>1, <2>2 DEF IdleAction
  <2> QED BY <2>3, AdvanceReported DEF BeforeCommit
<1>3. CASE ~ok
  <2>1. Finish(i)
    BY <1>1, <1>3
  <2>2. CASE i = Opening
    <3>1. /\ action'[i].pc = "done" /\ running' = running
          /\ \A j \in Action \ {i} : action'[j] = action[j]
      BY <2>1, <2>2 DEF Finish, DoneAction, IdleAction, TypeInv, TypeOK, HandlersTypeOK
    <3> QED BY <2>2, <3>1 DEF CallsReported, BeforeCommit, InFlight, Waits
  <2>3. CASE i # Opening
    BY <2>1, <2>3, FinishReported
  <2> QED BY <2>2, <2>3
<1> QED BY <1>2, <1>3

(* An action that ends without a commit while only it waits.                 *)
LEMMA AloneEnds ==
  ASSUME TypeInv, SerialInv, NEW i \in Action, Alone(i), InFlight(i) \/ Waits(action[i]), Finish(i),
         ~Replacing(action[i], current.id),
         UNCHANGED <<stored, metaOf, rows, assigned, current, creates, selects, marks, used>>
  PROVE  SerialInv'
<1>1. /\ \A j \in Action \ {i} : action'[j] = action[j]
      /\ action'[i].pc = "done"
  BY DEF Finish, DoneAction, IdleAction, TypeInv, TypeOK, HandlersTypeOK
<1>2. current.id = NoSession \/ ShownStored(current)
  BY AloneShown DEF SerialInv, MemoryFresh
<1>3. ShownStored(current)' <=> ShownStored(current)
  BY DEF ShownStored
<1>4. creates' = {} /\ selects' = {} /\ Writing' = {}
  BY DEF Alone, Writing
<1>5. OneHandler' /\ HandlersFresh' /\ MemoryFresh'
  BY <1>1, <1>2, <1>3, <1>4, AloneStep DEF HandlerFresh, Chooses
<1>6. StoreSound' /\ CallsReported'
  BY StoreStays, FinishReported DEF SerialInv
<1> QED BY <1>5, <1>6 DEF SerialInv

(* How a call ends.                                                          *)
LEMMA CallEndsSerial ==
  ASSUME TypeInv, SerialInv, NEW i \in Action, CallEnds(i)
  PROVE  SerialInv'
<1>1. InFlight(i) /\ Finish(i)
      /\ UNCHANGED <<stored, metaOf, rows, assigned, current, creates, selects, marks, used>>
  BY DEF CallEnds, dbVars, opVars, boundVars
<1>2. /\ \A j \in Action \ {i} : action'[j] = action[j]
      /\ action'[i].pc = "done"
  BY <1>1 DEF Finish, DoneAction, IdleAction, TypeInv, TypeOK, HandlersTypeOK
<1>3. Writing' = Writing
  BY <1>1 DEF Writing
<1>4. CallsReported'
  BY <1>1, FinishReported DEF SerialInv
<1>5. ~Waits(action'[i]) /\ action[i].pc \in {"idle", "calling", "verifying", "done"}
  BY <1>1, <1>2 DEF Waits, InFlight
<1> QED BY <1>1, <1>2, <1>3, <1>4, <1>5, QuietStep DEF SerialInv

(* An answer is handled only when no storage call is outstanding.            *)
LEMMA CallAnsweredSerial ==
  ASSUME Serialized, TypeInv, SerialInv, NEW i \in Action, CallAnswered(i)
  PROVE  SerialInv'
<1>1. PICK next : /\ Advance(i, next) /\ next.pc = "verifying" /\ action[i].pc = "calling"
                  /\ UNCHANGED <<stored, metaOf, rows, assigned, current, creates, selects, marks, used>>
                  /\ running' = running /\ ~StorageBusy
  <2>1. PICK images \in 0 .. MaxImages, trimmed \in TrimChoices(action[i].sent), ok \in May("read") :
          Advance(i, [action[i] EXCEPT
                        !.pc = "verifying", !.images = images, !.trimmed = trimmed, !.ok = ok,
                        !.alive = stored \cap {action[i].session}])
    BY DEF CallAnswered
  <2>2. PICK next : next = [action[i] EXCEPT
                        !.pc = "verifying", !.images = images, !.trimmed = trimmed, !.ok = ok,
                        !.alive = stored \cap {action[i].session}]
    OBVIOUS
  <2>3. next.pc = "verifying"
    BY <2>2 DEF TypeInv, TypeOK, HandlersTypeOK, ActionState
  <2> QED BY <2>1, <2>2, <2>3 DEF CallAnswered, MayStart, dbVars, memVars, opVars, boundVars
<1>2. /\ action'[i].pc = "verifying" /\ \A j \in Action \ {i} : action'[j] = action[j]
  BY <1>1 DEF Advance, TypeInv, TypeOK, HandlersTypeOK
<1>3. Alone(i)
  BY <1>1, QuietAlone
<1>4. current.id = NoSession \/ ShownStored(current)
  BY <1>1, <1>3, AloneShown DEF SerialInv, MemoryFresh, Replacing
<1>5. ShownStored(current)' <=> ShownStored(current)
  BY <1>1 DEF ShownStored
<1>6. creates' = {} /\ selects' = {} /\ Writing' = {}
  BY <1>1, <1>3 DEF Alone, Writing
<1>7. OneHandler' /\ HandlersFresh' /\ MemoryFresh'
  BY <1>1, <1>2, <1>3, <1>4, <1>5, <1>6, AloneStep DEF HandlerFresh, Chooses
<1>8. CallsReported'
  <2>1. Opening \in Action
    BY StoreAssumption DEF Opening, Action
  <2> QED BY <1>1, <1>2, <2>1 DEF SerialInv, CallsReported, BeforeCommit, InFlight, Waits
<1> QED BY <1>1, <1>7, <1>8, StoreStays DEF SerialInv

(* The verdict on the session of an answered call.                           *)
LEMMA VerifiedSerial ==
  ASSUME TypeInv, SerialInv, NEW i \in Action, Discard(i) \/ StartCommit(i) \/ LoadFindsNothing(i)
  PROVE  SerialInv'
<1>1. /\ Alone(i) /\ Waits(action[i]) /\ BeforeCommit(action[i]) /\ i # Opening
      /\ ~Replacing(action[i], current.id)
  <2>1. action[i].pc \in {"verifying", "loading"}
    BY DEF Discard, StartCommit, LoadFindsNothing
  <2> QED BY <2>1, WaitingAlone DEF SerialInv, CallsReported, BeforeCommit, Waits, Replacing
<1>2. CASE Discard(i)
  <2>1. StartReload(i, 0) /\ UNCHANGED <<current, creates, selects, marks, used>>
    BY <1>2 DEF Discard, memVars, opVars, boundVars
  <2> QED BY <1>1, <2>1, ReloadStarts, ReloadReported DEF SerialInv, MemoryFresh
<1>3. CASE LoadFindsNothing(i)
  <2>1. StartReload(i, running) /\ UNCHANGED <<current, creates, selects, marks, used>>
        /\ action[i].pc = "loading"
    BY <1>3 DEF LoadFindsNothing, memVars, opVars, boundVars
  <2> QED BY <1>1, <2>1, ReloadStarts, ReloadReported DEF SerialInv, MemoryFresh
<1>4. CASE StartCommit(i)
  <2>1. PICK ok \in May("read") :
          Advance(i, [action[i] EXCEPT
                     !.pc = "loading", !.ok = ok, !.alive = stored \cap {action[i].session},
                     !.loaded = IF ok THEN LoadOf(action[i].session) ELSE Nothing])
    BY <1>4 DEF StartCommit
  <2>2. PICK next : next = [action[i] EXCEPT
                     !.pc = "loading", !.ok = ok, !.alive = stored \cap {action[i].session},
                     !.loaded = IF ok THEN LoadOf(action[i].session) ELSE Nothing]
    OBVIOUS
  <2>3. /\ next.pc = "loading" /\ next.ok = ok /\ next.session = action[i].session
        /\ next.alive = stored \cap {action[i].session}
        /\ ok => next.loaded = LoadOf(action[i].session)
    BY <2>2 DEF TypeInv, TypeOK, HandlersTypeOK, ActionState
  <2>4. action'[i] = next /\ \A j \in Action \ {i} : action'[j] = action[j]
    BY <2>1, <2>2 DEF Advance, TypeInv, TypeOK, HandlersTypeOK
  <2>5. /\ UNCHANGED <<stored, metaOf, rows, assigned, current, creates, selects, marks, used>>
        /\ running' = 0
    BY <1>4 DEF StartCommit, dbVars, memVars, opVars, boundVars
  <2>6. HandlerFresh(action'[i], stored', metaOf', rows')
    BY <2>3, <2>4, <2>5 DEF HandlerFresh, LoadOf
  <2>7. current.id = NoSession \/ ShownStored(current)
    BY <1>1, AloneShown DEF SerialInv, MemoryFresh
  <2>8. ShownStored(current)' <=> ShownStored(current)
    BY <2>5 DEF ShownStored
  <2>9. creates' = {} /\ selects' = {} /\ Writing' = {}
    BY <1>1, <2>5 DEF Alone, Writing
  <2>10. OneHandler' /\ HandlersFresh' /\ MemoryFresh'
    BY <1>1, <2>3, <2>4, <2>5, <2>6, <2>7, <2>8, <2>9, AloneStep DEF Chooses
  <2>11. CallsReported'
    BY <1>1, <2>1, <2>2, <2>3, <2>5, AdvanceReported DEF SerialInv
  <2> QED BY <2>5, <2>10, <2>11, StoreStays DEF SerialInv
<1> QED BY <1>2, <1>3, <1>4

(* The ends of commitResponse that store nothing.                            *)
LEMMA RefusedSerial ==
  ASSUME TypeInv, SerialInv, NEW i \in Action,
         LoadFails(i) \/ RefuseResponse(i) \/ RecordReply(i) \/ CommitFails(i)
  PROVE  SerialInv'
<1>1. action[i].pc = "loading" \/ (action[i].pc = "committing" /\ ~action[i].ok)
  BY DEF LoadFails, RefuseResponse, RecordReply, CommitFails, Loaded
<1>2. Waits(action[i]) /\ ~Replacing(action[i], current.id) /\ action[i].pc # "recreating"
  BY <1>1 DEF Waits, Replacing
<1>3. Alone(i)
  BY <1>2, WaitingAlone DEF SerialInv
<1>4. Finish(i) /\ UNCHANGED <<stored, metaOf, rows, assigned, current, creates, selects, marks, used>>
  BY DEF LoadFails, RefuseResponse, RecordReply, CommitFails, dbVars, memVars, opVars, boundVars
<1> QED BY <1>2, <1>3, <1>4, AloneEnds

(* applyResponse and its transaction: what is stored keeps its order and its *)
(* rows together and counts on from the highest number, and what the handler *)
(* shows later is what it stored.                                            *)
LEMMA CommitSerial ==
  ASSUME TypeInv, SerialInv, NEW i \in Action, Commit(i)
  PROVE  SerialInv'
<1> DEFINE a == action[i]
           s == a.session
<1>1. PICK meta : meta = ApplyMeta(a.loaded, a.trimmed, a.images, commits + 1, now)
  OBVIOUS
<1>2. PICK turns : turns = ApplyTurns(rows[s], a.loaded, a.trimmed, a.images, commits + 1)
  OBVIOUS
<1>3. PICK shown : shown = ApplyTurns(a.loaded.turns, a.loaded, a.trimmed, a.images, commits + 1)
  OBVIOUS
<1>4. /\ a.pc = "loading" /\ a.ok /\ a.alive # {}
      /\ running' = running
      /\ UNCHANGED <<current, creates, selects, marks, used>>
  BY DEF Commit, Loaded, memVars, opVars
<1>5. PICK ok \in May("write") :
        /\ IF ok THEN Put(s, meta, turns) ELSE UNCHANGED dbVars
        /\ Advance(i, [a EXCEPT !.pc = "committing", !.ok = ok, !.loaded = View(meta, shown)])
  BY <1>1, <1>2, <1>3 DEF Commit
<1>6. PICK next : next = [a EXCEPT !.pc = "committing", !.ok = ok, !.loaded = View(meta, shown)]
  OBVIOUS
<1>7. /\ a \in ActionState /\ action \in [Action -> ActionState]
      /\ metaOf \in [Session -> Meta] /\ rows \in [Session -> SUBSET Turn]
      /\ stored \subseteq Session /\ now \in Nat /\ commits \in Nat
  BY DEF TypeInv, TypeOK, HandlersTypeOK, StoreTypeOK, BoundsTypeOK
<1>8. /\ next.pc = "committing" /\ next.ok = ok /\ next.session = s /\ next.loaded = View(meta, shown)
      /\ action'[i] = next /\ \A j \in Action \ {i} : action'[j] = action[j]
  BY <1>5, <1>6, <1>7 DEF Advance, ActionState
<1>9. s \in stored /\ a.loaded = View(metaOf[s], rows[s])
  BY <1>4 DEF SerialInv, HandlersFresh, HandlerFresh
<1>10. Alone(i) /\ Waits(a) /\ ~Replacing(a, current.id) /\ i # Opening
  BY <1>4, WaitingAlone DEF SerialInv, CallsReported, BeforeCommit, Waits, Replacing
<1>11. current.id = NoSession \/ ShownStored(current)
  BY <1>10, AloneShown DEF SerialInv, MemoryFresh
<1>12. creates' = {} /\ selects' = {} /\ Writing' = {}
  BY <1>4, <1>10 DEF Alone, Writing
<1>13. Chooses(i)' => current'.id = NoSession
  BY <1>8, <1>10 DEF Chooses
<1>14. CallsReported'
  BY <1>4, <1>5, <1>6, <1>8, <1>10, AdvanceReported DEF SerialInv
<1>15. CASE ok
  <2>1. metaOf[s].order = rows[s] /\ a.loaded.meta = metaOf[s] /\ a.loaded.turns = rows[s]
    BY <1>9 DEF SerialInv, StoreSound, View
  <2>2. meta.order = turns /\ shown = turns
    BY <1>1, <1>2, <1>3, <2>1 DEF ApplyMeta, ApplyTurns
  <2>3. meta.next >= metaOf[s].next
    <3>1. a.images \in Nat /\ metaOf[s].next \in Nat
      <4>1. a.images \in 0 .. MaxImages /\ MaxImages \in Nat
        BY <1>7, StoreAssumption DEF ActionState
      <4>2. metaOf[s] \in Meta
        BY <1>7, <1>9
      <4> QED BY <4>1, <4>2 DEF Meta
    <3>2. meta.next = metaOf[s].next + a.images
      BY <1>1, <2>1 DEF ApplyMeta
    <3> QED BY <3>1, <3>2
  <2>4. meta \in Meta
    <3>1. a.loaded \in Stored /\ a.images \in Nat /\ commits + 1 \in Nat
      BY <1>7, StoreAssumption DEF ActionState
    <3> QED BY <1>1, <1>7, <3>1, ApplyMetaType
  <2>5. StoreSound'
    BY <1>4, <1>5, <1>9, <1>15, <2>2, <2>3, <2>4, PutSound DEF SerialInv
  <2>6. /\ stored' = stored /\ metaOf'[s] = meta /\ rows'[s] = turns
        /\ \A x \in Session \ {s} : metaOf'[x] = metaOf[x] /\ rows'[x] = rows[x]
    BY <1>5, <1>9, <1>15, PutWrites
  <2>7. HandlerFresh(action'[i], stored', metaOf', rows')
    BY <1>8, <1>9, <2>2, <2>6 DEF HandlerFresh, Same
  <2>8. current'.id = NoSession \/ ShownStored(current)' \/ Replacing(action'[i], current'.id)
    <3>1. CASE current.id = s
      BY <1>4, <1>8, <1>15, <3>1 DEF Replacing
    <3>2. CASE current.id # s
      BY <1>4, <1>7, <1>11, <2>6, <3>2 DEF ShownStored, Same
    <3> QED BY <3>1, <3>2
  <2> QED BY <1>8, <1>10, <1>12, <1>13, <1>14, <2>5, <2>7, <2>8, AloneStep DEF SerialInv
<1>16. CASE ~ok
  <2>1. UNCHANGED <<stored, metaOf, rows, assigned>>
    BY <1>5, <1>16 DEF dbVars
  <2>2. ShownStored(current)' <=> ShownStored(current)
    BY <1>4, <2>1 DEF ShownStored
  <2>3. HandlerFresh(action'[i], stored', metaOf', rows')
    BY <1>8, <1>16 DEF HandlerFresh
  <2>4. OneHandler' /\ HandlersFresh' /\ MemoryFresh'
    BY <1>4, <1>8, <1>10, <1>11, <1>12, <1>13, <2>2, <2>3, AloneStep
  <2> QED BY <1>4, <1>14, <2>1, <2>4, StoreStays DEF SerialInv
<1> QED BY <1>15, <1>16

(* The in-memory state follows the commit, or the selection of a reload.     *)
LEMMA CommittedSerial ==
  ASSUME TypeInv, SerialInv, NEW i \in Action, Committed(i) \/ Reselected(i)
  PROVE  SerialInv'
<1>1. /\ action[i].pc \in {"committing", "reselecting"} /\ Finish(i)
      /\ UNCHANGED <<stored, metaOf, rows, assigned, creates, selects, marks, used>>
  BY DEF Committed, Reselected, dbVars, opVars, boundVars
<1>2. Waits(action[i]) /\ Alone(i)
  BY <1>1, WaitingAlone DEF SerialInv, Waits
<1>3. /\ \A j \in Action \ {i} : action'[j] = action[j]
      /\ action'[i].pc = "done"
  BY <1>1 DEF Finish, DoneAction, IdleAction, TypeInv, TypeOK, HandlersTypeOK
<1>4. current.id = NoSession \/ ShownStored(current) \/ Replacing(action[i], current.id)
  BY <1>2, AloneShown DEF SerialInv, MemoryFresh
<1>5. action[i].ok => Same(action[i].session, stored, metaOf, rows, action[i].loaded)
  BY <1>1 DEF SerialInv, HandlersFresh, HandlerFresh
<1>6. action[i].loaded.meta \in Meta /\ [meta |-> action[i].loaded.meta, turns |-> action[i].loaded.turns] = action[i].loaded
  BY DEF TypeInv, TypeOK, HandlersTypeOK, ActionState, Stored
<1>7. action[i].ok => ShownStored(Show(action[i].session, action[i].loaded))
  BY <1>5, <1>6 DEF ShownStored, Show
<1>8. current'.id = NoSession \/ ShownStored(current')
  <2>1. CASE Committed(i)
    <3>1. action[i].ok /\ action[i].pc = "committing" /\ ReplaceStored(action[i].session, action[i].loaded)
      BY <2>1 DEF Committed
    <3>2. CASE current.id = action[i].session
      BY <1>7, <3>1, <3>2 DEF ReplaceStored
    <3>3. CASE current.id # action[i].session
      BY <1>4, <3>1, <3>3 DEF ReplaceStored, Replacing
    <3> QED BY <3>2, <3>3
  <2>2. CASE Reselected(i)
    <3>1. /\ action[i].pc = "reselecting"
          /\ current' = IF action[i].ok THEN Show(action[i].session, action[i].loaded) ELSE current
      BY <2>2 DEF Reselected
    <3> QED BY <1>4, <1>7, <3>1 DEF Replacing
  <2> QED BY <2>1, <2>2
<1>9. ShownStored(current)' <=> ShownStored(current')
  BY <1>1 DEF ShownStored
<1>10. creates' = {} /\ selects' = {} /\ Writing' = {}
  BY <1>1, <1>2 DEF Alone, Writing
<1>11. OneHandler' /\ HandlersFresh' /\ MemoryFresh'
  BY <1>2, <1>3, <1>8, <1>9, <1>10, AloneStep DEF HandlerFresh, Chooses
<1>12. CallsReported'
  BY <1>1, <1>2, FinishReported DEF SerialInv
<1> QED BY <1>1, <1>11, <1>12, StoreStays DEF SerialInv

(* A creation that was asked for while no storage call was outstanding.      *)
LEMMA NewCreateSerial ==
  ASSUME TypeInv, OneHandler, StoreSound, NEW leaving, NEW seed, NEW owner,
         NewCreate(leaving, seed, owner), creates = {},
         UNCHANGED <<stored, metaOf, rows, assigned, selects, marks>>,
         selects = {}, Writing = {}, leaving = current'.id,
         owner = NoAction => \A i \in Action : ~Waits(action'[i]),
         owner # NoAction => /\ owner \in Action /\ action'[owner].pc = "recreating"
                             /\ \A i \in Action \ {owner} : ~Waits(action'[i])
  PROVE  OneHandler' /\ StoreSound' /\ SelectsFresh' /\ FlagsFresh' /\ CreatesFresh'
<1>1. PICK id \in Session \ used :
        /\ used' = used \cup {id}
        /\ creates' = {[id |-> id, since |-> now, leaving |-> leaving, seed |-> seed,
                        owner |-> owner, ran |-> FALSE, ok |-> FALSE, evicted |-> {}]}
  BY DEF NewCreate
<1>2. PICK op : op = [id |-> id, since |-> now, leaving |-> leaving, seed |-> seed,
                      owner |-> owner, ran |-> FALSE, ok |-> FALSE, evicted |-> {}]
  OBVIOUS
<1>3. op.id = id /\ op.leaving = leaving /\ op.owner = owner /\ ~op.ran /\ ~op.ok /\ creates' = {op}
  BY <1>1, <1>2
<1>4. Writing' = {} /\ selects' = {}
  BY DEF Writing
<1>5. OneHandler'
  <2>1. \A o \in creates' : o.owner = owner
    BY <1>3
  <2>2. \A i \in Action : Waits(action'[i]) => action'[i].pc = "recreating" /\ i = owner
    OBVIOUS
  <2> QED BY <1>3, <1>4, <2>1, <2>2 DEF OneHandler
<1>6. StoreSound'
  <2>1. \A s \in Session : Unborn(s)' => Unborn(s)
    BY <1>1, <1>3 DEF Unborn
  <2> QED BY <1>1, <1>3, <2>1 DEF StoreSound
<1>7. SelectsFresh' /\ FlagsFresh' /\ CreatesFresh'
  BY <1>3, <1>4 DEF SelectsFresh, FlagsFresh, CreatesFresh
<1> QED BY <1>5, <1>6, <1>7

(* What refreshSessions and init do with the list.                           *)
LEMMA ReloadSerial ==
  ASSUME TypeInv, SerialInv, NEW i \in Action, ReloadKeeps(i) \/ ReloadSelects(i) \/ ReloadCreates(i)
  PROVE  SerialInv'
<1>1. action[i].pc = "reloading"
  BY DEF ReloadKeeps, ReloadSelects, ReloadCreates, ReloadReplaces
<1>2. Waits(action[i]) /\ Alone(i) /\ action[i].alive = stored
  BY <1>1, WaitingAlone DEF SerialInv, Waits, HandlersFresh, HandlerFresh
<1>3. i = Opening => current.id = NoSession
  BY <1>1 DEF SerialInv, MemoryFresh, NoneShown, Chooses
<1>4. action[i] \in ActionState /\ action \in [Action -> ActionState]
  BY DEF TypeInv, TypeOK, HandlersTypeOK
<1>5. NoCurrent.id = NoSession
  BY DEF NoCurrent
<1>6. CASE ReloadKeeps(i)
  <2>1. Finish(i) /\ current.id \in action[i].alive
        /\ UNCHANGED <<stored, metaOf, rows, assigned, current, creates, selects, marks, used>>
    BY <1>6 DEF ReloadKeeps, dbVars, opVars, boundVars
  <2>2. ~Replacing(action[i], current.id)
    BY <1>1, <2>1 DEF Replacing
  <2> QED BY <1>2, <2>1, <2>2, AloneEnds
<1>7. CASE ReloadSelects(i)
  <2> DEFINE s == action[i].session
  <2>1. PICK ok \in May("read") :
          Advance(i, [action[i] EXCEPT
                     !.pc = "reselecting", !.ok = ok /\ s \in stored,
                     !.loaded = IF ok THEN LoadOf(s) ELSE Nothing])
    BY <1>7 DEF ReloadSelects
  <2>2. PICK next : next = [action[i] EXCEPT
                     !.pc = "reselecting", !.ok = ok /\ s \in stored,
                     !.loaded = IF ok THEN LoadOf(s) ELSE Nothing]
    OBVIOUS
  <2>3. /\ next.pc = "reselecting" /\ next.session = s
        /\ next.ok => s \in stored /\ next.loaded = LoadOf(s)
    BY <1>4, <2>2 DEF ActionState
  <2>4. action'[i] = next /\ \A j \in Action \ {i} : action'[j] = action[j]
    BY <1>4, <2>1, <2>2 DEF Advance
  <2>5. /\ UNCHANGED <<stored, metaOf, rows, assigned, creates, selects, marks, used, running>>
        /\ current' = IF i = Opening THEN current ELSE NoCurrent
    BY <1>7 DEF ReloadSelects, ReloadReplaces, dbVars
  <2>6. current'.id = NoSession
    BY <1>3, <1>5, <2>5
  <2>7. HandlerFresh(action'[i], stored', metaOf', rows')
    BY <2>3, <2>4, <2>5 DEF HandlerFresh, LoadOf, Same
  <2>8. creates' = {} /\ selects' = {} /\ Writing' = {}
    BY <1>2, <2>5 DEF Alone, Writing
  <2>9. OneHandler' /\ HandlersFresh' /\ MemoryFresh'
    BY <1>2, <2>4, <2>6, <2>7, <2>8, AloneStep
  <2>10. CallsReported'
    BY <1>1, <1>2, <2>1, <2>2, <2>3, <2>5, AdvanceReported DEF SerialInv, BeforeCommit
  <2> QED BY <2>5, <2>9, <2>10, StoreStays DEF SerialInv
<1>8. CASE ReloadCreates(i)
  <2>1. PICK next : next = [action[i] EXCEPT !.pc = "recreating"]
    OBVIOUS
  <2>2. next.pc = "recreating" /\ Advance(i, next)
    BY <1>4, <1>8, <2>1 DEF ReloadCreates, ActionState
  <2>3. action'[i] = next /\ \A j \in Action \ {i} : action'[j] = action[j]
    BY <1>4, <2>2 DEF Advance
  <2>4. /\ UNCHANGED <<stored, metaOf, rows, assigned, selects, marks, running>>
        /\ current' = IF i = Opening THEN current ELSE NoCurrent
    BY <1>8 DEF ReloadCreates, ReloadReplaces, dbVars
  <2>5. current'.id = NoSession
    BY <1>3, <1>5, <2>4
  <2>6. PICK leaving : NewCreate(leaving, 0, i) /\ leaving = current'.id
    <3>1. NewCreate(IF i = Opening THEN current.id ELSE NoSession, 0, i)
      BY <1>8 DEF ReloadCreates
    <3> QED BY <1>3, <2>5, <3>1
  <2>7. i # NoAction
    BY StoreAssumption DEF Action, NoAction
  <2>8. creates = {} /\ selects = {} /\ Writing = {} /\ \A j \in Action \ {i} : ~Waits(action'[j])
    BY <1>2, <2>3 DEF Alone
  <2>9. OneHandler' /\ StoreSound' /\ SelectsFresh' /\ FlagsFresh' /\ CreatesFresh'
    BY <2>2, <2>3, <2>4, <2>6, <2>7, <2>8, NewCreateSerial DEF SerialInv
  <2>10. HandlersFresh'
    <3>1. \A j \in Action : HandlerFresh(action'[j], stored', metaOf', rows')
      BY <2>2, <2>3, <2>8 DEF HandlerFresh, Waits
    <3> QED BY <3>1 DEF HandlersFresh
  <2>11. NoneShown' /\ CurrentFresh'
    BY <2>5 DEF NoneShown, CurrentFresh
  <2>12. CallsReported'
    BY <1>1, <1>2, <2>2, <2>4, AdvanceReported DEF SerialInv, BeforeCommit
  <2> QED BY <2>9, <2>10, <2>11, <2>12 DEF SerialInv, MemoryFresh
<1> QED BY <1>6, <1>7, <1>8

-----------------------------------------------------------------------------
(* What the user starts, and the other storage calls.                        *)

(* A step of the user that neither waits nor writes.                         *)
LEMMA StillSerial ==
  ASSUME TypeInv, SerialInv, UNCHANGED <<action, running>>, Writing' = Writing,
         UNCHANGED <<stored, metaOf, rows, assigned, current, creates, selects, used>>
  PROVE  SerialInv'
<1>1. Opening \in Action
  BY StoreAssumption DEF Opening, Action
<1>2. CallsReported'
  BY SameReported DEF SerialInv
<1> QED BY <1>1, <1>2, QuietStep DEF SerialInv

(* A call is started only while none is reported.                            *)
LEMMA ExecuteSerial ==
  ASSUME TypeInv, SerialInv, NEW content, Execute(content), ~generating, ~StorageBusy
  PROVE  SerialInv'
<1>1. PICK i : i = sends + 1
  OBVIOUS
<1>2. i \in Action /\ i # Opening /\ running = 0 /\ Opening \in Action
  BY <1>1, StoreAssumption DEF Execute, TypeInv, TypeOK, BoundsTypeOK, Action, Opening, generating
<1>3. PICK next : next = [IdleAction EXCEPT !.pc = "calling", !.session = current.id,
                            !.content = content, !.sent = current.turns]
  OBVIOUS
<1>4. next.pc = "calling"
  BY <1>3 DEF IdleAction
<1>5. action'[i] = next /\ \A j \in Action \ {i} : action'[j] = action[j]
  BY <1>1, <1>2, <1>3 DEF Execute, Advance, TypeInv, TypeOK, HandlersTypeOK
<1>6. UNCHANGED <<stored, metaOf, rows, assigned, current, creates, selects, marks, used>> /\ running' = i
  BY <1>1 DEF Execute, dbVars, opVars
<1>7. Writing' = Writing
  BY <1>6 DEF Writing
<1>8. \A j \in Action : ~Waits(action[j])
  BY QuietAlone
<1>9. \A j \in Action : ~InFlight(j)
  BY <1>2 DEF SerialInv, CallsReported, InFlight, BeforeCommit, Opening
<1>10. CallsReported'
  BY <1>2, <1>4, <1>5, <1>6, <1>8, <1>9 DEF SerialInv, CallsReported, InFlight, BeforeCommit, Waits
<1>11. ~Waits(action'[i]) /\ action[i].pc \in {"idle", "calling", "verifying", "done"}
  BY <1>2, <1>4, <1>5, <1>8 DEF Waits
<1> QED BY <1>2, <1>5, <1>6, <1>7, <1>10, <1>11, QuietStep DEF SerialInv

(* A creation the user asked for leaves the session shown.                   *)
LEMMA UserCreates ==
  ASSUME TypeInv, SerialInv, ~StorageBusy, NEW seed, NewCreate(current.id, seed, NoAction),
         UNCHANGED <<stored, metaOf, rows, assigned, current, selects, marks, action, running>>
  PROVE  SerialInv'
<1>1. PICK leaving : leaving = current.id /\ NewCreate(leaving, seed, NoAction)
  OBVIOUS
<1>2. (\A i \in Action : ~Waits(action[i])) /\ creates = {} /\ selects = {} /\ Writing = {}
  BY QuietAlone
<1>3. OneHandler' /\ StoreSound' /\ SelectsFresh' /\ FlagsFresh' /\ CreatesFresh'
  BY <1>1, <1>2, NewCreateSerial DEF SerialInv
<1>4. HandlersFresh' /\ NoneShown'
  BY DEF SerialInv, MemoryFresh, HandlersFresh, NoneShown, Chooses
<1>5. CurrentFresh'
  <2>1. Writing' = Writing
    BY DEF Writing
  <2>2. ShownStored(current)' <=> ShownStored(current)
    BY DEF ShownStored
  <2> QED BY <2>1, <2>2 DEF SerialInv, MemoryFresh, CurrentFresh
<1> QED BY <1>3, <1>4, <1>5, SameReported DEF SerialInv, MemoryFresh

(* What the user does, once nothing waits for the store. *)
LEMMA UserSerial ==
  ASSUME Serialized, TypeInv, SerialInv, UserStep
  PROVE  SerialInv'
<1>1. CASE Open
  <2>1. /\ StartReload(Opening, running) /\ ~StorageBusy /\ current.id = NoSession
        /\ action[Opening].pc \in {"idle", "done"}
        /\ UNCHANGED <<current, creates, selects, marks, used>>
    BY <1>1 DEF Open, MayStart, memVars, opVars, boundVars
  <2>2. Opening \in Action
    BY StoreAssumption DEF Opening, Action
  <2>3. Alone(Opening)
    BY <2>1, <2>2, QuietAlone
  <2>4. ~Replacing(action[Opening], current.id) /\ ~InFlight(Opening)
    BY <2>1 DEF Replacing, InFlight
  <2>5. OneHandler' /\ StoreSound' /\ HandlersFresh' /\ MemoryFresh'
    BY <2>1, <2>2, <2>3, <2>4, ReloadStarts DEF SerialInv, MemoryFresh
  <2>6. CallsReported'
    BY <2>1, <2>2, <2>4, ReloadReported DEF SerialInv
  <2> QED BY <2>5, <2>6 DEF SerialInv
<1>2. CASE Type \/ EditVersion
  <2>1. UNCHANGED <<stored, metaOf, rows, assigned, current, creates, selects, marks, used, action, running>>
    BY <1>2 DEF Type, EditVersion, dbVars, opVars
  <2> QED BY <2>1, StillSerial DEF Writing
<1>3. CASE Send \/ Retry
  BY <1>3, ExecuteSerial DEF Send, Retry, MayStart
<1>4. CASE Cancel
  BY <1>4, CallEndsSerial DEF Cancel, TypeInv, TypeOK, HandlersTypeOK
<1>5. CASE Select
  <2>1. PICK s \in listed, ok \in May("read") :
          selects' = selects \cup {[id |-> s, ok |-> ok /\ s \in stored,
                                    loaded |-> IF ok THEN LoadOf(s) ELSE Nothing]}
    BY <1>5 DEF Select
  <2>2. PICK op : op = [id |-> s, ok |-> ok /\ s \in stored, loaded |-> IF ok THEN LoadOf(s) ELSE Nothing]
    OBVIOUS
  <2>3. (op.ok => Same(op.id, stored, metaOf, rows, op.loaded)) /\ selects' = selects \cup {op}
    BY <2>1, <2>2 DEF Same, LoadOf
  <2>4. /\ UNCHANGED <<stored, metaOf, rows, assigned, current, creates, marks, used, action, running>>
        /\ ~StorageBusy
    BY <1>5 DEF Select, MayStart, dbVars, memVars, boundVars
  <2>5. (\A i \in Action : ~Waits(action[i])) /\ creates = {} /\ selects = {} /\ Writing = {}
    BY <2>4, QuietAlone
  <2>6. Writing' = {} /\ creates' = {}
    BY <2>4, <2>5 DEF Writing
  <2>7. OneHandler' /\ HandlersFresh' /\ NoneShown'
    BY <2>4, <2>5, <2>6 DEF OneHandler, SerialInv, MemoryFresh, HandlersFresh, NoneShown, Chooses
  <2>8. CurrentFresh'
    <3>1. ShownStored(current)' <=> ShownStored(current)
      BY <2>4 DEF ShownStored
    <3> QED BY <2>4, <2>5, <3>1 DEF SerialInv, MemoryFresh, CurrentFresh
  <2>9. SelectsFresh' /\ FlagsFresh' /\ CreatesFresh'
    BY <2>3, <2>4, <2>5, <2>6 DEF SelectsFresh, FlagsFresh, CreatesFresh
  <2> QED BY <2>4, <2>7, <2>8, <2>9, StoreStays, SameReported DEF SerialInv, MemoryFresh
<1>6. CASE NewSession \/ SeededSession
  <2>1. PICK seed : NewCreate(current.id, seed, NoAction)
    BY <1>6 DEF NewSession, SeededSession
  <2>2. /\ UNCHANGED <<stored, metaOf, rows, assigned, current, selects, marks, action, running>>
        /\ ~StorageBusy
    BY <1>6 DEF NewSession, SeededSession, MayStart, dbVars, memVars
  <2> QED BY <2>1, <2>2, UserCreates
<1>7. CASE Deliver
  <2>1. PICK m : m.flagged = NoSession /\ marks' = marks \cup {m}
    BY <1>7 DEF Deliver
  <2>2. Writing' = Writing
    BY <2>1 DEF Writing
  <2>3. UNCHANGED <<stored, metaOf, rows, assigned, current, creates, selects, used, action, running>>
    BY <1>7 DEF Deliver, dbVars, memVars, boundVars
  <2> QED BY <2>2, <2>3, StillSerial
<1> QED BY <1>1, <1>2, <1>3, <1>4, <1>5, <1>6, <1>7 DEF UserStep

(* createWithEviction: the new session is stored empty, and neither it nor   *)
(* the session shown is evicted.                                             *)
LEMMA CreateRunsSerial ==
  ASSUME TypeInv, SerialInv, CreateRuns
  PROVE  SerialInv'
<1>1. PICK op \in creates :
        /\ ~op.ran
        /\ \/ creates' = (creates \ {op}) \cup {[op EXCEPT !.ran = TRUE]} /\ UNCHANGED dbVars
           \/ \E victims \in SUBSET stored :
                /\ IsVictimSet(victims, stored, metaOf, Excluded(op), Cap)
                /\ creates' = (creates \ {op}) \cup {[op EXCEPT !.ran = TRUE, !.ok = TRUE, !.evicted = victims]}
                /\ stored' = (stored \ victims) \cup {op.id}
                /\ metaOf' = [s \in Session |-> IF s = op.id THEN EmptyMeta(op.since)
                                                ELSE IF s \in victims THEN EmptyMeta(0) ELSE metaOf[s]]
                /\ rows' = [s \in Session |-> IF s \in victims THEN {} ELSE rows[s]]
                /\ UNCHANGED assigned
  BY DEF CreateRuns
<1>2. UNCHANGED <<current, selects, marks, used, action, running>>
  BY DEF CreateRuns, memVars, boundVars
<1>3. /\ op.id \in Session /\ op.id \in used /\ op.leaving = current.id
      /\ op.id \notin stored /\ assigned[op.id] = 0 /\ rows[op.id] = {} /\ stored \subseteq Session
  <2>1. op \in CreateOp
    BY <1>1 DEF TypeInv, TypeOK, HandlersTypeOK
  <2>2. op.id \in Session /\ Unborn(op.id) /\ op.id \in used /\ op.leaving = current.id
    BY <1>1, <2>1 DEF CreateOp, Unborn, SerialInv, StoreSound, MemoryFresh, CreatesFresh
  <2> QED BY <2>2 DEF SerialInv, StoreSound, TypeInv, TypeOK, StoreTypeOK
<1>4. selects = {} /\ Writing = {} /\ creates = {op} /\ op.owner \in Action \cup {NoAction}
  BY <1>1, ZenonT(60) DEF SerialInv, OneHandler, TypeInv, TypeOK, HandlersTypeOK, CreateOp
<1>5. \A i \in Action : Waits(action[i]) => action[i].pc = "recreating"
  BY <1>4 DEF SerialInv, OneHandler
<1>6. current.id = NoSession \/ ShownStored(current)
  BY <1>4, <1>5 DEF SerialInv, MemoryFresh, CurrentFresh, Replacing, Waits
<1>7. PICK ran : /\ creates' = {ran} /\ ran.ran
                 /\ ran.id = op.id /\ ran.owner = op.owner /\ ran.leaving = op.leaving /\ ran.since = op.since
  <2>1. op \in CreateOp
    BY <1>1 DEF TypeInv, TypeOK, HandlersTypeOK
  <2>2. CASE creates' = (creates \ {op}) \cup {[op EXCEPT !.ran = TRUE]}
    <3>1. PICK o : o = [op EXCEPT !.ran = TRUE]
      OBVIOUS
    <3>2. o.ran /\ o.id = op.id /\ o.owner = op.owner /\ o.leaving = op.leaving /\ o.since = op.since
      BY <2>1, <3>1 DEF CreateOp
    <3> QED BY <1>4, <2>2, <3>1, <3>2
  <2>3. CASE \E victims : creates' = (creates \ {op}) \cup {[op EXCEPT !.ran = TRUE, !.ok = TRUE, !.evicted = victims]}
    <3>1. PICK victims, o : /\ o = [op EXCEPT !.ran = TRUE, !.ok = TRUE, !.evicted = victims]
                            /\ creates' = (creates \ {op}) \cup {o}
      BY <2>3
    <3>2. o.ran /\ o.id = op.id /\ o.owner = op.owner /\ o.leaving = op.leaving /\ o.since = op.since
      BY <2>1, <3>1 DEF CreateOp
    <3> QED BY <1>4, <3>1, <3>2
  <2> QED BY <1>1, <2>2, <2>3
<1>8. Writing' = {} /\ selects' = {}
  BY <1>2, <1>4 DEF Writing
<1>9. OneHandler'
  BY <1>2, <1>4, <1>7, <1>8 DEF SerialInv, OneHandler
<1>10. CallsReported'
  BY <1>2, SameReported DEF SerialInv
<1>11. HandlersFresh' /\ NoneShown'
  <2>1. \A i \in Action : HandlerFresh(action[i], stored', metaOf', rows')
    BY <1>5 DEF HandlerFresh, Waits
  <2> QED BY <1>2, <2>1 DEF SerialInv, MemoryFresh, HandlersFresh, NoneShown, Chooses
<1>12. SelectsFresh' /\ FlagsFresh'
  BY <1>8 DEF SelectsFresh, FlagsFresh
<1>13. op.ok = FALSE
  <2>1. op.ok \in BOOLEAN /\ ~op.ok
    BY <1>1, <1>3 DEF SerialInv, MemoryFresh, CreatesFresh, Same, TypeInv, TypeOK, HandlersTypeOK, CreateOp
  <2> QED BY <2>1
<1>14. CASE creates' = (creates \ {op}) \cup {[op EXCEPT !.ran = TRUE]} /\ UNCHANGED dbVars
  <2>1. ran = [op EXCEPT !.ran = TRUE]
    BY <1>4, <1>7, <1>14
  <2>2. ran.ok = FALSE
    BY <1>1, <1>13, <2>1 DEF TypeInv, TypeOK, HandlersTypeOK, CreateOp
  <2>3. UNCHANGED <<stored, metaOf, rows, assigned>>
    BY <1>14 DEF dbVars
  <2>4. StoreSound'
    BY <1>2, <1>3, <1>7, <2>3 DEF SerialInv, StoreSound, Unborn
  <2>5. CreatesFresh'
    BY <1>2, <1>3, <1>7, <2>2 DEF CreatesFresh
  <2>6. CurrentFresh'
    BY <1>2, <1>6, <2>3 DEF CurrentFresh, ShownStored
  <2> QED BY <1>9, <1>10, <1>11, <1>12, <2>4, <2>5, <2>6 DEF SerialInv, MemoryFresh
<1>15. CASE \E victims \in SUBSET stored :
              /\ IsVictimSet(victims, stored, metaOf, Excluded(op), Cap)
              /\ stored' = (stored \ victims) \cup {op.id}
              /\ metaOf' = [s \in Session |-> IF s = op.id THEN EmptyMeta(op.since)
                                              ELSE IF s \in victims THEN EmptyMeta(0) ELSE metaOf[s]]
              /\ rows' = [s \in Session |-> IF s \in victims THEN {} ELSE rows[s]]
              /\ UNCHANGED assigned
  <2>1. PICK victims \in SUBSET stored :
              /\ IsVictimSet(victims, stored, metaOf, Excluded(op), Cap)
              /\ stored' = (stored \ victims) \cup {op.id}
              /\ metaOf' = [s \in Session |-> IF s = op.id THEN EmptyMeta(op.since)
                                              ELSE IF s \in victims THEN EmptyMeta(0) ELSE metaOf[s]]
              /\ rows' = [s \in Session |-> IF s \in victims THEN {} ELSE rows[s]]
              /\ UNCHANGED assigned
    BY <1>15
  <2>2. op.id \notin victims /\ current.id \notin victims
    BY <1>3, <2>1 DEF IsVictimSet, Excluded
  <2>3. /\ metaOf'[op.id] = EmptyMeta(op.since) /\ rows'[op.id] = {} /\ assigned' = assigned
        /\ \A s \in stored \ victims : metaOf'[s] = metaOf[s] /\ rows'[s] = rows[s]
    BY <1>3, <2>1, <2>2
  <2>4. EmptyMeta(op.since).next = 1 /\ EmptyMeta(op.since).order = {}
    BY DEF EmptyMeta
  <2>5. StoreSound'
    <3>1. \A s \in stored' : metaOf'[s].next = assigned'[s] + 1 /\ metaOf'[s].order = rows'[s]
      <4>1. \A s \in stored \ victims : metaOf'[s].next = assigned'[s] + 1 /\ metaOf'[s].order = rows'[s]
        BY <2>3 DEF SerialInv, StoreSound
      <4>2. metaOf'[op.id].next = assigned'[op.id] + 1 /\ metaOf'[op.id].order = rows'[op.id]
        BY <1>3, <2>3, <2>4
      <4> QED BY <2>1, <4>1, <4>2
    <3>2. \A s \in Session \ stored' : rows'[s] = {}
      BY <2>1 DEF SerialInv, StoreSound
    <3>3. \A s \in Session : Unborn(s)' => s \notin used
      BY <1>2, <1>7 DEF Unborn
    <3>4. \A s \in Session : Unborn(s)' => s \notin stored' /\ assigned'[s] = 0
      BY <1>3, <2>1, <2>3, <3>3 DEF SerialInv, StoreSound, Unborn
    <3> QED BY <1>2, <1>3, <1>7, <3>1, <3>2, <3>4 DEF StoreSound
  <2>6. CreatesFresh'
    <3>1. Same(op.id, stored', metaOf', rows', [meta |-> EmptyMeta(op.since), turns |-> {}])
      BY <2>1, <2>3 DEF Same, View
    <3> QED BY <1>2, <1>3, <1>7, <3>1 DEF CreatesFresh
  <2>7. CurrentFresh'
    <3>1. ShownStored(current) => ShownStored(current)'
      BY <1>2, <2>1, <2>2, <2>3 DEF ShownStored, Same
    <3> QED BY <1>2, <1>6, <3>1 DEF CurrentFresh
  <2> QED BY <1>9, <1>10, <1>11, <1>12, <2>5, <2>6, <2>7 DEF SerialInv, MemoryFresh
<1> QED BY <1>1, <1>14, <1>15

(* The handler that asked for the creation shows the new session.            *)
LEMMA CreatedSerial ==
  ASSUME TypeInv, SerialInv, Created
  PROVE  SerialInv'
<1>1. PICK op \in creates :
        /\ op.ran /\ creates' = creates \ {op}
        /\ IF op.ok THEN current' = Show(op.id, [meta |-> EmptyMeta(op.since), turns |-> {}])
                    ELSE UNCHANGED current
        /\ IF op.owner = NoAction THEN UNCHANGED <<running, action>> ELSE Finish(op.owner)
  BY DEF Created
<1>2. UNCHANGED <<stored, metaOf, rows, assigned, selects, marks, used>>
  BY DEF Created, dbVars, boundVars
<1>3. selects = {} /\ Writing = {} /\ creates = {op} /\ op.owner \in Action \cup {NoAction}
  BY <1>1 DEF SerialInv, OneHandler, TypeInv, TypeOK, HandlersTypeOK, CreateOp
<1>4. creates' = {} /\ selects' = {} /\ Writing' = {}
  BY <1>1, <1>2, <1>3 DEF Writing
<1>5. \A i \in Action : Waits(action[i]) => action[i].pc = "recreating"
  BY <1>3 DEF SerialInv, OneHandler
<1>6. current.id = NoSession \/ ShownStored(current)
  BY <1>3, <1>5 DEF SerialInv, MemoryFresh, CurrentFresh, Replacing, Waits
<1>7. current'.id = NoSession \/ ShownStored(current')
  <2>1. op.ok => ShownStored(Show(op.id, [meta |-> EmptyMeta(op.since), turns |-> {}]))
    BY <1>1 DEF SerialInv, MemoryFresh, CreatesFresh, ShownStored, Show
  <2> QED BY <1>1, <1>6, <2>1
<1>8. ShownStored(current)' <=> ShownStored(current')
  BY <1>2 DEF ShownStored
<1>9. StoreSound'
  BY <1>1, <1>2, <1>4 DEF SerialInv, StoreSound, Unborn
<1>10. CASE op.owner = NoAction
  <2>1. \A i \in Action : ~Waits(action[i])
    BY <1>1, <1>10 DEF SerialInv, OneHandler
  <2>2. UNCHANGED <<running, action>> /\ Opening \in Action
    BY <1>1, <1>10, StoreAssumption DEF Opening, Action
  <2>3. HandlerFresh(action'[Opening], stored', metaOf', rows') /\ ~Chooses(Opening)'
    BY <2>1, <2>2 DEF HandlerFresh, Chooses, Waits
  <2>4. OneHandler' /\ HandlersFresh' /\ MemoryFresh'
    BY <1>4, <1>7, <1>8, <2>1, <2>2, <2>3, AloneAfter
  <2> QED BY <1>9, <2>2, <2>4, SameReported DEF SerialInv
<1>11. CASE op.owner # NoAction
  <2>1. PICK i \in Action : i = op.owner
    BY <1>3, <1>11
  <2>2. Finish(i) /\ action[i].pc = "recreating"
    BY <1>1, <1>11, <2>1 DEF SerialInv, OneHandler
  <2>3. action'[i].pc = "done" /\ \A j \in Action \ {i} : action'[j] = action[j]
    BY <2>2 DEF Finish, DoneAction, IdleAction, TypeInv, TypeOK, HandlersTypeOK
  <2>4. Waits(action[i]) /\ \A j \in Action \ {i} : ~Waits(action[j])
    BY <2>2 DEF SerialInv, OneHandler, Waits
  <2>5. HandlerFresh(action'[i], stored', metaOf', rows') /\ ~Chooses(i)'
    BY <2>3 DEF HandlerFresh, Chooses
  <2>6. OneHandler' /\ HandlersFresh' /\ MemoryFresh'
    BY <1>4, <1>7, <1>8, <2>3, <2>4, <2>5, AloneAfter
  <2>7. CallsReported'
    BY <2>2, <2>4, FinishReported DEF SerialInv
  <2> QED BY <1>9, <2>6, <2>7 DEF SerialInv
<1> QED BY <1>10, <1>11

(* A selection shows what its load found.                                    *)
LEMMA SelectedSerial ==
  ASSUME TypeInv, SerialInv, Selected
  PROVE  SerialInv'
<1>1. PICK op \in selects : /\ selects' = selects \ {op}
                            /\ current' = IF op.ok THEN Show(op.id, op.loaded) ELSE current
  BY DEF Selected
<1>2. UNCHANGED <<stored, metaOf, rows, assigned, creates, marks, used, running, action>>
  BY DEF Selected, dbVars, boundVars
<1>3. creates = {} /\ Writing = {} /\ Writing' = {} /\ \A i \in Action : ~Waits(action[i])
  <2>1. \A i \in Action : ~Waits(action[i])
    BY <1>1 DEF SerialInv, OneHandler
  <2>2. creates = {} \/ selects = {}
    BY DEF SerialInv, OneHandler
  <2>3. Writing = {}
    BY <1>1 DEF SerialInv, OneHandler
  <2>4. Writing' = Writing
    BY <1>2 DEF Writing
  <2> QED BY <1>1, <2>1, <2>2, <2>3, <2>4
<1>4. OneHandler'
  BY <1>2, <1>3 DEF OneHandler
<1>5. HandlersFresh' /\ NoneShown'
  BY <1>2, <1>3 DEF SerialInv, HandlersFresh, NoneShown, Chooses, Waits
<1>6. SelectsFresh' /\ FlagsFresh' /\ CreatesFresh'
  BY <1>1, <1>2, <1>3 DEF SerialInv, MemoryFresh, SelectsFresh, FlagsFresh, CreatesFresh
<1>7. CurrentFresh'
  <2>1. current.id = NoSession \/ ShownStored(current)
    BY <1>3 DEF SerialInv, MemoryFresh, CurrentFresh, Replacing, Waits
  <2>2. op.ok => ShownStored(Show(op.id, op.loaded))
    <3>1. [meta |-> op.loaded.meta, turns |-> op.loaded.turns] = op.loaded
      BY <1>1 DEF TypeInv, TypeOK, HandlersTypeOK, SelectOp, Stored
    <3> QED BY <1>1, <3>1 DEF SerialInv, MemoryFresh, SelectsFresh, ShownStored, Show
  <2>3. ShownStored(current)' <=> ShownStored(current')
    BY <1>2 DEF ShownStored
  <2> QED BY <1>1, <2>1, <2>2, <2>3 DEF CurrentFresh
<1> QED BY <1>2, <1>4, <1>5, <1>6, <1>7, StoreStays, SameReported DEF SerialInv, MemoryFresh

(* The flag is written over what is stored, as the session shown is stored.  *)
LEMMA MarkSerial ==
  ASSUME Serialized, TypeInv, SerialInv, MarkDownloaded
  PROVE  SerialInv'
<1>1. PICK m \in marks, ok \in May("write") :
        LET meta == FlagMeta(current.meta, m.num, now) IN
        /\ m.flagged = NoSession /\ current.id # NoSession
        /\ marks' = (marks \ {m}) \cup {[m EXCEPT !.flagged = current.id, !.ok = ok,
                                           !.written = [meta |-> meta, turns |-> current.turns]]}
        /\ IF ok THEN Put(current.id, meta, rows[current.id]) ELSE UNCHANGED dbVars
  BY DEF MarkDownloaded
<1>2. PICK meta : meta = FlagMeta(current.meta, m.num, now)
  OBVIOUS
<1>3. PICK n : n = [m EXCEPT !.flagged = current.id, !.ok = ok,
                             !.written = [meta |-> meta, turns |-> current.turns]]
  OBVIOUS
<1>4. /\ n.flagged = current.id /\ n.ok = ok /\ n.written = [meta |-> meta, turns |-> current.turns]
      /\ marks' = (marks \ {m}) \cup {n}
      /\ IF ok THEN Put(current.id, meta, rows[current.id]) ELSE UNCHANGED dbVars
  <2>1. m \in MarkOp
    BY DEF TypeInv, TypeOK, HandlersTypeOK
  <2> QED BY <1>1, <1>2, <1>3, <2>1 DEF MarkOp
<1>5. /\ UNCHANGED <<current, creates, selects, used, running, action>> /\ ~StorageBusy
  BY DEF MarkDownloaded, MayStart, memVars, boundVars
<1>6. (\A i \in Action : ~Waits(action[i])) /\ creates = {} /\ selects = {} /\ Writing = {}
  BY <1>5, QuietAlone
<1>7. Writing' = {n}
  BY <1>1, <1>4, <1>6 DEF Writing
<1>8. ShownStored(current)
  BY <1>1, <1>6 DEF SerialInv, MemoryFresh, CurrentFresh, Replacing, Waits
<1>9. OneHandler' /\ HandlersFresh' /\ NoneShown' /\ CallsReported'
  <2>1. OneHandler'
    BY <1>5, <1>6 DEF OneHandler
  <2>2. HandlersFresh' /\ NoneShown'
    BY <1>5, <1>6 DEF HandlersFresh, HandlerFresh, NoneShown, Chooses, Waits
  <2> QED BY <1>5, <2>1, <2>2, SameReported DEF SerialInv
<1>10. SelectsFresh' /\ CreatesFresh'
  BY <1>5, <1>6 DEF SelectsFresh, CreatesFresh
<1>11. CASE ~ok
  <2>1. UNCHANGED <<stored, metaOf, rows, assigned>>
    BY <1>4, <1>11 DEF dbVars
  <2>2. ShownStored(current)' <=> ShownStored(current)
    BY <1>5, <2>1 DEF ShownStored
  <2>3. FlagsFresh' /\ CurrentFresh'
    BY <1>4, <1>7, <1>8, <1>11, <2>2 DEF FlagsFresh, CurrentFresh
  <2> QED BY <1>5, <1>9, <1>10, <2>1, <2>3, StoreStays DEF SerialInv, MemoryFresh
<1>12. CASE ok
  <2>1. PICK s \in stored : s = current.id
    BY <1>8 DEF ShownStored, Same
  <2>2. /\ current.meta = metaOf[s] /\ current.turns = rows[s]
        /\ metaOf[s].order = rows[s]
    BY <1>8, <2>1 DEF ShownStored, Same, View, SerialInv, StoreSound
  <2>3. meta.order = current.meta.order /\ meta.next = current.meta.next /\ meta \in Meta
    <3>1. current.meta \in Meta /\ now \in Nat
      BY DEF TypeInv, TypeOK, MemoryTypeOK, BoundsTypeOK
    <3>2. meta \in Meta
      BY <1>2, <3>1, FlagMetaType
    <3> QED BY <1>2, <3>1, <3>2 DEF FlagMeta, Meta
  <2>4. metaOf[s] \in Meta /\ metaOf[s].next \in Nat
    BY DEF TypeInv, TypeOK, StoreTypeOK, Meta
  <2>5. Put(s, meta, rows[s]) /\ meta.order = rows[s] /\ meta.next >= metaOf[s].next
    BY <1>4, <1>12, <2>1, <2>2, <2>3, <2>4
  <2>6. StoreSound'
    BY <1>5, <2>3, <2>5, PutSound DEF SerialInv
  <2>7. stored' = stored /\ metaOf'[s] = meta /\ rows'[s] = rows[s]
    BY <2>5, PutWrites
  <2>8. FlagsFresh' /\ CurrentFresh'
    BY <1>4, <1>5, <1>7, <1>12, <2>1, <2>2, <2>5, <2>7, ZenonT(60) DEF FlagsFresh, CurrentFresh, Same, View
  <2> QED BY <1>9, <1>10, <2>6, <2>8 DEF SerialInv, MemoryFresh
<1> QED BY <1>11, <1>12

(* The session shown takes over what was written.                            *)
LEMMA MarkedSerial ==
  ASSUME TypeInv, SerialInv, Marked
  PROVE  SerialInv'
<1>1. PICK m \in marks : /\ m.flagged # NoSession /\ marks' = marks \ {m}
                         /\ IF m.ok THEN ReplaceStored(m.flagged, m.written) ELSE UNCHANGED current
  BY DEF Marked
<1>2. UNCHANGED <<stored, metaOf, rows, assigned, creates, selects, used, running, action>>
  BY DEF Marked, dbVars, boundVars
<1>3. m \in Writing /\ Writing' = Writing \ {m}
  BY <1>1 DEF Writing
<1>4. creates = {} /\ selects = {} /\ \A i \in Action : ~Waits(action[i])
  BY <1>3 DEF SerialInv, OneHandler
<1>5. OneHandler'
  BY <1>2, <1>4 DEF OneHandler
<1>6. HandlersFresh' /\ NoneShown'
  BY <1>2, <1>4 DEF SerialInv, HandlersFresh, NoneShown, Chooses, Waits
<1>7. SelectsFresh' /\ FlagsFresh' /\ CreatesFresh'
  BY <1>2, <1>3, <1>4 DEF SerialInv, MemoryFresh, SelectsFresh, FlagsFresh, CreatesFresh
<1>8. CurrentFresh'
  <2>1. m.ok => ShownStored(Show(m.flagged, m.written))
    <3>1. [meta |-> m.written.meta, turns |-> m.written.turns] = m.written
      BY DEF TypeInv, TypeOK, HandlersTypeOK, MarkOp, Stored
    <3> QED BY <1>3, <3>1 DEF SerialInv, MemoryFresh, FlagsFresh, ShownStored, Show
  <2>2. ShownStored(current)' <=> ShownStored(current')
    BY <1>2 DEF ShownStored
  <2>3. \/ current.id = NoSession \/ ShownStored(current)
        \/ \E n \in Writing : n.ok /\ n.flagged = current.id
    BY <1>4 DEF SerialInv, MemoryFresh, CurrentFresh, Replacing, Waits
  <2>4. CASE m.ok /\ current.id = m.flagged
    BY <1>1, <2>1, <2>2, <2>4 DEF CurrentFresh, ReplaceStored
  <2>5. CASE ~m.ok \/ current.id # m.flagged
    <3>1. current' = current
      BY <1>1, <2>5 DEF ReplaceStored
    <3>2. \A n \in Writing : n.ok /\ n.flagged = current.id => n \in Writing'
      BY <1>3, <2>5
    <3> QED BY <2>2, <2>3, <3>1, <3>2 DEF CurrentFresh
  <2> QED BY <2>4, <2>5
<1> QED BY <1>2, <1>5, <1>6, <1>7, <1>8, StoreStays, SameReported DEF SerialInv, MemoryFresh

(* The first state.                                                          *)
LEMMA SerialInit == Init => SerialInv
<1> SUFFICES ASSUME Init PROVE SerialInv
  OBVIOUS
<1>1. TypeInv
  BY TypeInit
<1>2. \A i \in Action : action[i].pc = "idle"
  BY DEF Init, IdleAction
<1>3. creates = {} /\ selects = {} /\ Writing = {} /\ current.id = NoSession
  BY DEF Init, Writing, NoCurrent
<1>4. Opening \in Action
  BY StoreAssumption DEF Opening, Action
<1>5. CallsReported /\ OneHandler /\ HandlersFresh /\ MemoryFresh
  BY <1>2, <1>3, <1>4 DEF CallsReported, OneHandler, HandlersFresh, MemoryFresh, SelectsFresh, FlagsFresh,
     CreatesFresh, NoneShown, CurrentFresh, BeforeCommit, InFlight, Waits, HandlerFresh, Chooses
<1>6. StoreSound
  <2>1. /\ metaOf \in [Session -> Meta] /\ stored = Preloaded /\ used = Preloaded
        /\ \A s \in Session : rows[s] = metaOf[s].order /\ assigned[s] = metaOf[s].next - 1
        /\ \A s \in Session \ Preloaded : metaOf[s] = EmptyMeta(0)
    BY <1>1 DEF Init, TypeInv, TypeOK, StoreTypeOK
  <2>2. \A s \in Session : metaOf[s].next \in Nat
    BY <2>1 DEF Meta
  <2>3. EmptyMeta(0).order = {} /\ EmptyMeta(0).next = 1
    BY DEF EmptyMeta
  <2>4. stored \subseteq Session
    BY <1>1 DEF TypeInv, TypeOK, StoreTypeOK
  <2>5. \A s \in Session : Unborn(s) => s \notin Preloaded
    BY <1>3, <2>1 DEF Unborn
  <2>6. \A s \in stored : metaOf[s].next = assigned[s] + 1 /\ metaOf[s].order = rows[s]
    BY <2>1, <2>2, <2>4
  <2>7. \A s \in Session \ stored : rows[s] = {} /\ assigned[s] = 0
    BY <2>1, <2>3
  <2> QED BY <1>3, <2>1, <2>5, <2>6, <2>7 DEF StoreSound
<1> QED BY <1>5, <1>6 DEF SerialInv

(* Every step that waits its turn keeps it.                                  *)
LEMMA SerialStep == Serialized /\ TypeInv /\ SerialInv /\ [Next]_vars => SerialInv'
<1> SUFFICES ASSUME Serialized, TypeInv, SerialInv, [Next]_vars PROVE SerialInv'
  OBVIOUS
<1>1. CASE Tick \/ DeliveryEnds \/ UNCHANGED vars
  <2>1. UNCHANGED <<action, running, stored, metaOf, rows, assigned, current, creates, selects, used>>
    BY <1>1 DEF Tick, DeliveryEnds, vars, dbVars, memVars, opVars, boundVars
  <2>2. Writing' = Writing
    BY <1>1 DEF Tick, DeliveryEnds, vars, opVars, Writing
  <2> QED BY <2>1, <2>2, StillSerial
<1>2. CASE UserStep
  BY <1>2, UserSerial
<1>3. CASE Selected \/ CreateRuns \/ Created \/ MarkDownloaded \/ Marked
  BY <1>3, SelectedSerial, CreateRunsSerial, CreatedSerial, MarkSerial, MarkedSerial
<1>4. ASSUME NEW i \in Action, CallStep(i) PROVE SerialInv'
  BY <1>4, CallEndsSerial, CallAnsweredSerial DEF CallStep, Deadline, CallFails
<1>5. ASSUME NEW i \in Action, Continue(i) PROVE SerialInv'
  BY <1>5, CallEndsSerial, VerifiedSerial, RefusedSerial, CommitSerial, CommittedSerial, ReloadSerial
     DEF Continue, VerifyFails
<1> QED BY <1>1, <1>2, <1>3, <1>4, <1>5 DEF Next

(* The inductive invariant of a store whose handlers wait for each other.    *)
THEOREM SerialInvariant == Serialized => (Spec => []SerialInv)
<1> SUFFICES ASSUME Serialized PROVE Spec => []SerialInv
  OBVIOUS
<1>1. Init => SerialInv
  BY SerialInit
<1>2. TypeInv /\ SerialInv /\ [Next]_vars => SerialInv'
  BY SerialStep
<1> QED BY <1>1, <1>2, TypeInvariant, PTL DEF Spec

(* While no handler starts during a storage call of another, `generating` is *)
(* true exactly while a call is in flight, so Cancel reaches it and a second *)
(* send is refused; the finally of execute() needs that (l.379).             *)
THEOREM CallStaysReported == Serialized => (Spec => []CallIsReported)
<1> SUFFICES ASSUME Serialized PROVE Spec => []CallIsReported
  OBVIOUS
<1>1. SerialInv => CallIsReported
  BY DEF SerialInv, CallsReported, CallIsReported
<1> QED BY <1>1, SerialInvariant, PTL

(* Then numbers count on from the highest ever stored, whatever was cut,     *)
(* flagged, evicted or failed to be written.                                 *)
THEOREM NumbersCountOn == Serialized => (Spec => []NumbersNeverReused)
<1> SUFFICES ASSUME Serialized PROVE Spec => []NumbersNeverReused
  OBVIOUS
<1>1. SerialInv => NumbersNeverReused
  BY DEF SerialInv, StoreSound, NumbersNeverReused
<1> QED BY <1>1, SerialInvariant, PTL

(* Then the turn order of every stored session and its rows name the same    *)
(* turns after any number of commits, cuts, evictions and expiries.          *)
THEOREM TurnsAreKept == Serialized => (Spec => []NoTurnLost)
<1> SUFFICES ASSUME Serialized PROVE Spec => []NoTurnLost
  OBVIOUS
<1>1. SerialInv => NoTurnLost
  BY DEF SerialInv, StoreSound, NoTurnLost
<1> QED BY <1>1, SerialInvariant, PTL

(* Then the session shown is the session stored whenever no handler waits.   *)
THEOREM MemoryStaysTrue == Serialized => (Spec => []MemoryMatchesStore)
<1> SUFFICES ASSUME Serialized PROVE Spec => []MemoryMatchesStore
  OBVIOUS
<1>1. TypeInv /\ SerialInv => MemoryMatchesStore
  <2> SUFFICES ASSUME TypeInv, SerialInv, ~StorageBusy, current.id \in stored
               PROVE  current.meta = metaOf[current.id] /\ current.turns = rows[current.id]
    BY DEF MemoryMatchesStore
  <2>1. current.id # NoSession
    BY StoreAssumption DEF TypeInv, TypeOK, StoreTypeOK, NoSession
  <2>2. Writing = {} /\ \A i \in Action : ~Waits(action[i])
    BY QuietAlone
  <2>3. ShownStored(current)
    BY <2>1, <2>2 DEF SerialInv, MemoryFresh, CurrentFresh, Replacing, Waits
  <2> QED BY <2>3 DEF ShownStored, Same, View, SerialInv, StoreSound
<1> QED BY <1>1, TypeInvariant, SerialInvariant, PTL
-----------------------------------------------------------------------------
(* What the composer holds, and whom a creation evicts, while handlers wait  *)
(* for each other.                                                           *)

(* The composer of a session whose action has not ended is empty, and so is  *)
(* the one of a session that is not there yet; the victims of a creation are *)
(* not stored when their composers are emptied.                              *)
DraftOfCall(a) ==
  BeforeCommit(a) => /\ drafts[a.session] = 0 /\ a.session \in used
                     /\ \A op \in creates : op.id # a.session
DraftsKept ==
  /\ \A i \in Action : DraftOfCall(action[i])
  /\ \A s \in Session : s \notin used \/ (\E op \in creates : op.id = s) => drafts[s] = 0
  /\ \A op \in creates : op.evicted \cap stored = {} /\ (~op.ran => op.evicted = {})

(* No action that ends here touches what another composer holds.             *)
NewContentStays ==
  \A i \in Action, s \in Session :
    action[i].pc # "done" /\ action'[i].pc = "done" /\ s \in stored /\ drafts[s] # 0
      => drafts'[s] = drafts[s]

(* Actions only go on towards their end.                                     *)
Moves ==
  \A j \in Action : BeforeCommit(action'[j]) =>
                      BeforeCommit(action[j]) /\ action'[j].session = action[j].session

(* Handlers that end, advance or reload only go on. *)
LEMMA FinishMoves == ASSUME TypeInv, NEW i \in Action, Finish(i) PROVE Moves
<1>1. action'[i].pc = "done" /\ \A j \in Action \ {i} : action'[j] = action[j]
  BY DEF Finish, DoneAction, IdleAction, TypeInv, TypeOK, HandlersTypeOK
<1> QED BY <1>1 DEF Moves, BeforeCommit

LEMMA AdvanceMoves ==
  ASSUME TypeInv, NEW i \in Action, NEW next, Advance(i, next),
         BeforeCommit(next) => BeforeCommit(action[i]) /\ next.session = action[i].session
  PROVE  Moves
<1>1. action'[i] = next /\ \A j \in Action \ {i} : action'[j] = action[j]
  BY DEF Advance, TypeInv, TypeOK, HandlersTypeOK
<1> QED BY <1>1 DEF Moves

LEMMA ReloadMoves == ASSUME TypeInv, NEW i \in Action, NEW r, StartReload(i, r) PROVE Moves
<1> DEFINE alive == stored \ Expired
<1>1. \/ \E s : Advance(i, [IdleAction EXCEPT !.pc = "reloading", !.alive = alive, !.session = s])
      \/ Finish(i)
  BY DEF StartReload
<1>2. ASSUME NEW s, Advance(i, [IdleAction EXCEPT !.pc = "reloading", !.alive = alive, !.session = s])
      PROVE  Moves
  <2>1. PICK next : next = [IdleAction EXCEPT !.pc = "reloading", !.alive = alive, !.session = s]
    OBVIOUS
  <2>2. ~BeforeCommit(next)
    BY <2>1 DEF IdleAction, BeforeCommit
  <2> QED BY <1>2, <2>1, <2>2, AdvanceMoves
<1> QED BY <1>1, <1>2, FinishMoves

(* At most one action has not ended its call or its commit.                  *)
LEMMA OneBeforeCommit ==
  ASSUME SerialInv, NEW i \in Action, NEW j \in Action, BeforeCommit(action[i]), BeforeCommit(action[j])
  PROVE  i = j
<1>1. i # Opening /\ j # Opening
  BY DEF SerialInv, CallsReported
<1>2. \/ InFlight(i) /\ running = i
      \/ Waits(action[i]) /\ running = 0
  BY <1>1 DEF SerialInv, CallsReported, BeforeCommit, InFlight, Waits
<1>3. \/ InFlight(j) /\ running = j
      \/ Waits(action[j]) /\ running = 0
  BY <1>1 DEF SerialInv, CallsReported, BeforeCommit, InFlight, Waits
<1> QED BY <1>1, <1>2, <1>3 DEF SerialInv, OneHandler, Opening

(* A step that touches no composer and draws no id.                          *)
LEMMA SameDrafts ==
  ASSUME DraftsKept, Moves, UNCHANGED <<drafts, used, creates>>, creates = {} \/ stored' \subseteq stored
  PROVE  DraftsKept' /\ NewContentStays
<1>1. \A i \in Action : DraftOfCall(action[i])'
  BY DEF DraftsKept, DraftOfCall, Moves
<1>2. NewContentStays
  BY DEF NewContentStays
<1> QED BY <1>1, <1>2 DEF DraftsKept

(* An action that gives its content back finds its composer empty.           *)
LEMMA RestoredDrafts ==
  ASSUME TypeInv, SerialInv, DraftsKept, NEW i \in Action, BeforeCommit(action[i]),
         Finish(i), Restore(i), UNCHANGED <<used, creates, stored>>
  PROVE  DraftsKept' /\ NewContentStays
<1>1. action'[i].pc = "done" /\ \A j \in Action \ {i} : action'[j] = action[j]
  BY DEF Finish, DoneAction, IdleAction, TypeInv, TypeOK, HandlersTypeOK
<1>2. \A j \in Action \ {i} : ~BeforeCommit(action[j])
  BY OneBeforeCommit
<1>3. PICK x : x = action[i].session
  OBVIOUS
<1>4. /\ drafts[x] = 0 /\ x \in used /\ \A op \in creates : op.id # x
  BY <1>3 DEF DraftsKept, DraftOfCall
<1>5. \A s \in Session : s # x => drafts'[s] = drafts[s]
  BY <1>3 DEF Restore, TypeInv, TypeOK, MemoryTypeOK
<1>6. \A j \in Action : ~BeforeCommit(action'[j])
  BY <1>1, <1>2 DEF BeforeCommit
<1>7. DraftsKept'
  BY <1>4, <1>5, <1>6 DEF DraftsKept, DraftOfCall
<1>8. NewContentStays
  BY <1>4, <1>5 DEF NewContentStays
<1> QED BY <1>7, <1>8

(* A drawn id has no content yet.                                            *)
LEMMA NewCreateDrafts ==
  ASSUME TypeInv, DraftsKept, Moves, NEW leaving, NEW seed, NEW owner, NewCreate(leaving, seed, owner),
         UNCHANGED <<drafts, stored>>
  PROVE  DraftsKept' /\ NewContentStays
<1>1. PICK id \in Session \ used :
        /\ used' = used \cup {id}
        /\ creates' = creates \cup {[id |-> id, since |-> now, leaving |-> leaving, seed |-> seed,
                                     owner |-> owner, ran |-> FALSE, ok |-> FALSE, evicted |-> {}]}
  BY DEF NewCreate
<1>2. PICK op : op = [id |-> id, since |-> now, leaving |-> leaving, seed |-> seed,
                      owner |-> owner, ran |-> FALSE, ok |-> FALSE, evicted |-> {}]
  OBVIOUS
<1>3. op.id = id /\ op.evicted = {} /\ creates' = creates \cup {op}
  BY <1>1, <1>2
<1>4. \A i \in Action : DraftOfCall(action[i])'
  BY <1>1, <1>3 DEF DraftsKept, DraftOfCall, Moves
<1>5. \A s \in Session : s \notin used' \/ (\E o \in creates' : o.id = s) => drafts'[s] = 0
  BY <1>1, <1>3 DEF DraftsKept
<1>6. \A o \in creates' : o.evicted \cap stored' = {} /\ (~o.ran => o.evicted = {})
  BY <1>3 DEF DraftsKept
<1>7. NewContentStays
  BY DEF NewContentStays
<1> QED BY <1>4, <1>5, <1>6, <1>7 DEF DraftsKept

(* Typing and sending, while no action is between its call and its commit.   *)
LEMMA TypedDrafts ==
  ASSUME TypeInv, SerialInv, DraftsKept, ~StorageBusy, ~generating, current.id # NoSession,
         UNCHANGED <<used, creates, stored>>,
         \A s \in Session \ {current.id} : drafts'[s] = drafts[s],
         \/ UNCHANGED action
         \/ /\ drafts'[current.id] = 0
            /\ \E i \in Action : \E next : Advance(i, next) /\ next.pc = "calling" /\ next.session = current.id
  PROVE  DraftsKept' /\ NewContentStays
<1>1. creates = {} /\ Writing = {} /\ \A j \in Action : ~Waits(action[j])
  BY QuietAlone
<1>2. \A j \in Action : ~BeforeCommit(action[j])
  <2>1. \A j \in Action : ~InFlight(j)
    BY DEF SerialInv, CallsReported, generating, InFlight, BeforeCommit, Opening
  <2> QED BY <1>1, <2>1 DEF BeforeCommit, InFlight, Waits
<1>3. current.id \in stored
  BY <1>1 DEF SerialInv, MemoryFresh, CurrentFresh, Replacing, Waits, ShownStored, Same
<1>4. current.id \in used /\ current.id \in Session
  BY <1>3 DEF SerialInv, StoreSound, Unborn, TypeInv, TypeOK, StoreTypeOK
<1>5. \A s \in Session : s \notin used' \/ (\E o \in creates' : o.id = s) => drafts'[s] = 0
  BY <1>1, <1>4 DEF DraftsKept
<1>6. \A o \in creates' : o.evicted \cap stored' = {} /\ (~o.ran => o.evicted = {})
  BY <1>1
<1>7. CASE UNCHANGED action
  BY <1>2, <1>5, <1>6, <1>7 DEF DraftsKept, DraftOfCall, NewContentStays, BeforeCommit
<1>8. ASSUME drafts'[current.id] = 0, NEW i \in Action, NEW next, Advance(i, next),
             next.pc = "calling", next.session = current.id
      PROVE  DraftsKept' /\ NewContentStays
  <2>1. action'[i] = next /\ \A j \in Action \ {i} : action'[j] = action[j]
    BY <1>8 DEF Advance, TypeInv, TypeOK, HandlersTypeOK
  <2>2. \A j \in Action : DraftOfCall(action[j])'
    BY <1>1, <1>2, <1>4, <1>8, <2>1 DEF DraftOfCall
  <2>3. NewContentStays
    BY <1>8, <2>1 DEF NewContentStays
  <2> QED BY <1>5, <1>6, <2>2, <2>3 DEF DraftsKept
<1> QED BY <1>7, <1>8

(* The victims of a creation that runs: not the session it leaves, and not   *)
(* the one with the call, which `running` names.                             *)
VictimsSpared ==
  \A o \in creates' : o.ran /\ (\E op \in creates : op.id = o.id /\ ~op.ran)
    => /\ o.leaving \notin o.evicted
       /\ \A i \in Action : InFlight(i) => action[i].session \notin o.evicted

(* A creation runs: its victims are no longer stored. *)
LEMMA CreateRunsDrafts ==
  ASSUME TypeInv, SerialInv, DraftsKept, CreateRuns
  PROVE  DraftsKept' /\ NewContentStays /\ VictimsSpared
<1>1. PICK op \in creates :
        /\ ~op.ran
        /\ \/ creates' = (creates \ {op}) \cup {[op EXCEPT !.ran = TRUE]} /\ UNCHANGED dbVars
           \/ \E victims \in SUBSET stored :
                /\ IsVictimSet(victims, stored, metaOf, Excluded(op), Cap)
                /\ creates' = (creates \ {op}) \cup {[op EXCEPT !.ran = TRUE, !.ok = TRUE, !.evicted = victims]}
                /\ stored' = (stored \ victims) \cup {op.id}
  BY DEF CreateRuns
<1>2. UNCHANGED <<drafts, used, action>>
  BY DEF CreateRuns, memVars, boundVars
<1>3. creates = {op} /\ op \in CreateOp
  BY <1>1 DEF SerialInv, OneHandler, TypeInv, TypeOK, HandlersTypeOK
<1>4. op.evicted = {} /\ op.id \notin stored
  BY <1>1, <1>3 DEF DraftsKept, SerialInv, StoreSound, Unborn, CreateOp
<1>5. PICK victims, ran :
        /\ victims \subseteq stored
        /\ creates' = {ran} /\ ran.id = op.id /\ ran.leaving = op.leaving /\ ran.ran /\ ran.evicted = victims
        /\ victims = {} \/ IsVictimSet(victims, stored, metaOf, Excluded(op), Cap)
        /\ stored' \subseteq (stored \ victims) \cup {op.id}
  <2>1. CASE creates' = (creates \ {op}) \cup {[op EXCEPT !.ran = TRUE]} /\ UNCHANGED dbVars
    <3>1. PICK ran : ran = [op EXCEPT !.ran = TRUE]
      OBVIOUS
    <3>2. ran.id = op.id /\ ran.leaving = op.leaving /\ ran.ran /\ ran.evicted = {}
      BY <1>3, <1>4, <3>1 DEF CreateOp
    <3>3. creates' = {ran} /\ stored' = stored
      BY <1>3, <2>1, <3>1 DEF dbVars
    <3> QED BY <3>2, <3>3
  <2>2. ASSUME NEW victims \in SUBSET stored,
               IsVictimSet(victims, stored, metaOf, Excluded(op), Cap),
               creates' = (creates \ {op}) \cup {[op EXCEPT !.ran = TRUE, !.ok = TRUE, !.evicted = victims]},
               stored' = (stored \ victims) \cup {op.id}
        PROVE  \E v, ran :
                 /\ v \subseteq stored
                 /\ creates' = {ran} /\ ran.id = op.id /\ ran.leaving = op.leaving /\ ran.ran /\ ran.evicted = v
                 /\ v = {} \/ IsVictimSet(v, stored, metaOf, Excluded(op), Cap)
                 /\ stored' \subseteq (stored \ v) \cup {op.id}
    <3>1. PICK ran : ran = [op EXCEPT !.ran = TRUE, !.ok = TRUE, !.evicted = victims]
      OBVIOUS
    <3>2. ran.id = op.id /\ ran.leaving = op.leaving /\ ran.ran /\ ran.evicted = victims
      BY <1>3, <3>1 DEF CreateOp
    <3>3. creates' = {ran}
      BY <1>3, <2>2, <3>1
    <3> QED BY <2>2, <3>2, <3>3
  <2> QED BY <1>1, <2>1, <2>2
<1>6. DraftsKept'
  <2>1. \A i \in Action : DraftOfCall(action[i])'
    BY <1>2, <1>3, <1>5 DEF DraftsKept, DraftOfCall
  <2>2. \A s \in Session : s \notin used' \/ (\E o \in creates' : o.id = s) => drafts'[s] = 0
    BY <1>2, <1>3, <1>5 DEF DraftsKept
  <2>3. \A o \in creates' : o.evicted \cap stored' = {} /\ (~o.ran => o.evicted = {})
    BY <1>4, <1>5
  <2> QED BY <2>1, <2>2, <2>3 DEF DraftsKept
<1>7. NewContentStays
  BY <1>2 DEF NewContentStays
<1>8. VictimsSpared
  <2>1. victims \cap {op.leaving, IF generating THEN action[running].session ELSE NoSession} = {}
    BY <1>5 DEF IsVictimSet, Excluded
  <2>2. \A i \in Action : InFlight(i) => generating /\ running = i
    BY DEF SerialInv, CallsReported, generating, InFlight, BeforeCommit, Opening
  <2> QED BY <1>5, <2>1, <2>2 DEF VictimsSpared
<1> QED BY <1>6, <1>7, <1>8

(* A creation is answered: it empties the composers of its victims. *)
LEMMA CreatedDrafts ==
  ASSUME TypeInv, SerialInv, DraftsKept, Created
  PROVE  DraftsKept' /\ NewContentStays
<1>1. PICK op \in creates :
        /\ creates' = creates \ {op}
        /\ IF op.ok
             THEN drafts' = [s \in DOMAIN drafts |-> IF s = op.id THEN op.seed
                                                    ELSE IF s \in op.evicted THEN 0 ELSE drafts[s]]
             ELSE UNCHANGED drafts
        /\ IF op.owner = NoAction THEN UNCHANGED <<running, action>> ELSE Finish(op.owner)
  BY DEF Created
<1>2. UNCHANGED <<used, stored>>
  BY DEF Created, dbVars, boundVars
<1>3. creates' = {} /\ op.id \in Session /\ op.owner \in Action \cup {NoAction} /\ op.id \in used
  BY <1>1 DEF SerialInv, OneHandler, StoreSound, TypeInv, TypeOK, HandlersTypeOK, CreateOp
<1>4. Moves
  BY <1>1, <1>3, FinishMoves DEF Moves
<1>5. \A s \in Session \cup {NoSession} :
         s # op.id => drafts'[s] = drafts[s] \/ (drafts'[s] = 0 /\ s \in op.evicted)
  BY <1>1 DEF TypeInv, TypeOK, MemoryTypeOK
<1>6. drafts[op.id] = 0
  BY <1>3 DEF DraftsKept
<1>7. \A i \in Action : DraftOfCall(action[i])'
  <2>1. \A i \in Action : action[i].session \in Session \cup {NoSession}
    BY DEF TypeInv, TypeOK, HandlersTypeOK, ActionState
  <2>2. \A i \in Action : BeforeCommit(action[i]) => drafts'[action[i].session] = 0
    BY <1>5, <2>1 DEF DraftsKept, DraftOfCall
  <2> QED BY <1>2, <1>3, <1>4, <2>2 DEF DraftsKept, DraftOfCall, Moves
<1>8. \A s \in Session : s \notin used' => drafts'[s] = 0
  BY <1>2, <1>3, <1>5 DEF DraftsKept
<1>9. DraftsKept'
  BY <1>3, <1>7, <1>8 DEF DraftsKept
<1>10. NewContentStays
  BY <1>5, <1>6 DEF DraftsKept, NewContentStays
<1> QED BY <1>9, <1>10

(* What the user does to the composers.                                      *)
LEMMA UserDrafts ==
  ASSUME Serialized, TypeInv, SerialInv, DraftsKept, UserStep
  PROVE  DraftsKept' /\ NewContentStays
<1>1. CASE Open
  <2>1. StartReload(Opening, running) /\ ~StorageBusy /\ UNCHANGED <<drafts, used, creates>>
    BY <1>1 DEF Open, MayStart, memVars, opVars, boundVars
  <2>2. creates = {} /\ Opening \in Action
    BY <2>1, QuietAlone, StoreAssumption DEF Opening, Action
  <2> QED BY <2>1, <2>2, ReloadMoves, SameDrafts
<1>2. CASE Type \/ EditVersion
  <2>1. /\ ~StorageBusy /\ ~generating /\ current.id # NoSession
        /\ drafts' = [drafts EXCEPT ![current.id] = contents + 1]
        /\ UNCHANGED <<used, creates, stored, action>>
    BY <1>2 DEF Type, EditVersion, MayStart, dbVars, opVars
  <2>2. \A s \in Session \ {current.id} : drafts'[s] = drafts[s]
    BY <2>1 DEF TypeInv, TypeOK, MemoryTypeOK
  <2> QED BY <2>1, <2>2, TypedDrafts
<1>3. CASE Send \/ Retry
  <2>1. PICK content : Execute(content) /\ ~StorageBusy /\ ~generating /\ current.id # NoSession
    BY <1>3 DEF Send, Retry, MayStart
  <2>2. PICK i : i = sends + 1
    OBVIOUS
  <2>3. PICK next : next = [IdleAction EXCEPT !.pc = "calling", !.session = current.id,
                              !.content = content, !.sent = current.turns]
    OBVIOUS
  <2>4. i \in Action /\ next.pc = "calling" /\ next.session = current.id
    BY <2>1, <2>2, <2>3, StoreAssumption DEF Execute, TypeInv, TypeOK, BoundsTypeOK, Action, IdleAction
  <2>5. Advance(i, next) /\ drafts' = [drafts EXCEPT ![current.id] = 0] /\ UNCHANGED <<used, creates, stored>>
    BY <2>1, <2>2, <2>3 DEF Execute, dbVars, opVars
  <2>6. drafts'[current.id] = 0 /\ \A s \in Session \ {current.id} : drafts'[s] = drafts[s]
    BY <2>5 DEF TypeInv, TypeOK, MemoryTypeOK
  <2> QED BY <2>1, <2>4, <2>5, <2>6, TypedDrafts
<1>4. CASE Cancel
  <2>1. /\ running \in Action /\ InFlight(running) /\ Finish(running) /\ Restore(running)
        /\ UNCHANGED <<used, creates, stored>>
    BY <1>4 DEF Cancel, CallEnds, dbVars, opVars, boundVars, TypeInv, TypeOK, HandlersTypeOK
  <2> QED BY <2>1, RestoredDrafts DEF InFlight, BeforeCommit
<1>5. CASE Select \/ Deliver
  <2>1. UNCHANGED <<drafts, used, creates, stored, action>>
    BY <1>5 DEF Select, Deliver, dbVars, memVars, boundVars
  <2> QED BY <2>1, SameDrafts DEF Moves
<1>6. CASE NewSession \/ SeededSession
  <2>1. PICK seed : NewCreate(current.id, seed, NoAction)
    BY <1>6 DEF NewSession, SeededSession
  <2>2. UNCHANGED <<drafts, stored, action>>
    BY <1>6 DEF NewSession, SeededSession, dbVars, memVars
  <2> QED BY <2>1, <2>2, NewCreateDrafts DEF Moves
<1> QED BY <1>1, <1>2, <1>3, <1>4, <1>5, <1>6 DEF UserStep

(* How a call and its commit leave the composers.                            *)
LEMMA CallDrafts ==
  ASSUME TypeInv, SerialInv, DraftsKept, NEW i \in Action, CallStep(i)
  PROVE  DraftsKept' /\ NewContentStays
<1>1. CASE Deadline(i) \/ CallFails(i)
  <2>1. /\ InFlight(i) /\ Finish(i) /\ Restore(i) /\ UNCHANGED <<used, creates, stored>>
    BY <1>1 DEF Deadline, CallFails, CallEnds, dbVars, opVars, boundVars
  <2> QED BY <2>1, RestoredDrafts DEF InFlight, BeforeCommit
<1>2. CASE CallAnswered(i)
  <2>1. PICK images \in 0 .. MaxImages, trimmed \in TrimChoices(action[i].sent), ok \in May("read") :
          Advance(i, [action[i] EXCEPT
                        !.pc = "verifying", !.images = images, !.trimmed = trimmed, !.ok = ok,
                        !.alive = stored \cap {action[i].session}])
    BY <1>2 DEF CallAnswered
  <2>2. PICK next : next = [action[i] EXCEPT
                        !.pc = "verifying", !.images = images, !.trimmed = trimmed, !.ok = ok,
                        !.alive = stored \cap {action[i].session}]
    OBVIOUS
  <2>3. next.session = action[i].session
    BY <2>2 DEF TypeInv, TypeOK, HandlersTypeOK, ActionState
  <2>4. BeforeCommit(action[i]) /\ UNCHANGED <<drafts, used, creates, stored>>
    BY <1>2 DEF CallAnswered, BeforeCommit, dbVars, memVars, opVars, boundVars
  <2>5. Moves
    BY <2>1, <2>2, <2>3, <2>4, AdvanceMoves
  <2> QED BY <2>4, <2>5, SameDrafts
<1> QED BY <1>1, <1>2 DEF CallStep

(* The handlers of a call go on. *)
LEMMA ContinueDrafts ==
  ASSUME TypeInv, SerialInv, DraftsKept, NEW i \in Action, Continue(i)
  PROVE  DraftsKept' /\ NewContentStays
<1>1. action[i] \in ActionState
  BY DEF TypeInv, TypeOK, HandlersTypeOK
<1>2. CASE VerifyFails(i) \/ RefuseResponse(i) \/ RecordReply(i) \/ CommitFails(i)
           \/ (Committed(i) /\ action[i].images = 0)
  <2>1. BeforeCommit(action[i]) /\ Finish(i) /\ Restore(i) /\ UNCHANGED <<used, creates, stored>>
    BY <1>2 DEF VerifyFails, CallEnds, RefuseResponse, RecordReply, CommitFails, Committed, Loaded,
       BeforeCommit, dbVars, opVars, boundVars
  <2> QED BY <2>1, RestoredDrafts
<1>3. CASE LoadFails(i) \/ ReloadKeeps(i) \/ Reselected(i) \/ (Committed(i) /\ action[i].images # 0)
  <2>1. Finish(i) /\ UNCHANGED <<drafts, used, creates, stored>>
    BY <1>3 DEF LoadFails, ReloadKeeps, Reselected, Committed, dbVars, memVars, opVars, boundVars
  <2> QED BY <2>1, FinishMoves, SameDrafts
<1>4. CASE Discard(i) \/ LoadFindsNothing(i)
  <2>1. PICK r : StartReload(i, r)
    BY <1>4 DEF Discard, LoadFindsNothing
  <2>2. UNCHANGED <<drafts, used, creates>>
    BY <1>4 DEF Discard, LoadFindsNothing, memVars, opVars, boundVars
  <2>3. stored' \subseteq stored
    BY <2>1 DEF StartReload, DropSessions, dbVars
  <2> QED BY <2>1, <2>2, <2>3, ReloadMoves, SameDrafts
<1>5. CASE StartCommit(i)
  <2>1. PICK ok \in May("read") :
          Advance(i, [action[i] EXCEPT
                     !.pc = "loading", !.ok = ok, !.alive = stored \cap {action[i].session},
                     !.loaded = IF ok THEN LoadOf(action[i].session) ELSE Nothing])
    BY <1>5 DEF StartCommit
  <2>2. PICK next : next = [action[i] EXCEPT
                     !.pc = "loading", !.ok = ok, !.alive = stored \cap {action[i].session},
                     !.loaded = IF ok THEN LoadOf(action[i].session) ELSE Nothing]
    OBVIOUS
  <2>3. next.session = action[i].session
    BY <1>1, <2>2 DEF ActionState
  <2>4. BeforeCommit(action[i]) /\ UNCHANGED <<drafts, used, creates, stored>>
    BY <1>5 DEF StartCommit, BeforeCommit, dbVars, memVars, opVars, boundVars
  <2>5. Moves
    BY <2>1, <2>2, <2>3, <2>4, AdvanceMoves
  <2> QED BY <2>4, <2>5, SameDrafts
<1>6. CASE Commit(i)
  <2>1. PICK ok, loaded : Advance(i, [action[i] EXCEPT !.pc = "committing", !.ok = ok, !.loaded = loaded])
    BY <1>6 DEF Commit
  <2>2. PICK next : next = [action[i] EXCEPT !.pc = "committing", !.ok = ok, !.loaded = loaded]
    OBVIOUS
  <2>3. next.session = action[i].session
    BY <1>1, <2>2 DEF ActionState
  <2>4. action[i].pc = "loading" /\ UNCHANGED <<drafts, used, creates>>
    BY <1>6 DEF Commit, Loaded, memVars, opVars
  <2>5. creates = {}
    BY <2>4, WaitingAlone DEF SerialInv, Waits, Alone
  <2>6. Moves
    BY <2>1, <2>2, <2>3, <2>4, AdvanceMoves DEF BeforeCommit
  <2> QED BY <2>4, <2>5, <2>6, SameDrafts
<1>7. CASE ReloadSelects(i)
  <2>1. PICK ok, loaded : Advance(i, [action[i] EXCEPT !.pc = "reselecting", !.ok = ok, !.loaded = loaded])
    BY <1>7 DEF ReloadSelects
  <2>2. PICK next : next = [action[i] EXCEPT !.pc = "reselecting", !.ok = ok, !.loaded = loaded]
    OBVIOUS
  <2>3. ~BeforeCommit(next)
    BY <1>1, <2>2 DEF ActionState, BeforeCommit
  <2>4. UNCHANGED <<drafts, used, creates, stored>>
    BY <1>7 DEF ReloadSelects, ReloadReplaces, dbVars
  <2>5. Moves
    BY <2>1, <2>2, <2>3, AdvanceMoves
  <2> QED BY <2>4, <2>5, SameDrafts
<1>8. CASE ReloadCreates(i)
  <2>1. PICK next : next = [action[i] EXCEPT !.pc = "recreating"]
    OBVIOUS
  <2>2. ~BeforeCommit(next) /\ Advance(i, next)
    BY <1>1, <1>8, <2>1 DEF ReloadCreates, ActionState, BeforeCommit
  <2>3. PICK leaving : NewCreate(leaving, 0, i)
    BY <1>8 DEF ReloadCreates
  <2>4. UNCHANGED <<drafts, stored>>
    BY <1>8 DEF ReloadCreates, ReloadReplaces, dbVars
  <2>5. Moves
    BY <2>2, AdvanceMoves
  <2> QED BY <2>3, <2>4, <2>5, NewCreateDrafts
<1> QED BY <1>2, <1>3, <1>4, <1>5, <1>6, <1>7, <1>8 DEF Continue

(* Every step, and the start. *)
LEMMA DraftsStep ==
  ASSUME Serialized, TypeInv, SerialInv, DraftsKept, [Next]_vars
  PROVE  DraftsKept' /\ NewContentStays
<1>1. CASE Tick \/ Selected \/ DeliveryEnds \/ Marked \/ UNCHANGED vars
  <2>1. UNCHANGED <<drafts, used, creates, stored, action>>
    BY <1>1 DEF Tick, Selected, DeliveryEnds, Marked, vars, dbVars, memVars, opVars, boundVars
  <2> QED BY <2>1, SameDrafts DEF Moves
<1>2. CASE MarkDownloaded
  <2>1. UNCHANGED <<drafts, used, creates, action>> /\ ~StorageBusy
    BY <1>2 DEF MarkDownloaded, MayStart, memVars, boundVars
  <2> QED BY <2>1, QuietAlone, SameDrafts DEF Moves
<1> QED BY <1>1, <1>2, UserDrafts, CreateRunsDrafts, CreatedDrafts, CallDrafts, ContinueDrafts DEF Next

LEMMA DraftsInit == Init => DraftsKept
BY DEF Init, DraftsKept, DraftOfCall, BeforeCommit, IdleAction

(* With one storage call at a time the composers stay as DraftsKept says. *)
LEMMA DraftsInvariant == Serialized => (Spec => []DraftsKept)
<1> SUFFICES ASSUME Serialized PROVE Spec => []DraftsKept
  OBVIOUS
<1>1. TypeInv /\ SerialInv /\ DraftsKept /\ [Next]_vars => DraftsKept'
  BY DraftsStep
<1>2. Spec => []SerialInv
  BY SerialInvariant
<1> QED BY <1>1, <1>2, DraftsInit, TypeInvariant, PTL DEF Spec

(* Then no handler that ends replaces what the user has put in a composer    *)
(* since: a late deadline, a refused response and a creation that empties    *)
(* the composers of its victims all leave newer content alone.               *)
THEOREM NewerContentStays == Serialized => (Spec => NewContentKept)
<1> SUFFICES ASSUME Serialized PROVE Spec => NewContentKept
  OBVIOUS
<1>1. TypeInv /\ SerialInv /\ DraftsKept /\ [Next]_vars => [NewContentStays]_vars
  BY DraftsStep
<1>2. Spec => []SerialInv /\ []DraftsKept
  BY SerialInvariant, DraftsInvariant
<1>3. Spec => [][NewContentStays]_vars
  BY <1>1, <1>2, TypeInvariant, PTL DEF Spec
<1> QED BY <1>3 DEF NewContentKept, NewContentStays

(* A creation evicts neither the session it leaves nor the one whose call is *)
(* in flight: its transaction reads the call from `running`, which names it. *)
THEOREM EvictionsSpare == Serialized => (Spec => EvictionSpares)
<1> SUFFICES ASSUME Serialized PROVE Spec => EvictionSpares
  OBVIOUS
<1>1. Init => CreatesDistinct
  BY DEF Init, CreatesDistinct
<1>2. ASSUME TypeInv, SerialInv, DraftsKept, CreatesDistinct, [Next]_vars
      PROVE  CreatesDistinct' /\ [VictimsSpared]_vars
  <2>1. CASE CreateRuns
    <3>1. VictimsSpared
      BY <1>2, <2>1, CreateRunsDrafts
    <3>2. CreatesDistinct'
      BY <1>2, <2>1, CreateRunsDistinct
    <3> QED BY <3>1, <3>2
  <2>2. CASE ~CreateRuns
    <3>1. CreatesDistinct' /\ \A o \in creates' : o.ran => o \in creates
      BY <1>2, <2>2, OnlyCreateRuns
    <3> QED BY <1>2, <3>1 DEF VictimsSpared, CreatesDistinct
  <2> QED BY <2>1, <2>2
<1>3. Spec => []SerialInv /\ []DraftsKept
  BY SerialInvariant, DraftsInvariant
<1>4. Spec => [][VictimsSpared]_vars
  BY <1>1, <1>2, <1>3, TypeInvariant, PTL DEF Spec
<1> QED BY <1>4 DEF EvictionSpares, VictimsSpared
-----------------------------------------------------------------------------
(* What an action that ends does with its content, whatever interleaves.     *)

(* Content is held only on the way to a commit; an action not started yet is *)
(* idle; a load resolves; the owner of a creation has left its response.     *)
HoldsContent(i) ==
  /\ action[i].content # 0 => BeforeCommit(action[i])
  /\ action[i].pc = "loading" => action[i].ok
  /\ i > sends => action[i].pc = "idle"
ContentHeld ==
  /\ \A i \in Action : HoldsContent(i)
  /\ \A op \in creates : op.owner # NoAction =>
       op.owner \in Action /\ op.owner <= sends /\ ~BeforeCommit(action[op.owner])

(* ContentGivenBack, as one step sees it.                                    *)
Accepted(a) == a.pc = "committing" /\ a.ok /\ a.images > 0
GivenBack ==
  \A i \in Action :
    action[i].content # 0 /\ action'[i].pc = "done" /\ ~Accepted(action[i])
      => drafts'[action[i].session] = action[i].content

(* The owners of creations are the earlier ones, and those of `more`.        *)
OwnersFrom(more) ==
  \A o \in creates' : o.owner \in {NoAction} \cup more \/ \E op \in creates : op.owner = o.owner

(* A step that leaves the actions alone. *)
LEMMA SameHeld ==
  ASSUME ContentHeld, UNCHANGED <<action, sends>>, OwnersFrom({})
  PROVE  ContentHeld' /\ GivenBack
<1>1. ContentHeld'
  BY DEF ContentHeld, HoldsContent, OwnersFrom, BeforeCommit
<1>2. GivenBack
  BY DEF ContentHeld, HoldsContent, GivenBack, BeforeCommit
<1> QED BY <1>1, <1>2

(* A step of one action that was started: when it ends with content, the     *)
(* composer has it.                                                          *)
LEMMA StepHeld ==
  ASSUME TypeInv, ContentHeld, UNCHANGED sends, NEW i \in Action, NEW next, Advance(i, next),
         i <= sends \/ action[i].pc # "idle",
         next.content # 0 => BeforeCommit(next),
         BeforeCommit(next) => BeforeCommit(action[i]),
         next.pc = "loading" => next.ok,
         OwnersFrom({}) \/ (OwnersFrom({i}) /\ ~BeforeCommit(next)),
         next.pc # "done" \/ Accepted(action[i]) \/ Restore(i) \/ action[i].content = 0
  PROVE  ContentHeld' /\ GivenBack
<1>1. action'[i] = next /\ \A j \in Action \ {i} : action'[j] = action[j]
  BY DEF Advance, TypeInv, TypeOK, HandlersTypeOK
<1>2. i <= sends /\ sends' = sends /\ sends \in Nat /\ i \in Nat
  BY StoreAssumption DEF ContentHeld, HoldsContent, TypeInv, TypeOK, BoundsTypeOK, Action
<1>3. ASSUME NEW j \in Action PROVE HoldsContent(j)'
  BY <1>1, <1>2 DEF ContentHeld, HoldsContent, BeforeCommit
<1>4. ASSUME NEW o \in creates', o.owner # NoAction
      PROVE  o.owner \in Action /\ o.owner <= sends' /\ ~BeforeCommit(action'[o.owner])
  BY <1>1, <1>2, <1>4 DEF ContentHeld, OwnersFrom, BeforeCommit
<1>5. GivenBack
  <2>1. ASSUME NEW j \in Action, action[j].content # 0, action'[j].pc = "done", ~Accepted(action[j])
        PROVE  drafts'[action[j].session] = action[j].content
    <3>1. j = i
      BY <1>1, <2>1 DEF ContentHeld, HoldsContent, BeforeCommit
    <3>2. Restore(i)
      BY <1>1, <2>1, <3>1
    <3>3. action[i].session \in DOMAIN drafts
      BY DEF TypeInv, TypeOK, HandlersTypeOK, MemoryTypeOK, ActionState
    <3> QED BY <3>1, <3>2, <3>3 DEF Restore
  <2> QED BY <2>1 DEF GivenBack
<1> QED BY <1>3, <1>4, <1>5 DEF ContentHeld

(* An action that ends. *)
LEMMA FinishHeld ==
  ASSUME TypeInv, ContentHeld, UNCHANGED sends, NEW i \in Action, Finish(i),
         i <= sends \/ action[i].pc # "idle", OwnersFrom({}),
         Accepted(action[i]) \/ Restore(i) \/ action[i].content = 0
  PROVE  ContentHeld' /\ GivenBack
<1>1. Advance(i, DoneAction)
  BY DEF Finish, Advance
<1>2. DoneAction.content = 0 /\ DoneAction.pc = "done" /\ ~BeforeCommit(DoneAction)
  BY DEF DoneAction, IdleAction, BeforeCommit
<1> QED BY <1>1, <1>2, StepHeld

(* A reload whose read resolves. *)
LEMMA ReloadHeld ==
  ASSUME "read" \notin Faults, TypeInv, ContentHeld, NEW i \in Action, NEW r, StartReload(i, r),
         i <= sends \/ action[i].pc # "idle", UNCHANGED <<sends, creates>>
  PROVE  ContentHeld' /\ GivenBack
<1>1. PICK s, alive :
        Advance(i, [IdleAction EXCEPT !.pc = "reloading", !.alive = alive, !.session = s])
  BY DEF StartReload, May
<1>2. PICK next : next = [IdleAction EXCEPT !.pc = "reloading", !.alive = alive, !.session = s]
  OBVIOUS
<1>3. next.content = 0 /\ next.pc = "reloading"
  BY <1>2 DEF IdleAction
<1>4. Advance(i, next) /\ OwnersFrom({})
  BY <1>1, <1>2 DEF OwnersFrom
<1> QED BY <1>3, <1>4, StepHeld DEF BeforeCommit

(* A new creation has the owner it was given. *)
LEMMA NewCreateOwners ==
  ASSUME NEW leaving, NEW seed, NEW owner, NewCreate(leaving, seed, owner)
  PROVE  /\ OwnersFrom({owner})
         /\ owner = NoAction => OwnersFrom({})
BY DEF NewCreate, OwnersFrom

(* What the user does. *)
LEMMA UserHeld ==
  ASSUME "read" \notin Faults, TypeInv, ContentHeld, UserStep
  PROVE  ContentHeld' /\ GivenBack
<1> USE DEF boundVars, opVars
<1>1. CASE Open
  <2>1. Opening \in Action /\ Opening <= sends
    BY StoreAssumption DEF Opening, Action, TypeInv, TypeOK, BoundsTypeOK
  <2> QED BY <1>1, <2>1, ReloadHeld DEF Open
<1>2. CASE Type \/ EditVersion \/ Select \/ Deliver
  <2>1. UNCHANGED <<action, sends, creates>>
    BY <1>2 DEF Type, EditVersion, Select, Deliver
  <2> QED BY <2>1, SameHeld DEF OwnersFrom
<1>3. CASE NewSession \/ SeededSession
  <2>1. \E leaving, seed : NewCreate(leaving, seed, NoAction)
    BY <1>3 DEF NewSession, SeededSession
  <2>2. UNCHANGED <<action, sends>>
    BY <1>3 DEF NewSession, SeededSession
  <2>3. OwnersFrom({})
    BY <2>1, NewCreateOwners
  <2> QED BY <2>2, <2>3, SameHeld
<1>4. CASE Send \/ Retry
  <2>1. PICK content : Execute(content)
    BY <1>4 DEF Send, Retry
  <2>2. sends' = sends + 1 /\ sends + 1 \in Action /\ sends \in Nat /\ UNCHANGED creates
    BY <2>1, StoreAssumption DEF Execute, Action, TypeInv, TypeOK, BoundsTypeOK
  <2>3. PICK next : next = [IdleAction EXCEPT !.pc = "calling", !.session = current.id,
                              !.content = content, !.sent = current.turns]
    OBVIOUS
  <2>4. next.pc = "calling"
    BY <2>3 DEF IdleAction
  <2>5. Advance(sends + 1, next)
    BY <2>1, <2>3 DEF Execute
  <2>6. action'[sends + 1] = next /\ \A j \in Action \ {sends + 1} : action'[j] = action[j]
    BY <2>2, <2>5 DEF Advance, TypeInv, TypeOK, HandlersTypeOK
  <2>7. \A j \in Action : j \in Nat
    BY StoreAssumption DEF Action
  <2>8. ASSUME NEW j \in Action PROVE HoldsContent(j)'
    BY <2>2, <2>4, <2>6, <2>7 DEF ContentHeld, HoldsContent, BeforeCommit
  <2>9. ASSUME NEW o \in creates', o.owner # NoAction
        PROVE  o.owner \in Action /\ o.owner <= sends' /\ ~BeforeCommit(action'[o.owner])
    BY <2>2, <2>6, <2>7, <2>9 DEF ContentHeld
  <2>10. ContentHeld'
    BY <2>8, <2>9 DEF ContentHeld
  <2>11. GivenBack
    BY <2>4, <2>6 DEF GivenBack, ContentHeld, HoldsContent, BeforeCommit
  <2> QED BY <2>10, <2>11
<1>5. CASE Cancel
  <2>1. running \in Action /\ Finish(running) /\ Restore(running) /\ InFlight(running)
        /\ UNCHANGED <<sends, creates>>
    BY <1>5 DEF Cancel, CallEnds, TypeInv, TypeOK, HandlersTypeOK
  <2> QED BY <2>1, FinishHeld DEF InFlight, OwnersFrom
<1> QED BY <1>1, <1>2, <1>3, <1>4, <1>5 DEF UserStep

(* A call ends, or is answered. *)
LEMMA CallHeld ==
  ASSUME TypeInv, ContentHeld, NEW i \in Action, CallStep(i)
  PROVE  ContentHeld' /\ GivenBack
<1> USE DEF boundVars, opVars
<1>1. CASE Deadline(i) \/ CallFails(i)
  <2>1. Finish(i) /\ Restore(i) /\ InFlight(i) /\ UNCHANGED <<sends, creates>>
    BY <1>1 DEF Deadline, CallFails, CallEnds
  <2> QED BY <2>1, FinishHeld DEF InFlight, OwnersFrom
<1>2. CASE CallAnswered(i)
  <2>1. PICK images, trimmed, ok :
          Advance(i, [action[i] EXCEPT
                        !.pc = "verifying", !.images = images, !.trimmed = trimmed, !.ok = ok,
                        !.alive = stored \cap {action[i].session}])
    BY <1>2 DEF CallAnswered
  <2>2. action[i].pc = "calling" /\ UNCHANGED <<sends, creates>>
    BY <1>2 DEF CallAnswered
  <2>3. PICK next : next = [action[i] EXCEPT
                        !.pc = "verifying", !.images = images, !.trimmed = trimmed, !.ok = ok,
                        !.alive = stored \cap {action[i].session}]
    OBVIOUS
  <2>4. next.pc = "verifying"
    BY <2>3 DEF TypeInv, TypeOK, HandlersTypeOK, ActionState
  <2> QED BY <2>1, <2>2, <2>3, <2>4, StepHeld DEF BeforeCommit, OwnersFrom
<1> QED BY <1>1, <1>2 DEF CallStep

(* A response on its way to the commit, and past it. *)
LEMMA ContinueHeld ==
  ASSUME "read" \notin Faults, TypeInv, ContentHeld, NEW i \in Action, Continue(i)
  PROVE  ContentHeld' /\ GivenBack
<1> USE DEF boundVars, opVars
<1>1. action[i] \in ActionState /\ HoldsContent(i)
  BY DEF TypeInv, TypeOK, HandlersTypeOK, ContentHeld
<1>2. CASE VerifyFails(i) \/ RefuseResponse(i) \/ RecordReply(i) \/ CommitFails(i)
  <2>1. Finish(i) /\ Restore(i) /\ action[i].pc # "idle" /\ UNCHANGED <<sends, creates>>
    BY <1>2 DEF VerifyFails, CallEnds, RefuseResponse, RecordReply, CommitFails, Loaded
  <2> QED BY <2>1, FinishHeld DEF OwnersFrom
<1>3. CASE LoadFails(i)
  BY <1>1, <1>3 DEF LoadFails, HoldsContent
<1>4. CASE Committed(i)
  <2>1. /\ Finish(i) /\ action[i].pc = "committing" /\ action[i].ok /\ UNCHANGED <<sends, creates>>
        /\ action[i].images # 0 \/ Restore(i)
    BY <1>4 DEF Committed
  <2>2. Accepted(action[i]) \/ Restore(i)
    BY <1>1, <2>1, StoreAssumption DEF Accepted, ActionState
  <2> QED BY <2>1, <2>2, FinishHeld DEF OwnersFrom
<1>5. CASE Discard(i) \/ LoadFindsNothing(i)
  <2>1. (\E r : StartReload(i, r)) /\ action[i].pc # "idle" /\ UNCHANGED <<sends, creates>>
    BY <1>5 DEF Discard, LoadFindsNothing
  <2> QED BY <2>1, ReloadHeld
<1>6. CASE StartCommit(i)
  <2>1. PICK ok \in May("read") : \E alive, loaded :
          Advance(i, [action[i] EXCEPT !.pc = "loading", !.ok = ok, !.alive = alive,
                                       !.loaded = loaded])
    BY <1>6 DEF StartCommit
  <2>2. PICK alive, loaded, next :
          /\ next = [action[i] EXCEPT !.pc = "loading", !.ok = ok, !.alive = alive,
                                      !.loaded = loaded]
          /\ Advance(i, next)
    BY <2>1
  <2>3. next.pc = "loading" /\ next.ok
    BY <1>1, <2>2 DEF May, ActionState
  <2>4. action[i].pc = "verifying" /\ UNCHANGED <<sends, creates>>
    BY <1>6 DEF StartCommit
  <2> QED BY <2>1, <2>2, <2>3, <2>4, StepHeld DEF BeforeCommit, OwnersFrom
<1>7. CASE Commit(i)
  <2>1. PICK ok, loaded :
          Advance(i, [action[i] EXCEPT !.pc = "committing", !.ok = ok, !.loaded = loaded])
    BY <1>7 DEF Commit
  <2>2. PICK next : next = [action[i] EXCEPT !.pc = "committing", !.ok = ok, !.loaded = loaded]
    OBVIOUS
  <2>3. next.pc = "committing"
    BY <1>1, <2>2 DEF ActionState
  <2>4. action[i].pc = "loading" /\ UNCHANGED <<sends, creates>>
    BY <1>7 DEF Commit, Loaded
  <2> QED BY <2>1, <2>2, <2>3, <2>4, StepHeld DEF BeforeCommit, OwnersFrom
<1>8. CASE ReloadKeeps(i) \/ Reselected(i)
  <2>1. /\ Finish(i) /\ action[i].pc \in {"reloading", "reselecting"}
        /\ UNCHANGED <<sends, creates>>
    BY <1>8 DEF ReloadKeeps, Reselected
  <2>2. action[i].content = 0
    BY <1>1, <2>1 DEF HoldsContent, BeforeCommit
  <2> QED BY <2>1, <2>2, FinishHeld DEF OwnersFrom
<1>9. CASE ReloadSelects(i)
  <2>1. PICK ok, loaded :
          Advance(i, [action[i] EXCEPT !.pc = "reselecting", !.ok = ok, !.loaded = loaded])
    BY <1>9 DEF ReloadSelects
  <2>2. action[i].pc = "reloading" /\ UNCHANGED <<sends, creates>>
    BY <1>9 DEF ReloadSelects, ReloadReplaces
  <2>3. PICK next : next = [action[i] EXCEPT !.pc = "reselecting", !.ok = ok, !.loaded = loaded]
    OBVIOUS
  <2>4. next.pc = "reselecting" /\ next.content = 0
    BY <1>1, <2>2, <2>3 DEF HoldsContent, BeforeCommit, ActionState
  <2> QED BY <2>1, <2>2, <2>3, <2>4, StepHeld DEF BeforeCommit, OwnersFrom
<1>10. CASE ReloadCreates(i)
  <2>1. PICK next : next = [action[i] EXCEPT !.pc = "recreating"]
    OBVIOUS
  <2>2. /\ Advance(i, next) /\ action[i].pc = "reloading" /\ UNCHANGED sends
        /\ \E leaving, seed : NewCreate(leaving, seed, i)
    BY <1>10, <2>1 DEF ReloadCreates, ReloadReplaces
  <2>3. next.pc = "recreating" /\ next.content = 0
    BY <1>1, <2>1, <2>2 DEF HoldsContent, BeforeCommit, ActionState
  <2>4. OwnersFrom({i})
    BY <2>2, NewCreateOwners
  <2> QED BY <2>2, <2>3, <2>4, StepHeld DEF BeforeCommit
<1> QED BY <1>2, <1>3, <1>4, <1>5, <1>6, <1>7, <1>8, <1>9, <1>10 DEF Continue

(* Every step. *)
LEMMA HeldStep ==
  ASSUME "read" \notin Faults, TypeInv, ContentHeld, Next
  PROVE  ContentHeld' /\ GivenBack
<1> USE DEF boundVars, opVars
<1>1. CASE Tick \/ Selected \/ DeliveryEnds \/ MarkDownloaded \/ Marked
  <2>1. UNCHANGED <<action, sends, creates>>
    BY <1>1 DEF Tick, Selected, DeliveryEnds, MarkDownloaded, Marked
  <2> QED BY <2>1, SameHeld DEF OwnersFrom
<1>2. CASE CreateRuns
  <2>1. PICK op \in creates : \E new :
          creates' = (creates \ {op}) \cup {new} /\ new.owner = op.owner
    <3>1. PICK op \in creates :
            \/ creates' = (creates \ {op}) \cup {[op EXCEPT !.ran = TRUE]}
            \/ \E victims \in SUBSET stored :
                 creates' = (creates \ {op})
                              \cup {[op EXCEPT !.ran = TRUE, !.ok = TRUE, !.evicted = victims]}
      BY <1>2 DEF CreateRuns
    <3>2. op \in CreateOp
      BY DEF TypeInv, TypeOK, HandlersTypeOK
    <3>3. [op EXCEPT !.ran = TRUE].owner = op.owner
      BY <3>2 DEF CreateOp
    <3>4. ASSUME NEW victims
          PROVE  [op EXCEPT !.ran = TRUE, !.ok = TRUE, !.evicted = victims].owner = op.owner
      BY <3>2 DEF CreateOp
    <3> QED BY <3>1, <3>3, <3>4, Zenon
  <2>2. UNCHANGED <<action, sends>>
    BY <1>2 DEF CreateRuns
  <2>3. OwnersFrom({})
    BY <2>1 DEF OwnersFrom
  <2> QED BY <2>2, <2>3, SameHeld
<1>3. CASE Created
  <2>1. PICK op \in creates :
          /\ creates' = creates \ {op} /\ UNCHANGED sends
          /\ IF op.owner = NoAction THEN UNCHANGED <<running, action>> ELSE Finish(op.owner)
    BY <1>3 DEF Created
  <2>2. OwnersFrom({})
    BY <2>1 DEF OwnersFrom
  <2>3. CASE op.owner = NoAction
    BY <2>1, <2>2, <2>3, SameHeld
  <2>4. CASE op.owner # NoAction
    <3>1. op.owner \in Action /\ op.owner <= sends /\ action[op.owner].content = 0
      BY <2>4 DEF ContentHeld, HoldsContent
    <3> QED BY <2>1, <2>2, <2>4, <3>1, FinishHeld
  <2> QED BY <2>3, <2>4
<1> QED BY <1>1, <1>2, <1>3, UserHeld, CallHeld, ContinueHeld DEF Next

(* The start. *)
LEMMA HeldInit == Init => ContentHeld
BY DEF Init, ContentHeld, HoldsContent, IdleAction

(* With reads that resolve, an action that ends without an accepted response *)
(* gives its content back to the composer of its session, whatever else is   *)
(* under way (FR-36): content is only ever held before a commit's end, and   *)
(* each of the ways out of there restores it.                                *)
THEOREM ContentIsGivenBack == "read" \notin Faults => (Spec => ContentGivenBack)
<1> SUFFICES ASSUME "read" \notin Faults PROVE Spec => ContentGivenBack
  OBVIOUS
<1>1. TypeInv /\ ContentHeld /\ [Next]_vars => ContentHeld' /\ (UNCHANGED vars \/ GivenBack)
  <2> SUFFICES ASSUME TypeInv, ContentHeld, [Next]_vars
               PROVE  ContentHeld' /\ (UNCHANGED vars \/ GivenBack)
    OBVIOUS
  <2>1. CASE Next
    BY <2>1, HeldStep
  <2>2. CASE UNCHANGED vars
    BY <2>2 DEF vars, opVars, boundVars, ContentHeld, HoldsContent, BeforeCommit
  <2> QED BY <2>1, <2>2
<1>2. TypeInv /\ ContentHeld /\ [Next]_vars =>
        [\A i \in Action :
           /\ action[i].content # 0 /\ action'[i].pc = "done"
           /\ ~(action[i].pc = "committing" /\ action[i].ok /\ action[i].images > 0)
           => drafts'[action[i].session] = action[i].content]_vars
  BY <1>1 DEF GivenBack, Accepted
<1> QED BY <1>1, <1>2, HeldInit, TypeInvariant, PTL DEF Spec, ContentGivenBack
=============================================================================

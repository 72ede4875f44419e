----------------------------- MODULE StudioStore -----------------------------
(***************************************************************************)
(* The Image Studio store (image-studio.store.ts) over its IndexedDB port  *)
(* (indexeddb-session-store.ts): asynchronous handlers of one browser tab  *)
(* that share the signals `current`, `drafts`, `running`, `retryTurn` and  *)
(* `blockedSessionId`, and whose storage calls return later.               *)
(*                                                                         *)
(* One step of a handler runs from one await to the next, as the event     *)
(* loop does.  A port call is one IndexedDB transaction; transactions run  *)
(* in the order they are created, so its effect belongs to the step that   *)
(* issues it and its answer to a later step.  createWithEviction reads the *)
(* store's `running` inside the transaction and has a step for that.       *)
(*                                                                         *)
(* The generate call itself (deadline, cancel, FILE_MISSING recovery) is   *)
(* module GenerationRunner; here a call is in flight until it is answered, *)
(* fails, is cancelled or times out.                                       *)
(***************************************************************************)
EXTENDS SessionData

CONSTANTS
  Session,      \* the ids sessions can have; numbers, ordered as the ids are
  Preloaded,    \* the sessions a page load finds in IndexedDB
  History,      \* how many accepted turns with one version each they hold
  Cap,          \* SESSION_CAP
  Ttl,          \* SESSION_TTL_MS in ticks of the clock
  MaxNow,       \* bound: last value of the clock
  MaxSends,     \* bound: user actions that reach execute()
  MaxImages,    \* bound: versions one response holds
  MaxContent,   \* bound: distinct composer contents
  MaxOps,       \* bound: outstanding selects, creations and deliveries
  Faults,       \* which storage calls may reject: "read", "write"
  Serialized    \* TRUE: nothing starts while a storage call is outstanding

Action == 0 .. MaxSends          \* 0 is init(), run when the mode is opened
Opening == 0
NoAction == MaxSends + 1         \* the owner of a creation the user asked for
NoSession == 0

ASSUME StoreAssumption ==
  /\ Session \subseteq Nat \ {0} /\ IsFiniteSet(Session)
  /\ Preloaded \subseteq Session
  /\ History \in Nat /\ Cap \in Nat \ {0} /\ Ttl \in Nat /\ MaxNow \in Nat
  /\ MaxSends \in Nat /\ MaxImages \in Nat \ {0} /\ MaxContent \in Nat /\ MaxOps \in Nat
  /\ Faults \subseteq {"read", "write"}
  /\ Serialized \in BOOLEAN

VARIABLES
  stored,     \* IndexedDB: the ids of the `sessions` store
  metaOf,     \* IndexedDB: the meta record of each stored session
  rows,       \* IndexedDB: the `turns` rows of each session
  now,        \* the clock port
  current,    \* the session shown: its id, meta and turns (id 0: none)
  listed,     \* the ids in the session list (the `metas` signal)
  drafts,     \* the composer content of each session (0: nothing to send)
  running,    \* the action whose call `generating` reports (0: none)
  retryTurn,  \* the turn a Retry would send again
  blocked,    \* blockedSessionId
  action,     \* where every user action stands
  sends,      \* how many user actions were started
  commits,    \* the last turn number drawn by a commit
  contents,   \* the last composer content typed
  creates,    \* createSession calls outstanding
  selects,    \* selectSession calls outstanding
  marks,      \* deliveries and the markDownloaded calls they end in
  used,       \* ids already given to sessions
  assigned    \* history: the highest version number ever stored per session

dbVars == <<stored, metaOf, rows, assigned>>
memVars == <<current, listed, drafts, retryTurn, blocked>>
opVars == <<creates, selects, marks>>
boundVars == <<sends, commits, contents, used>>
vars == <<dbVars, memVars, opVars, boundVars, running, action, now>>

Pc == {"idle", "calling", "verifying", "loading", "committing", "reloading",
       "reselecting", "recreating", "done"}

(* Everything an execute() or an init() keeps across its awaits. *)
ActionState ==
  [pc : Pc, session : Session \cup {NoSession}, content : 0 .. MaxContent,
   sent : SUBSET Turn,        \* the history its request carried
   images : 0 .. MaxImages,   \* versions in the response, 0 for text or safety
   trimmed : SUBSET Turn,     \* trimmedTurnIds of the response
   ok : BOOLEAN,              \* what the outstanding storage call answers
   loaded : Stored,           \* the session it loaded, or the one it committed
   alive : SUBSET Session]    \* the sessions loadAndExpire returned

IdleAction ==
  [pc |-> "idle", session |-> NoSession, content |-> 0, sent |-> {}, images |-> 0,
   trimmed |-> {}, ok |-> FALSE, loaded |-> Nothing, alive |-> {}]

DoneAction == [IdleAction EXCEPT !.pc = "done"]

CreateOp ==
  [id : Session, since : Nat, leaving : Session \cup {NoSession}, seed : 0 .. MaxContent,
   owner : Action \cup {NoAction}, ran : BOOLEAN, ok : BOOLEAN, evicted : SUBSET Session]

SelectOp == [id : Session, ok : BOOLEAN, loaded : Stored]

MarkOp ==
  [origin : Session, num : Nat, flagged : Session \cup {NoSession},
   ok : BOOLEAN, written : Stored]

NoCurrent == [id |-> NoSession, meta |-> EmptyMeta(0), turns |-> {}]
NoRetry == [session |-> NoSession, content |-> 0]

-----------------------------------------------------------------------------
InFlight(i) == action[i].pc \in {"calling", "verifying"}

(* A storage call whose answer has not been handled yet. *)
StorageBusy ==
  \/ creates # {} \/ selects # {}
  \/ \E m \in marks : m.flagged # NoSession
  \/ \E i \in Action : action[i].pc \notin {"idle", "calling", "done"}

MayStart == Serialized => ~StorageBusy
OpsLeft == Cardinality(creates) + Cardinality(selects) + Cardinality(marks) < MaxOps

generating == running # 0
canRetry ==
  /\ retryTurn.session # NoSession
  /\ retryTurn.session = current.id
  /\ retryTurn.content = drafts[current.id]

Show(id, view) == [id |-> id, meta |-> view.meta, turns |-> view.turns]
LoadOf(s) == View(metaOf[s], rows[s])
May(fault) == {TRUE} \cup {x \in {FALSE} : fault \in Faults}   \* TRUE: the call resolves

-----------------------------------------------------------------------------
(* Writing to IndexedDB. *)

DropSessions(gone) ==
  /\ stored' = stored \ gone
  /\ metaOf' = [s \in Session |-> IF s \in gone THEN EmptyMeta(0) ELSE metaOf[s]]
  /\ rows' = [s \in Session |-> IF s \in gone THEN {} ELSE rows[s]]
  /\ UNCHANGED assigned

(* commit: the rows change and the meta is put whatever is stored by then. *)
Put(s, meta, turns) ==
  /\ stored' = stored \cup {s}
  /\ metaOf' = [metaOf EXCEPT ![s] = meta]
  /\ rows' = [rows EXCEPT ![s] = turns]
  /\ assigned' = [assigned EXCEPT ![s] = IF meta.next - 1 > @ THEN meta.next - 1 ELSE @]

(* Faulty variant: the session shown is left as it was. *)
ReplaceNothing(s, view) == UNCHANGED current

(* replaceStored: only the session shown is replaced. *)
ReplaceStored(s, view) ==
  current' = IF current.id = s THEN Show(s, view) ELSE current

(* createSession up to its await: the clock and the session being left are   *)
(* read here.                                                                *)
NewCreate(leaving, seed, owner) ==
  \E id \in Session \ used :
    /\ used' = used \cup {id}
    /\ creates' = creates \cup {[id |-> id, since |-> now, leaving |-> leaving, seed |-> seed,
                                 owner |-> owner, ran |-> FALSE, ok |-> FALSE, evicted |-> {}]}

-----------------------------------------------------------------------------
(* The end of execute(): the finally clears `running` whoever set it.  The  *)
(* opening action is init(), which has no such finally.                     *)
Finish(i) ==
  /\ action' = [action EXCEPT ![i] = DoneAction]
  /\ running' = IF i = Opening THEN running ELSE 0

Advance(i, next) == action' = [action EXCEPT ![i] = next]

(* Faulty variant: the content goes to the session shown by then. *)
RestoreShown(i) == drafts' = [drafts EXCEPT ![current.id] = action[i].content]

Restore(i) == drafts' = [drafts EXCEPT ![action[i].session] = action[i].content]

OfferRetry(i) == retryTurn' = [session |-> action[i].session, content |-> action[i].content]

(* refreshSessions (and init): expiry and the list come from one            *)
(* transaction; a rejection leaves the handler.                             *)
Expired == {s \in stored : IsExpired(metaOf[s].last, now, Ttl)}

StartReload(i, stillRunning) ==
  LET alive == stored \ Expired IN
  \E ok \in May("read") :
    IF ok
      THEN /\ DropSessions(Expired)
           /\ \E s \in IF alive = {} THEN {NoSession} ELSE Newest(alive, metaOf) :
                Advance(i, [IdleAction EXCEPT !.pc = "reloading", !.alive = alive, !.session = s])
           /\ running' = stillRunning
      ELSE UNCHANGED dbVars /\ Finish(i)

-----------------------------------------------------------------------------
(* A session of an earlier visit: History accepted turns of one version each. *)
EarlierMeta ==
  [order |-> {[role |-> r, at |-> k] : r \in Role, k \in 1 .. History},
   versions |-> {[num |-> k, turn |-> ModelTurn(k), downloaded |-> FALSE] : k \in 1 .. History},
   next |-> History + 1, last |-> 0]

Init ==
  /\ now = 0
  /\ stored = Preloaded
  /\ metaOf = [s \in Session |-> IF s \in Preloaded THEN EarlierMeta ELSE EmptyMeta(0)]
  /\ rows = [s \in Session |-> metaOf[s].order]
  /\ assigned = [s \in Session |-> metaOf[s].next - 1]
  /\ current = NoCurrent
  /\ listed = {}
  /\ drafts = [s \in Session \cup {NoSession} |-> 0]
  /\ running = 0
  /\ retryTurn = NoRetry
  /\ blocked = NoSession
  /\ action = [i \in Action |-> IdleAction]
  /\ sends = 0 /\ commits = History /\ contents = 0
  /\ creates = {} /\ selects = {} /\ marks = {}
  /\ used = Preloaded

(* ngOnInit: init() runs only when no session is shown; it may run again. *)
Open ==
  /\ MayStart
  /\ current.id = NoSession
  /\ action[Opening].pc \in {"idle", "done"}
  /\ StartReload(Opening, running)
  /\ UNCHANGED <<memVars, opVars, boundVars, now>>

Tick ==
  /\ now < MaxNow
  /\ now' = now + 1
  /\ UNCHANGED <<dbVars, memVars, opVars, boundVars, running, action>>

-----------------------------------------------------------------------------
(* The composer. *)

(* Faulty variant: the input stays enabled during a call. *)
TypeAnytime ==
  /\ MayStart
  /\ current.id # NoSession
  /\ contents < MaxContent
  /\ contents' = contents + 1
  /\ drafts' = [drafts EXCEPT ![current.id] = contents + 1]
  /\ UNCHANGED <<dbVars, current, listed, retryTurn, blocked, opVars, sends, commits, used,
                 running, action, now>>

(* setDraft from the enabled composer: the content becomes another one. *)
Type ==
  /\ MayStart
  /\ ~generating /\ current.id # NoSession
  /\ contents < MaxContent
  /\ contents' = contents + 1
  /\ drafts' = [drafts EXCEPT ![current.id] = contents + 1]
  /\ UNCHANGED <<dbVars, current, listed, retryTurn, blocked, opVars, sends, commits, used,
                 running, action, now>>

(* execute() up to the call. *)
Execute(content) ==
  LET i == sends + 1 IN
  /\ sends < MaxSends
  /\ sends' = i
  /\ running' = i
  /\ retryTurn' = NoRetry
  /\ blocked' = NoSession
  /\ drafts' = [drafts EXCEPT ![current.id] = 0]
  /\ Advance(i, [IdleAction EXCEPT !.pc = "calling", !.session = current.id,
                   !.content = content, !.sent = current.turns])
  /\ UNCHANGED <<dbVars, current, listed, opVars, commits, contents, used, now>>

(* Faulty variant: send() without its check of `generating`. *)
SendAnytime ==
  /\ MayStart
  /\ current.id # NoSession /\ blocked # current.id
  /\ drafts[current.id] # 0
  /\ Execute(drafts[current.id])

Send ==
  /\ MayStart
  /\ current.id # NoSession /\ ~generating /\ blocked # current.id
  /\ drafts[current.id] # 0
  /\ Execute(drafts[current.id])

Retry ==
  /\ MayStart
  /\ current.id # NoSession /\ ~generating /\ canRetry
  /\ Execute(retryTurn.content)

-----------------------------------------------------------------------------
(* How a call ends.  Every end but an accepted response gives the composer  *)
(* its content back.                                                        *)

CallEnds(i) ==
  /\ InFlight(i)
  /\ Finish(i)
  /\ Restore(i)
  /\ UNCHANGED <<dbVars, current, listed, opVars, boundVars, now>>

(* cancel() aborts the controller that `running` holds. *)
Cancel ==
  /\ generating
  /\ CallEnds(running)
  /\ UNCHANGED <<retryTurn, blocked>>

(* Faulty variant: the timer is armed by the answer, not by the call. *)
DeadlineAfterAnswer(i) ==
  /\ action[i].pc = "verifying"
  /\ CallEnds(i)
  /\ OfferRetry(i)
  /\ UNCHANGED blocked

(* The 120 s deadline, whatever the call is doing. *)
Deadline(i) ==
  /\ CallEnds(i)
  /\ OfferRetry(i)
  /\ UNCHANGED blocked

(* A failed call: the 413 of a history that cannot be trimmed blocks the    *)
(* session, another failure may offer Retry.                                *)
CallFails(i) ==
  /\ action[i].pc = "calling"
  /\ CallEnds(i)
  /\ \/ blocked' = action[i].session /\ UNCHANGED retryTurn
     \/ OfferRetry(i) /\ UNCHANGED blocked
     \/ UNCHANGED <<retryTurn, blocked>>

(* A valid 200: the runner asks the port whether the session still exists.  *)
CallAnswered(i) ==
  /\ MayStart
  /\ action[i].pc = "calling"
  /\ \E images \in 0 .. MaxImages, trimmed \in TrimChoices(action[i].sent), ok \in May("read") :
       Advance(i, [action[i] EXCEPT
                     !.pc = "verifying", !.images = images, !.trimmed = trimmed, !.ok = ok,
                     !.alive = stored \cap {action[i].session}])
  /\ UNCHANGED <<dbVars, memVars, opVars, boundVars, running, now>>

(* A rejected existence check is an unexpected failure of the call (T-7). *)
VerifyFails(i) ==
  /\ action[i].pc = "verifying" /\ ~action[i].ok
  /\ CallEnds(i)
  /\ OfferRetry(i)
  /\ UNCHANGED blocked

(* The session is gone: the response is discarded and the list reloaded. *)
Discard(i) ==
  /\ action[i].pc = "verifying" /\ action[i].ok /\ action[i].alive = {}
  /\ StartReload(i, 0)
  /\ UNCHANGED <<memVars, opVars, boundVars, now>>

(* The call has ended; commitResponse starts by loading the session again.  *)
StartCommit(i) ==
  LET s == action[i].session IN
  /\ action[i].pc = "verifying" /\ action[i].ok /\ action[i].alive # {}
  /\ running' = 0
  /\ \E ok \in May("read") :
       Advance(i, [action[i] EXCEPT
                     !.pc = "loading", !.ok = ok, !.alive = stored \cap {s},
                     !.loaded = IF ok THEN LoadOf(s) ELSE Nothing])
  /\ UNCHANGED <<dbVars, memVars, opVars, boundVars, now>>

-----------------------------------------------------------------------------
(* commitResponse. *)

(* A rejected load leaves execute() through its finally alone. *)
LoadFails(i) ==
  /\ action[i].pc = "loading" /\ ~action[i].ok
  /\ Finish(i)
  /\ UNCHANGED <<dbVars, memVars, opVars, boundVars, now>>

LoadFindsNothing(i) ==
  /\ action[i].pc = "loading" /\ action[i].ok /\ action[i].alive = {}
  /\ StartReload(i, running)
  /\ UNCHANGED <<memVars, opVars, boundVars, now>>

Loaded(i) == action[i].pc = "loading" /\ action[i].ok /\ action[i].alive # {}

(* InvalidResponseError: nothing is applied. *)
RefuseResponse(i) ==
  /\ Loaded(i)
  /\ action[i].trimmed \cap ProtectedTurns(action[i].loaded.meta) # {}
  /\ Finish(i)
  /\ Restore(i)
  /\ UNCHANGED <<dbVars, current, listed, retryTurn, blocked, opVars, boundVars, now>>

(* A text or safety reply without a cut changes no stored data.  (A reply    *)
(* with a cut, and one with images, has a batch.)                            *)
HasBatch(i) ==
  action[i].images > 0 \/ Removed(action[i].loaded, action[i].trimmed) # {}

RecordReply(i) ==
  /\ Loaded(i)
  /\ action[i].trimmed \cap ProtectedTurns(action[i].loaded.meta) = {}
  /\ ~HasBatch(i)
  /\ Finish(i)
  /\ Restore(i)
  /\ OfferRetry(i)
  /\ UNCHANGED <<dbVars, current, listed, blocked, opVars, boundVars, now>>

(* applyResponse and the commit's transaction. *)
Commit(i) ==
  LET a == action[i]
      s == a.session
      meta == ApplyMeta(a.loaded, a.trimmed, a.images, commits + 1, now)
      turns == ApplyTurns(rows[s], a.loaded, a.trimmed, a.images, commits + 1)
      shown == ApplyTurns(a.loaded.turns, a.loaded, a.trimmed, a.images, commits + 1)
  IN
  /\ Loaded(i)
  /\ a.trimmed \cap ProtectedTurns(a.loaded.meta) = {}
  /\ HasBatch(i)
  /\ commits' = commits + 1
  /\ \E ok \in May("write") :
       /\ IF ok THEN Put(s, meta, turns) ELSE UNCHANGED dbVars
       /\ Advance(i, [a EXCEPT !.pc = "committing", !.ok = ok, !.loaded = View(meta, shown)])
  /\ UNCHANGED <<memVars, opVars, sends, contents, used, running, now>>

(* Faulty variant: the in-memory state does not wait for the commit. *)
CommitFailsShown(i) ==
  /\ action[i].pc = "committing" /\ ~action[i].ok
  /\ ReplaceStored(action[i].session, action[i].loaded)
  /\ Finish(i)
  /\ Restore(i)
  /\ UNCHANGED <<dbVars, listed, retryTurn, blocked, opVars, boundVars, now>>

CommitFails(i) ==
  /\ action[i].pc = "committing" /\ ~action[i].ok
  /\ Finish(i)
  /\ Restore(i)
  /\ UNCHANGED <<dbVars, current, listed, retryTurn, blocked, opVars, boundVars, now>>

(* The in-memory state follows the commit; a reply without images keeps its *)
(* content for a Retry.                                                     *)
Committed(i) ==
  /\ action[i].pc = "committing" /\ action[i].ok
  /\ ReplaceStored(action[i].session, action[i].loaded)
  /\ IF action[i].images = 0
       THEN Restore(i) /\ OfferRetry(i)
       ELSE UNCHANGED <<drafts, retryTurn>>
  /\ Finish(i)
  /\ UNCHANGED <<dbVars, listed, blocked, opVars, boundVars, now>>

-----------------------------------------------------------------------------
(* refreshSessions and init, after loadAndExpire answered. *)

ReloadKeeps(i) ==
  /\ action[i].pc = "reloading"
  /\ i # Opening /\ current.id \in action[i].alive
  /\ listed' = action[i].alive
  /\ Finish(i)
  /\ UNCHANGED <<dbVars, current, drafts, retryTurn, blocked, opVars, boundVars, now>>

ReloadReplaces(i) ==
  /\ action[i].pc = "reloading"
  /\ i = Opening \/ current.id \notin action[i].alive
  /\ listed' = action[i].alive
  /\ current' = IF i = Opening THEN current ELSE NoCurrent
  /\ UNCHANGED <<drafts, retryTurn, blocked, selects, marks, sends, commits, contents, running, now>>

ReloadSelects(i) ==
  LET s == action[i].session IN
  /\ action[i].alive # {}
  /\ ReloadReplaces(i)
  /\ \E ok \in May("read") :
       Advance(i, [action[i] EXCEPT
                     !.pc = "reselecting", !.ok = ok /\ s \in stored,
                     !.loaded = IF ok THEN LoadOf(s) ELSE Nothing])
  /\ UNCHANGED <<dbVars, creates, used>>

Reselected(i) ==
  /\ action[i].pc = "reselecting"
  /\ current' = IF action[i].ok THEN Show(action[i].session, action[i].loaded) ELSE current
  /\ Finish(i)
  /\ UNCHANGED <<dbVars, listed, drafts, retryTurn, blocked, opVars, boundVars, now>>

(* createSession captures the session shown after it was cleared. *)
ReloadCreates(i) ==
  /\ action[i].alive = {}
  /\ ReloadReplaces(i)
  /\ Advance(i, [action[i] EXCEPT !.pc = "recreating"])
  /\ NewCreate(IF i = Opening THEN current.id ELSE NoSession, 0, i)
  /\ UNCHANGED dbVars

-----------------------------------------------------------------------------
(* Sessions: select, new, switch the model, edit a version. *)

Select ==
  /\ MayStart /\ OpsLeft
  /\ \E s \in listed, ok \in May("read") :
       selects' = selects \cup {[id |-> s, ok |-> ok /\ s \in stored,
                                 loaded |-> IF ok THEN LoadOf(s) ELSE Nothing]}
  /\ UNCHANGED <<dbVars, memVars, creates, marks, boundVars, running, action, now>>

Selected ==
  /\ \E op \in selects :
       /\ selects' = selects \ {op}
       /\ current' = IF op.ok THEN Show(op.id, op.loaded) ELSE current
  /\ UNCHANGED <<dbVars, listed, drafts, retryTurn, blocked, creates, marks, boundVars,
                 running, action, now>>

(* newSession, once confirmed: always offered, also during a call. *)
NewSession ==
  /\ MayStart /\ OpsLeft
  /\ NewCreate(current.id, 0, NoAction)
  /\ UNCHANGED <<dbVars, memVars, selects, marks, sends, commits, contents, running, action, now>>

(* A version whose image is still in the session shown. *)
HasImage(v) == v.turn \in current.turns

(* switchModel in a session with a version, and editVersion in a blocked     *)
(* session: a new session whose composer holds the version.                  *)
SeededSession ==
  /\ MayStart /\ OpsLeft
  /\ ~generating /\ current.id # NoSession
  /\ \/ /\ drafts[current.id] = 0 /\ ~canRetry
        /\ \E v \in Latest(current.meta) : HasImage(v)
     \/ /\ blocked = current.id
        /\ \E v \in current.meta.versions : HasImage(v)
  /\ contents < MaxContent
  /\ contents' = contents + 1
  /\ NewCreate(current.id, contents + 1, NoAction)
  /\ UNCHANGED <<dbVars, memVars, selects, marks, sends, commits, running, action, now>>

(* editVersion otherwise: the version is attached to the composer. *)
EditVersion ==
  /\ MayStart
  /\ ~generating /\ current.id # NoSession /\ blocked # current.id
  /\ \E v \in current.meta.versions : HasImage(v)
  /\ contents < MaxContent
  /\ contents' = contents + 1
  /\ drafts' = [drafts EXCEPT ![current.id] = contents + 1]
  /\ UNCHANGED <<dbVars, current, listed, retryTurn, blocked, opVars, sends, commits, used,
                 running, action, now>>

(* Faulty variant: the session with a call is not spared. *)
ExcludedWithoutCall(op) == {op.leaving, op.id}

(* createWithEviction: the victims are picked inside the transaction, with   *)
(* the call that is in flight by then.                                       *)
Excluded(op) == {op.leaving, op.id, IF generating THEN action[running].session ELSE NoSession}

CreateRuns ==
  \E op \in creates :
    /\ ~op.ran
    /\ \/ /\ "write" \in Faults
          /\ creates' = (creates \ {op}) \cup {[op EXCEPT !.ran = TRUE]}
          /\ UNCHANGED dbVars
       \/ \E victims \in SUBSET stored :
            /\ IsVictimSet(victims, stored, metaOf, Excluded(op), Cap)
            /\ creates' = (creates \ {op}) \cup {[op EXCEPT !.ran = TRUE, !.ok = TRUE, !.evicted = victims]}
            /\ stored' = (stored \ victims) \cup {op.id}
            /\ metaOf' = [s \in Session |-> IF s = op.id THEN EmptyMeta(op.since)
                                            ELSE IF s \in victims THEN EmptyMeta(0) ELSE metaOf[s]]
            /\ rows' = [s \in Session |-> IF s \in victims THEN {} ELSE rows[s]]
            /\ UNCHANGED assigned
    /\ UNCHANGED <<memVars, selects, marks, boundVars, running, action, now>>

Created ==
  \E op \in creates :
    /\ op.ran
    /\ creates' = creates \ {op}
    /\ IF op.ok
         THEN /\ listed' = (listed \ op.evicted) \cup {op.id}
              /\ drafts' = [s \in DOMAIN drafts |-> IF s = op.id THEN op.seed
                                                    ELSE IF s \in op.evicted THEN 0 ELSE drafts[s]]
              /\ current' = Show(op.id, [meta |-> EmptyMeta(op.since), turns |-> {}])
         ELSE UNCHANGED <<listed, drafts, current>>
    /\ IF op.owner = NoAction THEN UNCHANGED <<running, action>> ELSE Finish(op.owner)
    /\ UNCHANGED <<dbVars, retryTurn, blocked, selects, marks, boundVars, now>>

-----------------------------------------------------------------------------
(* Downloads and copies of the version strip, and the flag they leave. *)

(* One delivery at a time (`busy`); it takes the version shown by then. *)
Deliver ==
  /\ OpsLeft
  /\ current.id # NoSession
  /\ ~ \E m \in marks : m.flagged = NoSession
  /\ \E v \in current.meta.versions :
       /\ HasImage(v)
       /\ marks' = marks \cup {[origin |-> current.id, num |-> v.num, flagged |-> NoSession,
                                ok |-> FALSE, written |-> Nothing]}
  /\ UNCHANGED <<dbVars, memVars, creates, selects, boundVars, running, action, now>>

NeedsFlag(num) == \E v \in current.meta.versions : v.num = num /\ ~v.downloaded

(* The delivery failed, or nothing of the session shown is left to flag. *)
DeliveryEnds ==
  /\ \E m \in marks : m.flagged = NoSession /\ marks' = marks \ {m}
  /\ UNCHANGED <<dbVars, memVars, creates, selects, boundVars, running, action, now>>

(* The delivery succeeded: markDownloaded writes the meta of the session     *)
(* shown by then, with the flag, as it is in memory.                         *)
MarkDownloaded ==
  /\ MayStart
  /\ \E m \in marks, ok \in May("write") :
       LET meta == FlagMeta(current.meta, m.num, now) IN
       /\ m.flagged = NoSession
       /\ current.id # NoSession /\ NeedsFlag(m.num)
       /\ marks' = (marks \ {m}) \cup {[m EXCEPT !.flagged = current.id, !.ok = ok,
                                          !.written = [meta |-> meta, turns |-> current.turns]]}
       /\ IF ok THEN Put(current.id, meta, rows[current.id]) ELSE UNCHANGED dbVars
  /\ UNCHANGED <<memVars, creates, selects, boundVars, running, action, now>>

Marked ==
  /\ \E m \in marks :
       /\ m.flagged # NoSession
       /\ marks' = marks \ {m}
       /\ IF m.ok THEN ReplaceStored(m.flagged, m.written) ELSE UNCHANGED current
  /\ UNCHANGED <<dbVars, listed, drafts, retryTurn, blocked, creates, selects, boundVars,
                 running, action, now>>

-----------------------------------------------------------------------------
(* The steps that answer a storage call. *)
Continue(i) ==
  \/ VerifyFails(i) \/ Discard(i) \/ StartCommit(i)
  \/ LoadFails(i) \/ LoadFindsNothing(i) \/ RefuseResponse(i) \/ RecordReply(i)
  \/ Commit(i) \/ CommitFails(i) \/ Committed(i)
  \/ ReloadKeeps(i) \/ ReloadSelects(i) \/ Reselected(i) \/ ReloadCreates(i)

CallStep(i) == Deadline(i) \/ CallFails(i) \/ CallAnswered(i)

UserStep ==
  \/ Open \/ Type \/ Send \/ Retry \/ Cancel
  \/ Select \/ NewSession \/ SeededSession \/ EditVersion \/ Deliver

Next ==
  \/ Tick \/ UserStep
  \/ Selected \/ CreateRuns \/ Created
  \/ DeliveryEnds \/ MarkDownloaded \/ Marked
  \/ \E i \in Action : CallStep(i) \/ Continue(i)

Spec == Init /\ [][Next]_vars

(* The deadline timer fires, IndexedDB answers, and the event loop runs the  *)
(* continuation of an answered call.                                         *)
Fairness ==
  /\ WF_vars(CreateRuns) /\ WF_vars(Created)
  /\ \A i \in Action : WF_vars(Deadline(i)) /\ WF_vars(Continue(i))

FairSpec == Spec /\ Fairness

-----------------------------------------------------------------------------
StoreTypeOK ==
  /\ stored \subseteq Session
  /\ metaOf \in [Session -> Meta]
  /\ rows \in [Session -> SUBSET Turn]
  /\ assigned \in [Session -> Nat]

MemoryTypeOK ==
  /\ current \in [id : Session \cup {NoSession}, meta : Meta, turns : SUBSET Turn]
  /\ listed \subseteq Session
  /\ drafts \in [Session \cup {NoSession} -> 0 .. MaxContent]
  /\ retryTurn \in [session : Session \cup {NoSession}, content : 0 .. MaxContent]
  /\ blocked \in Session \cup {NoSession}

HandlersTypeOK ==
  /\ running \in Action
  /\ action \in [Action -> ActionState]
  /\ creates \subseteq CreateOp
  /\ selects \subseteq SelectOp
  /\ marks \subseteq MarkOp

BoundsTypeOK ==
  /\ now \in Nat
  /\ sends \in 0 .. MaxSends
  /\ commits \in Nat
  /\ contents \in 0 .. MaxContent
  /\ used \subseteq Session

(* Every variable has its type, the copies a handler keeps across an await    *)
(* included.                                                                  *)
TypeOK == StoreTypeOK /\ MemoryTypeOK /\ HandlersTypeOK /\ BoundsTypeOK

(* In every copy of a session, stored or in memory or held by a handler      *)
(* across an await, version numbers are unique, below nextVersionNumber, and *)
(* name a turn the session still has: a cut takes a turn and its versions    *)
(* together (applyResponse), whatever the handlers interleave.               *)
SessionsWellFormed ==
  /\ \A s \in Session : WellFormed(metaOf[s])
  /\ WellFormed(current.meta)
  /\ \A i \in Action : WellFormed(action[i].loaded.meta)
  /\ \A op \in selects : WellFormed(op.loaded.meta)
  /\ \A m \in marks : WellFormed(m.written.meta)

(* The strip never shows a version that was not stored first: in-memory      *)
(* state is changed only after its commit succeeded (FR-44).                 *)
MemoryBehindStore ==
  current.id # NoSession => current.meta.next - 1 <= assigned[current.id]

(* A creation's transaction leaves at most Cap sessions stored, and heals a  *)
(* count above it, though it may not touch the session being left, the one   *)
(* with a call and the new one (D-23, D-25).                                 *)
CreationKeepsCap ==
  [][\A op \in creates : ~op.ran /\ (\E o \in creates' : o.id = op.id /\ o.ran /\ o.ok)
       => Cardinality(stored') <= Cap]_vars

(* At most Cap sessions are stored (FR-86).                                  *)
CapHolds == Cardinality(stored) <= Cap

(* A creation evicts neither the session it leaves nor one whose call is     *)
(* still in flight (D-23).                                                   *)
EvictionSpares ==
  [][\A o \in creates' : o.ran /\ (\E op \in creates : op.id = o.id /\ ~op.ran)
       => /\ o.leaving \notin o.evicted
          /\ \A i \in Action : InFlight(i) => action[i].session \notin o.evicted]_vars

(* `generating` is true exactly while a call is in flight, and Cancel        *)
(* reaches that call: at most one is (DD-14, FR-21).                         *)
CallIsReported == \A i \in Action : InFlight(i) => running = i

(* The next version number is the highest ever assigned in the session plus  *)
(* one, whatever was cut or flagged in between (FR-23).                      *)
NumbersNeverReused == \A s \in stored : metaOf[s].next = assigned[s] + 1

(* The turn order of a stored session and its rows name the same turns: no   *)
(* accepted turn is lost and none is listed without its row (FR-44).         *)
NoTurnLost == \A s \in stored : metaOf[s].order = rows[s]

(* The session shown is the session stored, once no handler is waiting.      *)
MemoryMatchesStore ==
  ~StorageBusy /\ current.id \in stored
    => current.meta = metaOf[current.id] /\ current.turns = rows[current.id]

(* A user action that ends without an accepted response gives its content    *)
(* back to the composer of its session (FR-36); a discarded response has no  *)
(* session to give it back to.                                               *)
ContentGivenBack ==
  [][\A i \in Action :
       /\ action[i].content # 0 /\ action'[i].pc = "done"
       /\ ~(action[i].pc = "committing" /\ action[i].ok /\ action[i].images > 0)
       => drafts'[action[i].session] = action[i].content]_vars

(* No handler that ends replaces content the user has put in the composer    *)
(* since the action was sent.                                                *)
NewContentKept ==
  [][\A i \in Action, s \in Session :
       action[i].pc # "done" /\ action'[i].pc = "done" /\ s \in stored /\ drafts[s] # 0
       => drafts'[s] = drafts[s]]_vars

(* The downloaded flag is set on the version that was delivered, in the      *)
(* session it was delivered from (FR-33).                                    *)
FlagStaysWithItsSession ==
  \A m \in marks : m.flagged # NoSession => m.flagged = m.origin

(* Every call ends, and so does everything its end starts, and so does the   *)
(* init of the mode: again and again nothing that was started is unfinished. *)
CallsEnd == []<>(\A i \in Action : action[i].pc \in {"idle", "done"})
=============================================================================

--------------------------- MODULE GenerationRunner ---------------------------
(***************************************************************************)
(* The generation runner (generation-runner.ts): one run is one user       *)
(* action, Send or Retry.  It announces, arms one deadline, makes the paid *)
(* call, and on FILE_MISSING reads the stored bytes of every file uri,     *)
(* uploads them again, persists the new uris and repeats the call once.    *)
(*                                                                         *)
(* One step runs from one await to the next.  finish() settles the run and *)
(* aborts its calls; the run's own code goes on afterwards until it sees   *)
(* `finished`.  So a settled run still takes steps, beside a later run.    *)
(*                                                                         *)
(* The uris matter, so the model has the pictures: which uri the page      *)
(* sends (`shown`, `draft`), which one IndexedDB knows (`rows`, `bytes`)   *)
(* and which ones the provider has dropped (`gone`).                       *)
(***************************************************************************)
EXTENDS FiniteSets, Naturals

CONSTANTS
  MaxRuns,     \* bound: user actions
  Picture,     \* the images the user attaches
  MaxUris      \* bound: uploads of one picture

ASSUME RunnerAssumption == MaxRuns \in Nat /\ MaxUris \in Nat \ {0}

VARIABLES
  run,       \* every user action: its place in the code and its locals
  said,      \* the live region
  shown,     \* uris in the turns of the session shown (memory)
  draft,     \* uris of the message's attachments (memory: composer, retryTurn)
  rows,      \* uris in the stored turns (IndexedDB)
  bytes,     \* uris the stored sent bytes are keyed by (IndexedDB)
  inStore,    \* the session is still stored
  uploads,   \* uris the provider has given out for each picture
  gone       \* uris the provider no longer knows

memVars == <<shown, draft>>
dbVars == <<rows, bytes, inStore>>
fileVars == <<uploads, gone>>
vars == <<run, said, memVars, dbVars, fileVars>>

Run == 1 .. MaxRuns
Uri == [pic : Picture, nth : 0 .. MaxUris - 1]
Pics(uris) == {u.pic : u \in uris}

(* "refused" is a failed turn without Retry: T-8, T-11, T-12, T-13. *)
Failure == {"missing", "lost", "timeout", "refused"}
Outcome == {"images", "reply", "discarded", "cancelled", "blocked"} \cup Failure
Pc == {"idle", "generating", "reading", "uploading", "remapping", "repeating",
       "verifying", "over"}
Awaiting == Pc \ {"idle", "over"}

RunState ==
  [pc : Pc,
   outcome : {"none", "open"} \cup Outcome,
   sent : SUBSET Uri,      \* the uris of the request last sent
   stored : SUBSET Uri,    \* those whose bytes were read
   fresh : SUBSET Uri,     \* mapping: the uris their bytes got
   remapped : BOOLEAN,     \* remapFileUris resolves
   reply : {"images", "reply"},
   calls : 0 .. 2]         \* generate calls made

IdleRun ==
  [pc |-> "idle", outcome |-> "none", sent |-> {}, stored |-> {}, fresh |-> {},
   remapped |-> FALSE, reply |-> "reply", calls |-> 0]

Live(r) == run[r].outcome = "open"

-----------------------------------------------------------------------------
(* What the store does with an outcome, as far as uris go: images are      *)
(* committed with the turn that was sent and the stored turns are shown;   *)
(* a discarded response loses the message; any other end restores it.      *)
Absorb(r, outcome) ==
  CASE outcome = "images" ->
         /\ rows' = rows \cup {u \in run[r].sent : u.pic \in Pics(draft)}
         /\ shown' = rows'
         /\ draft' = {}
         /\ UNCHANGED <<bytes, inStore>>
    [] outcome = "discarded" -> draft' = {} /\ UNCHANGED <<shown, dbVars>>
    [] OTHER -> UNCHANGED <<memVars, dbVars>>

(* Faulty variant: a late answer ends the run a second time. *)
FinishAgain(r, outcome) ==
  /\ run' = [run EXCEPT ![r].outcome = outcome, ![r].pc = "over"]
  /\ said' = [text |-> "", run |-> r]
  /\ Absorb(r, outcome)

(* finish: only the first end counts. *)
Finish(r, outcome) ==
  IF Live(r)
  THEN /\ run' = [run EXCEPT ![r].outcome = outcome, ![r].pc = "over"]
       /\ said' = [text |-> IF outcome = "images" THEN "T-17" ELSE "", run |-> r]
       /\ Absorb(r, outcome)
  ELSE /\ run' = [run EXCEPT ![r].pc = "over"]
       /\ UNCHANGED <<said, memVars, dbVars>>

(* finish from a timer or the cancel listener: the run's code is still at  *)
(* its await.                                                              *)
Interrupt(r, outcome) ==
  /\ run' = [run EXCEPT ![r].outcome = outcome]
  /\ said' = [text |-> "", run |-> r]
  /\ Absorb(r, outcome)

(* The run's code goes on at another await, nothing else changes. *)
GoesOn(r, state) ==
  /\ run' = [run EXCEPT ![r] = state]
  /\ UNCHANGED <<said, memVars, dbVars>>

-----------------------------------------------------------------------------
(* run: T-16, the deadline, the request from the snapshot, the paid call. *)
Start(r) ==
  /\ run[r].outcome = "none"
  /\ \A q \in Run : q < r => run[q].outcome \in Outcome
  /\ run' = [run EXCEPT ![r] = [IdleRun EXCEPT !.pc = "generating", !.outcome = "open",
                                               !.sent = shown \cup draft, !.calls = 1]]
  /\ said' = [text |-> "T-16", run |-> r]
  /\ UNCHANGED <<memVars, dbVars, fileVars>>

Deadline(r) == Live(r) /\ Interrupt(r, "timeout") /\ UNCHANGED fileVars
Cancel(r) == Live(r) /\ Interrupt(r, "cancelled") /\ UNCHANGED fileVars

(* An aborted call resolves, or a late answer arrives: `finished` is seen. *)
LateAnswer(r) ==
  /\ run[r].pc \in Awaiting /\ run[r].outcome \in Outcome
  /\ Finish(r, "discarded") /\ UNCHANGED fileVars

(* The generate call fails: fail(), or T-12 for a 200 the schema refuses. *)
GenerateFails(r) ==
  /\ Live(r) /\ run[r].pc \in {"generating", "repeating"}
  /\ \E outcome \in {"blocked", "lost", "refused"} : Finish(r, outcome)
  /\ UNCHANGED fileVars

(* The generate call answers 200; the session is looked up before use. *)
GenerateAnswers(r) ==
  /\ Live(r) /\ run[r].pc \in {"generating", "repeating"}
  /\ run[r].sent \cap gone = {}
  /\ \E reply \in {"images", "reply"} :
       GoesOn(r, [run[r] EXCEPT !.pc = "verifying", !.reply = reply])
  /\ UNCHANGED fileVars

(* 410 FILE_MISSING: the first one starts the recovery, a second ends it. *)
FileMissing(r) ==
  /\ Live(r) /\ run[r].sent \cap gone # {}
  /\ \/ run[r].pc = "generating" /\ GoesOn(r, [run[r] EXCEPT !.pc = "reading"])
     \/ run[r].pc = "repeating" /\ Finish(r, "missing")
  /\ UNCHANGED fileVars

(* getSentBytes of one uri; one that is not stored ends the run. *)
BytesRead(r) ==
  /\ Live(r) /\ run[r].pc = "reading"
  /\ \E u \in run[r].sent \ run[r].stored :
       IF u \notin bytes
       THEN Finish(r, "missing")
       ELSE LET stored == run[r].stored \cup {u} IN
            GoesOn(r, [run[r] EXCEPT
              !.stored = stored,
              !.pc = IF stored = run[r].sent THEN "uploading" ELSE "reading"])
  /\ UNCHANGED fileVars

Replaced(uris, old, fresh) ==
  (uris \ old) \cup {v \in fresh : v.pic \in Pics(uris \cap old)}

(* Faulty variant: the bytes stay under the uris that are gone. *)
RemapTurnsOnly(old, fresh) ==
  rows' = Replaced(rows, old, fresh) /\ UNCHANGED bytes

(* remapFileUris: the stored turns and the stored bytes, in one transaction. *)
Remap(old, fresh) ==
  /\ rows' = Replaced(rows, old, fresh)
  /\ bytes' = Replaced(bytes, old, fresh)

(* An upload answers with a new uri; after the last one the mapping is     *)
(* persisted, and the transaction may abort.                               *)
Uploaded(r) ==
  /\ Live(r) /\ run[r].pc = "uploading"
  /\ \E p \in Pics(run[r].stored) \ Pics(run[r].fresh) :
       /\ uploads[p] < MaxUris
       /\ uploads' = [uploads EXCEPT ![p] = @ + 1]
       /\ LET fresh == run[r].fresh \cup {[pic |-> p, nth |-> uploads[p]]}
              last == Pics(fresh) = Pics(run[r].stored)
          IN  \E resolves \in BOOLEAN :
                /\ run' = [run EXCEPT ![r].fresh = fresh,
                                      ![r].remapped = last /\ resolves,
                                      ![r].pc = IF last THEN "remapping" ELSE "uploading"]
                /\ IF last /\ resolves THEN Remap(run[r].stored, fresh) ELSE UNCHANGED <<rows, bytes>>
  /\ UNCHANGED <<said, memVars, inStore, gone>>

UploadFails(r) ==
  /\ Live(r) /\ run[r].pc = "uploading"
  /\ \E outcome \in {"lost", "refused"} : Finish(r, outcome)
  /\ UNCHANGED fileVars

(* The mapping is persisted: the call is made again with the new uris. *)
Remapped(r) ==
  /\ Live(r) /\ run[r].pc = "remapping" /\ run[r].remapped
  /\ GoesOn(r, [run[r] EXCEPT !.pc = "repeating", !.sent = run[r].fresh, !.calls = @ + 1])
  /\ UNCHANGED fileVars

(* A storage call or the HTTP adapter rejects: T-7 from the catch. *)
Rejected(r) ==
  /\ Live(r) /\ run[r].pc \in Awaiting
  /\ run[r].pc = "remapping" => ~run[r].remapped
  /\ Finish(r, "lost")
  /\ UNCHANGED fileVars

Verified(r) ==
  /\ Live(r) /\ run[r].pc = "verifying"
  /\ Finish(r, IF inStore THEN run[r].reply ELSE "discarded")
  /\ UNCHANGED fileVars

-----------------------------------------------------------------------------
(* Around the runs: the composer, the session and the provider's files. *)

Idle == \A r \in Run : ~Live(r)

(* An image is uploaded, and its sent bytes are kept when storage allows. *)
Attach(p) ==
  /\ Idle /\ uploads[p] = 0
  /\ LET u == [pic |-> p, nth |-> 0] IN
       /\ draft' = draft \cup {u}
       /\ bytes' \in {bytes, bytes \cup {u}}
  /\ uploads' = [uploads EXCEPT ![p] = 1]
  /\ UNCHANGED <<run, said, shown, rows, inStore, gone>>

RemoveAttachment(u) ==
  /\ Idle /\ u \in draft
  /\ draft' = draft \ {u}
  /\ UNCHANGED <<run, said, shown, dbVars, fileVars>>

(* The session expires or is evicted: its rows go with it. *)
SessionGone ==
  /\ inStore
  /\ inStore' = FALSE /\ rows' = {} /\ bytes' = {}
  /\ UNCHANGED <<run, said, memVars, fileVars>>

FileExpires(u) ==
  /\ u.nth < uploads[u.pic] /\ u \notin gone
  /\ gone' = gone \cup {u}
  /\ UNCHANGED <<run, said, memVars, dbVars, uploads>>

Init ==
  /\ run = [r \in Run |-> IdleRun]
  /\ said = [text |-> "", run |-> 0]
  /\ shown = {} /\ draft = {} /\ rows = {} /\ bytes = {} /\ inStore = TRUE
  /\ uploads = [p \in Picture |-> 0]
  /\ gone = {}

Step(r) ==
  \/ Start(r) \/ Deadline(r) \/ Cancel(r) \/ LateAnswer(r)
  \/ GenerateFails(r) \/ GenerateAnswers(r) \/ FileMissing(r)
  \/ BytesRead(r) \/ Uploaded(r) \/ UploadFails(r) \/ Remapped(r)
  \/ Rejected(r) \/ Verified(r)

Next ==
  \/ \E r \in Run : Step(r)
  \/ \E p \in Picture : Attach(p)
  \/ \E u \in Uri : RemoveAttachment(u) \/ FileExpires(u)
  \/ SessionGone

Spec == Init /\ [][Next]_vars

-----------------------------------------------------------------------------
(* Properties. *)

(* The types; `calls : 0 .. 2` says that no action makes a third paid call  *)
(* (handle's isRepeat).                                                    *)
TypeOK ==
  /\ run \in [Run -> RunState]
  /\ said \in [text : {"", "T-16", "T-17"}, run : 0 .. MaxRuns]
  /\ shown \subseteq Uri /\ draft \subseteq Uri
  /\ rows \subseteq Uri /\ bytes \subseteq Uri /\ inStore \in BOOLEAN
  /\ uploads \in [Picture -> 0 .. MaxUris] /\ gone \subseteq Uri

Promise == INSTANCE OneOutcome WITH outcome <- [r \in Run |-> run[r].outcome]

(* Whatever is still in flight when it ends, a user action has one outcome *)
(* and one closing announcement, and no late answer of it changes the      *)
(* outcome or talks over a later action (finish, l.119-128; the header of  *)
(* the file: "the outcome promise settles at Cancel or deadline time and a *)
(* late response afterwards is ignored").                                  *)
KeepsPromise == Promise!Spec

(* The client makes a paid call a second time only for an action that is   *)
(* still open, once, after FILE_MISSING, and with uris that IndexedDB has  *)
(* taken over already: a crash after the repeated call finds the bytes     *)
(* under the uris that were sent (recover, l.184-222; handle, l.224-238).  *)
PaidAgain(r) ==
  /\ Live(r) /\ run[r].calls = 1 /\ run[r].sent \cap gone # {}
  /\ LET sent == run'[r].sent IN
       /\ Pics(sent) = Pics(run[r].sent) /\ sent \cap run[r].sent = {}
       /\ inStore => /\ sent \subseteq bytes
                    /\ \A u \in rows : u.pic \in Pics(sent) => u \in sent

PaidCallsAreFew ==
  [][\A r \in Run : run'[r].calls > run[r].calls /\ run[r].calls > 0 => PaidAgain(r)]_vars

(* Nothing is uploaded again before the bytes of every uri of the request  *)
(* were found, and nothing after the action ended (recover, l.187-200).    *)
UploadsWhenAllStored ==
  [][\A r \in Run : run'[r].fresh # run[r].fresh =>
       Live(r) /\ run[r].stored = run[r].sent /\ run[r].fresh \subseteq run'[r].fresh]_vars

(* An action that ended after its mapping was persisted and without images *)
(* leaves the page with the uris it had before.                            *)
MappingForgotten == \E r \in Run : run[r].remapped /\ run[r].outcome # "images"

(* The page and IndexedDB name a picture by the same uri, so the recovery  *)
(* of FR-17 finds its bytes: at rest, after every sequence of sends, ends  *)
(* and expiries, as long as no mapping was forgotten.                      *)
PageMatchesBytes ==
  Idle /\ inStore /\ ~MappingForgotten =>
    \A u \in rows \cup shown \cup draft : u.pic \in Pics(bytes) => u \in bytes

(* FR-36: a Retry re-sends the same turn "with re-upload after expiry as   *)
(* in FR-17": an action ends in T-10 before any upload only when the bytes *)
(* of one of its pictures are not stored.                                  *)
RetryCanRecover ==
  \A r \in Run :
    run[r].outcome = "missing" /\ run[r].calls = 1 /\ inStore =>
      \E u \in run[r].sent : u.pic \notin Pics(bytes)
===============================================================================

------------------------ MODULE GenerationRunnerProofs ------------------------
(***************************************************************************)
(* Proofs about the generation runner, for every number of user actions,   *)
(* pictures and uploads: type correctness, that nothing is uploaded before *)
(* all bytes were found, that the runner implements OneOutcome, that the   *)
(* page knows its pictures by the uris IndexedDB keys the bytes by, and    *)
(* that a second call is paid only by an open action that lost a file.     *)
(***************************************************************************)
EXTENDS GenerationRunner, TLAPS

(* Where a run stands fits what it holds. *)
Fits(s) ==
  /\ s.outcome = "none" <=> s.pc = "idle"
  /\ s.outcome = "none" => s = IdleRun
  /\ s.outcome = "open" => s.pc \in Awaiting
  /\ s.pc \in {"generating", "reading", "uploading", "remapping"} => s.calls = 1
  /\ s.pc \in {"uploading", "remapping"} => s.stored = s.sent

RunsFit == \A r \in Run : Fits(run[r])

Inv == TypeOK /\ RunsFit

RestOK ==
  /\ said \in [text : {"", "T-16", "T-17"}, run : 0 .. MaxRuns]
  /\ shown \subseteq Uri /\ draft \subseteq Uri
  /\ rows \subseteq Uri /\ bytes \subseteq Uri /\ inStore \in BOOLEAN

FilesOK == uploads \in [Picture -> 0 .. MaxUris] /\ gone \subseteq Uri

(* A run that was not started is typed and fits its place. *)
LEMMA IdleFits == IdleRun \in RunState /\ Fits(IdleRun)
  BY DEF IdleRun, RunState, Fits, Pc, Awaiting

(* The initial state is typed, and every run is idle. *)
LEMMA InitInv == Init => Inv
  <1> SUFFICES ASSUME Init PROVE Inv
    OBVIOUS
  <1>1. run \in [Run -> RunState] /\ RunsFit
    BY IdleFits DEF Init, RunsFit
  <1>2. RestOK
    <2>1. 0 \in 0 .. MaxRuns
      BY RunnerAssumption
    <2>2. said \in [text : {"", "T-16", "T-17"}, run : 0 .. MaxRuns]
      BY <2>1 DEF Init
    <2> QED
      BY <2>2 DEF Init, RestOK
  <1>3. FilesOK
    <2>1. 0 \in 0 .. MaxUris
      BY RunnerAssumption
    <2> QED
      BY <2>1 DEF Init, FilesOK
  <1> QED
    BY <1>1, <1>2, <1>3 DEF Inv, TypeOK, RestOK, FilesOK

(* One run changes; the others keep their states. *)
LEMMA RunChanges ==
  ASSUME Inv, NEW r \in Run, NEW s \in RunState, Fits(s), run' = [run EXCEPT ![r] = s],
         RestOK', FilesOK'
  PROVE  Inv'
  <1>1. run' \in [Run -> RunState]
    BY DEF Inv, TypeOK
  <1>2. RunsFit'
    BY DEF Inv, TypeOK, RunsFit
  <1> QED
    BY <1>1, <1>2 DEF Inv, TypeOK, RestOK, FilesOK

(* What the store does with an outcome keeps the uris typed. *)
LEMMA AbsorbTyped ==
  ASSUME TypeOK, NEW r \in Run, NEW o \in Outcome, Absorb(r, o)
  PROVE  /\ shown' \subseteq Uri /\ draft' \subseteq Uri
         /\ rows' \subseteq Uri /\ bytes' \subseteq Uri /\ inStore' \in BOOLEAN
  <1>1. run[r].sent \subseteq Uri
    BY DEF TypeOK, RunState
  <1>2. CASE o = "images"
    BY <1>1, <1>2 DEF TypeOK, Absorb
  <1>3. CASE o = "discarded"
    BY <1>3 DEF TypeOK, Absorb, dbVars
  <1>4. CASE o \notin {"images", "discarded"}
    BY <1>4 DEF TypeOK, Absorb, memVars, dbVars
  <1> QED
    BY <1>2, <1>3, <1>4

(* One run of a state that satisfies the invariant. *)
LEMMA RunsTyped == ASSUME Inv, NEW r \in Run PROVE run[r] \in RunState /\ Fits(run[r])
  BY DEF Inv, TypeOK, RunsFit

(* The live region may name any run. *)
LEMMA RunInRange == ASSUME NEW r \in Run PROVE r \in 0 .. MaxRuns
  BY RunnerAssumption DEF Run

(* finish() keeps the invariant, whoever calls it first or again. *)
LEMMA FinishKeeps ==
  ASSUME Inv, NEW r \in Run, NEW o \in Outcome, run[r].outcome # "none", Finish(r, o),
         FilesOK'
  PROVE  Inv'
  <1> DEFINE ended == [run[r] EXCEPT !.outcome = o, !.pc = "over"]
             over == [run[r] EXCEPT !.pc = "over"]
  <1>1. run[r] \in RunState /\ Fits(run[r])
    BY RunsTyped
  <1>2. "none" \notin Outcome /\ "open" \notin Outcome
    BY DEF Outcome, Failure
  <1>3. CASE Live(r)
    <2>1. ended \in RunState /\ Fits(ended)
      BY <1>1, <1>2 DEF RunState, Fits, Pc, Awaiting
    <2>2. run' = [run EXCEPT ![r] = ended]
      BY <1>3 DEF Finish, Inv, TypeOK
    <2>3. RestOK'
      <3>1. said' \in [text : {"", "T-16", "T-17"}, run : 0 .. MaxRuns]
        <4>1. said' = [text |-> IF o = "images" THEN "T-17" ELSE "", run |-> r]
          BY <1>3 DEF Finish
        <4> QED
          BY <4>1, RunInRange
      <3>2. Absorb(r, o)
        BY <1>3 DEF Finish
      <3> QED
        BY <3>1, <3>2, AbsorbTyped DEF RestOK, Inv
    <2> QED
      BY <2>1, <2>2, <2>3, RunChanges
  <1>4. CASE ~Live(r)
    <2>1. over \in RunState
      BY <1>1 DEF RunState, Pc
    <2>a. over.outcome = run[r].outcome /\ over.pc = "over"
      BY <1>1 DEF RunState
    <2>b. Fits(over)
      BY <2>a, <1>4 DEF Fits, Live
    <2>2. run' = [run EXCEPT ![r] = over]
      BY <1>4 DEF Finish, Inv, TypeOK
    <2>3. RestOK'
      BY <1>4 DEF Finish, RestOK, Inv, TypeOK, memVars, dbVars
    <2> QED
      BY <2>1, <2>2, <2>3, <2>b, RunChanges
  <1> QED
    BY <1>3, <1>4

(* So does a finish() from the timer or the cancel listener. *)
LEMMA InterruptKeeps ==
  ASSUME Inv, NEW r \in Run, NEW o \in Outcome, Live(r), Interrupt(r, o), FilesOK'
  PROVE  Inv'
  <1> DEFINE ended == [run[r] EXCEPT !.outcome = o]
  <1>1. run[r] \in RunState /\ Fits(run[r])
    BY RunsTyped
  <1>2. "none" \notin Outcome /\ "open" \notin Outcome
    BY DEF Outcome, Failure
  <1>3. /\ ended \in RunState /\ Fits(ended)
    <2>1. ended \in RunState
      BY <1>1 DEF RunState
    <2>2. /\ ended.outcome = o /\ ended.pc = run[r].pc /\ ended.calls = run[r].calls
          /\ ended.stored = run[r].stored /\ ended.sent = run[r].sent
      BY <1>1 DEF RunState
    <2>3. run[r].pc \in Awaiting
      BY <1>1 DEF Fits, Live
    <2> QED
      BY <1>1, <1>2, <2>1, <2>2, <2>3 DEF Fits, Awaiting
  <1>4. run' = [run EXCEPT ![r] = ended]
    BY DEF Interrupt, Inv, TypeOK
  <1>5. RestOK'
    <2>1. said' \in [text : {"", "T-16", "T-17"}, run : 0 .. MaxRuns]
      BY RunInRange DEF Interrupt
    <2> QED
      BY <2>1, AbsorbTyped DEF Interrupt, RestOK, Inv
  <1> QED
    BY <1>3, <1>4, <1>5, RunChanges

(* A step that only moves a run keeps the invariant when its new place fits. *)
LEMMA GoesOnKeeps ==
  ASSUME Inv, NEW r \in Run, NEW s \in RunState, Fits(s), GoesOn(r, s), FilesOK'
  PROVE  Inv'
  BY RunChanges DEF GoesOn, RestOK, Inv, TypeOK, memVars, dbVars

(* Replacing uris leaves uris. *)
LEMMA ReplacedTyped ==
  ASSUME NEW uris \in SUBSET Uri, NEW old, NEW fresh \in SUBSET Uri
  PROVE  Replaced(uris, old, fresh) \subseteq Uri
  BY DEF Replaced

-----------------------------------------------------------------------------
(* Every step keeps Inv. *)

USE DEF RunState, Fits

(* A new user action keeps the invariant (run). *)
LEMMA StartKeeps == ASSUME Inv, NEW r \in Run, Start(r) PROVE Inv'
  <1> DEFINE s == [IdleRun EXCEPT !.pc = "generating", !.outcome = "open",
                                  !.sent = shown \cup draft, !.calls = 1]
  <1>1. s \in RunState /\ Fits(s)
    <2>1. shown \cup draft \subseteq Uri
      BY DEF Inv, TypeOK
    <2>2. IdleRun \in RunState /\ 1 \in 0 .. 2
      BY IdleFits
    <2>3. s \in RunState
      BY <2>1, <2>2 DEF Pc
    <2>4. s.outcome = "open" /\ s.pc = "generating" /\ s.calls = 1
      BY <2>2
    <2> QED
      BY <2>3, <2>4 DEF Awaiting
  <1>2. run' = [run EXCEPT ![r] = s]
    BY DEF Start
  <1>3. said' \in [text : {"", "T-16", "T-17"}, run : 0 .. MaxRuns]
    BY RunInRange DEF Start
  <1>4. UNCHANGED <<shown, draft, rows, bytes, inStore, uploads, gone>>
    BY DEF Start, memVars, dbVars, fileVars
  <1>5. RestOK'
    BY <1>3, <1>4 DEF RestOK, Inv, TypeOK
  <1>6. FilesOK'
    BY <1>4 DEF FilesOK, Inv, TypeOK
  <1> QED
    BY <1>1, <1>2, <1>5, <1>6, RunChanges

(* The uris given out stay as they are in the steps that leave them alone. *)
LEMMA FilesStay == ASSUME Inv, UNCHANGED fileVars PROVE FilesOK'
  BY DEF Inv, TypeOK, FilesOK, fileVars

(* An open action was started. *)
LEMMA LiveIsOpen == ASSUME NEW r, Live(r) PROVE run[r].outcome # "none"
  BY DEF Live

(* Every step that ends a run keeps the invariant. *)
LEMMA EndsKeep ==
  ASSUME Inv, NEW r \in Run,
         \/ Deadline(r) \/ Cancel(r) \/ LateAnswer(r) \/ GenerateFails(r)
         \/ UploadFails(r) \/ Rejected(r) \/ Verified(r)
  PROVE  Inv'
  <1>0. FilesOK'
    BY FilesStay DEF Deadline, Cancel, LateAnswer, GenerateFails, UploadFails, Rejected, Verified
  <1>1. {"timeout", "cancelled", "discarded", "blocked", "lost", "refused", "images", "reply"}
          \subseteq Outcome
    BY DEF Outcome, Failure
  <1>2. "none" \notin Outcome
    BY DEF Outcome, Failure
  <1>3. CASE Deadline(r)
    BY <1>0, <1>1, <1>3, InterruptKeeps DEF Deadline
  <1>4. CASE Cancel(r)
    BY <1>0, <1>1, <1>4, InterruptKeeps DEF Cancel
  <1>5. CASE LateAnswer(r)
    BY <1>0, <1>1, <1>2, <1>5, FinishKeeps DEF LateAnswer
  <1>6. CASE GenerateFails(r)
    BY <1>0, <1>1, <1>6, FinishKeeps, LiveIsOpen DEF GenerateFails
  <1>7. CASE UploadFails(r)
    BY <1>0, <1>1, <1>7, FinishKeeps, LiveIsOpen DEF UploadFails
  <1>8. CASE Rejected(r)
    BY <1>0, <1>1, <1>8, FinishKeeps, LiveIsOpen DEF Rejected
  <1>9. CASE Verified(r)
    <2>1. run[r].reply \in {"images", "reply"}
      BY RunsTyped
    <2> DEFINE o == IF inStore THEN run[r].reply ELSE "discarded"
    <2>2. o \in Outcome
      BY <2>1, <1>1
    <2>3. Finish(r, o) /\ Live(r)
      BY <1>9 DEF Verified
    <2> HIDE DEF o
    <2> QED
      BY <1>0, <2>2, <2>3, FinishKeeps, LiveIsOpen
  <1> QED
    BY <1>3, <1>4, <1>5, <1>6, <1>7, <1>8, <1>9

(* A 200 keeps the invariant (succeed up to the existence check). *)
LEMMA GenerateAnswersKeeps == ASSUME Inv, NEW r \in Run, GenerateAnswers(r) PROVE Inv'
  <1>0. FilesOK'
    BY FilesStay DEF GenerateAnswers
  <1>1. PICK reply \in {"images", "reply"} :
          GoesOn(r, [run[r] EXCEPT !.pc = "verifying", !.reply = reply])
    BY DEF GenerateAnswers
  <1> DEFINE s == [run[r] EXCEPT !.pc = "verifying", !.reply = reply]
  <1>2. run[r] \in RunState /\ Fits(run[r]) /\ run[r].outcome = "open"
    BY RunsTyped DEF GenerateAnswers, Live
  <1>3. s \in RunState /\ Fits(s)
    BY <1>2 DEF Pc, Awaiting
  <1> QED
    BY <1>0, <1>1, <1>3, GoesOnKeeps

(* 410 FILE_MISSING keeps the invariant (handle). *)
LEMMA FileMissingKeeps == ASSUME Inv, NEW r \in Run, FileMissing(r) PROVE Inv'
  <1>0. FilesOK' /\ "missing" \in Outcome
    BY FilesStay DEF FileMissing, Outcome, Failure
  <1>1. CASE run[r].pc = "generating"
    <2> DEFINE s == [run[r] EXCEPT !.pc = "reading"]
    <2>1. GoesOn(r, s)
      BY <1>1 DEF FileMissing
    <2>2. run[r] \in RunState /\ Fits(run[r]) /\ run[r].outcome = "open"
      BY RunsTyped DEF FileMissing, Live
    <2>3. s \in RunState /\ Fits(s)
      BY <1>1, <2>2 DEF Pc, Awaiting
    <2> QED
      BY <1>0, <2>1, <2>3, GoesOnKeeps
  <1>2. CASE run[r].pc # "generating"
    BY <1>0, <1>2, FinishKeeps, LiveIsOpen DEF FileMissing
  <1> QED
    BY <1>1, <1>2

(* Uploading starts with all of the bytes: reading keeps the invariant (recover). *)
LEMMA BytesReadKeeps == ASSUME Inv, NEW r \in Run, BytesRead(r) PROVE Inv'
  <1>0. FilesOK' /\ "missing" \in Outcome
    BY FilesStay DEF BytesRead, Outcome, Failure
  <1>1. run[r] \in RunState /\ Fits(run[r]) /\ run[r].outcome = "open" /\ run[r].pc = "reading"
    BY RunsTyped DEF BytesRead, Live
  <1>2. PICK u \in run[r].sent \ run[r].stored :
          IF u \notin bytes
          THEN Finish(r, "missing")
          ELSE LET stored == run[r].stored \cup {u} IN
               GoesOn(r, [run[r] EXCEPT
                 !.stored = stored,
                 !.pc = IF stored = run[r].sent THEN "uploading" ELSE "reading"])
    BY DEF BytesRead
  <1>3. CASE u \notin bytes
    BY <1>0, <1>1, <1>2, <1>3, FinishKeeps
  <1>4. CASE u \in bytes
    <2> DEFINE found == run[r].stored \cup {u}
               s == [run[r] EXCEPT
                      !.stored = found,
                      !.pc = IF found = run[r].sent THEN "uploading" ELSE "reading"]
    <2>1. GoesOn(r, s)
      BY <1>2, <1>4
    <2>2. found \subseteq Uri
      BY <1>1
    <2>3. s \in RunState
      BY <1>1, <2>2 DEF Pc
    <2>4. Fits(s)
      <3>1. s.outcome = "open" /\ s.calls = 1
        BY <1>1
      <3>2. s.stored = found /\ s.sent = run[r].sent
        <4>1. "stored" \in DOMAIN run[r]
          BY <1>1
        <4> HIDE DEF found
        <4>2. s.stored = found
          BY <4>1, <1>1, Zenon
        <4>3. s.sent = run[r].sent
          BY <1>1, Zenon
        <4> QED
          BY <4>2, <4>3
      <3>3. s.pc \in {"uploading", "reading"} /\ (s.pc = "uploading" => found = run[r].sent)
        <4> HIDE DEF found
        <4>1. s.pc = IF found = run[r].sent THEN "uploading" ELSE "reading"
          BY <1>1, Zenon
        <4> HIDE DEF s
        <4> QED
          BY <4>1
      <3> HIDE DEF s, found
      <3> QED
        BY <3>1, <3>2, <3>3 DEF Awaiting, Pc
    <2> QED
      BY <1>0, <2>1, <2>3, <2>4, GoesOnKeeps
  <1> QED
    BY <1>3, <1>4

(* The repeat is the second call and no third one follows (recover). *)
LEMMA RemappedKeeps == ASSUME Inv, NEW r \in Run, Remapped(r) PROVE Inv'
  <1>0. FilesOK'
    BY FilesStay DEF Remapped
  <1>1. /\ run[r] \in RunState /\ Fits(run[r]) /\ run[r].outcome = "open"
        /\ run[r].pc = "remapping"
    BY RunsTyped DEF Remapped, Live
  <1> DEFINE s == [run[r] EXCEPT !.pc = "repeating", !.sent = run[r].fresh, !.calls = @ + 1]
  <1>2. GoesOn(r, s)
    BY DEF Remapped
  <1>3. s \in RunState /\ Fits(s)
    <2>1. run[r].calls = 1 /\ 1 + 1 = 2 /\ 2 \in 0 .. 2
      BY <1>1
    <2>2. /\ s.outcome = "open" /\ s.pc = "repeating"
      BY <1>1
    <2>3. s \in RunState
      BY <1>1, <2>1 DEF Pc
    <2> QED
      BY <2>2, <2>3 DEF Awaiting
  <1> QED
    BY <1>0, <1>2, <1>3, GoesOnKeeps

(* An upload and the remap of the last one keep the invariant (recover). *)
LEMMA UploadedKeeps == ASSUME Inv, NEW r \in Run, Uploaded(r) PROVE Inv'
  <1>1. /\ run[r] \in RunState /\ Fits(run[r]) /\ run[r].outcome = "open"
        /\ run[r].pc = "uploading"
    BY RunsTyped DEF Uploaded, Live
  <1>2. PICK p \in Pics(run[r].stored) \ Pics(run[r].fresh) :
          /\ uploads[p] < MaxUris
          /\ uploads' = [uploads EXCEPT ![p] = @ + 1]
          /\ LET fresh == run[r].fresh \cup {[pic |-> p, nth |-> uploads[p]]}
                 last == Pics(fresh) = Pics(run[r].stored)
             IN  \E resolves \in BOOLEAN :
                   /\ run' = [run EXCEPT ![r].fresh = fresh,
                                         ![r].remapped = last /\ resolves,
                                         ![r].pc = IF last THEN "remapping" ELSE "uploading"]
                   /\ IF last /\ resolves THEN Remap(run[r].stored, fresh)
                                          ELSE UNCHANGED <<rows, bytes>>
    BY DEF Uploaded
  <1> DEFINE fresh == run[r].fresh \cup {[pic |-> p, nth |-> uploads[p]]}
             last == Pics(fresh) = Pics(run[r].stored)
  <1>3. PICK resolves \in BOOLEAN :
          /\ run' = [run EXCEPT ![r].fresh = fresh,
                                ![r].remapped = last /\ resolves,
                                ![r].pc = IF last THEN "remapping" ELSE "uploading"]
          /\ IF last /\ resolves THEN Remap(run[r].stored, fresh)
                                 ELSE UNCHANGED <<rows, bytes>>
    BY <1>2
  <1>4. p \in Picture /\ fresh \subseteq Uri /\ uploads' \in [Picture -> 0 .. MaxUris]
    <2>1. p \in Picture
      BY <1>1, <1>2 DEF Pics, Uri
    <2>2. uploads[p] \in 0 .. MaxUris - 1 /\ uploads[p] + 1 \in 0 .. MaxUris
      <3>1. uploads[p] \in 0 .. MaxUris /\ uploads[p] < MaxUris
        BY <1>2, <2>1 DEF Inv, TypeOK
      <3>2. MaxUris \in Nat
        BY RunnerAssumption
      <3> QED
        BY <3>1, <3>2
    <2>3. [pic |-> p, nth |-> uploads[p]] \in Uri
      BY <2>1, <2>2 DEF Uri
    <2>4. uploads' \in [Picture -> 0 .. MaxUris]
      BY <1>2, <2>1, <2>2 DEF Inv, TypeOK
    <2> QED
      BY <1>1, <2>1, <2>3, <2>4
  <1> DEFINE s == [run[r] EXCEPT !.fresh = fresh, !.remapped = last /\ resolves,
                                 !.pc = IF last THEN "remapping" ELSE "uploading"]
  <1>5. rows' \subseteq Uri /\ bytes' \subseteq Uri
    <2>1. rows \subseteq Uri /\ bytes \subseteq Uri
      BY DEF Inv, TypeOK
    <2>2. CASE last /\ resolves
      <3>1. /\ rows' = Replaced(rows, run[r].stored, fresh)
            /\ bytes' = Replaced(bytes, run[r].stored, fresh)
        BY <1>3, <2>2 DEF Remap
      <3> QED
        BY <1>4, <2>1, <3>1, ReplacedTyped
    <2>3. CASE ~(last /\ resolves)
      BY <1>3, <2>1, <2>3
    <2> QED
      BY <2>2, <2>3
  <1>6. UNCHANGED <<said, shown, draft, inStore, gone>>
    BY DEF Uploaded, memVars
  <1> HIDE DEF fresh, last
  <1>7. s \in RunState /\ Fits(s)
    <2>1. (last /\ resolves) \in BOOLEAN
      BY DEF last
    <2>2. s \in RunState
      BY <1>1, <1>4, <2>1 DEF Pc
    <2>3. /\ s.outcome = run[r].outcome /\ s.calls = run[r].calls
          /\ s.stored = run[r].stored /\ s.sent = run[r].sent
          /\ s.pc \in {"remapping", "uploading"}
      BY <1>1
    <2> QED
      BY <1>1, <2>2, <2>3 DEF Awaiting
  <1>8. run' = [run EXCEPT ![r] = s]
    BY <1>3 DEF Inv, TypeOK
  <1>9. RestOK' /\ FilesOK'
    BY <1>4, <1>5, <1>6 DEF RestOK, FilesOK, Inv, TypeOK
  <1> QED
    BY <1>7, <1>8, <1>9, RunChanges

(* The composer, the session's end and the provider leave the runs alone. *)
LEMMA AroundKeeps ==
  ASSUME Inv,
         \/ \E p \in Picture : Attach(p)
         \/ \E u \in Uri : RemoveAttachment(u) \/ FileExpires(u)
         \/ SessionGone
  PROVE  Inv'
  <1>1. run' = run /\ said' = said
    BY DEF Attach, RemoveAttachment, FileExpires, SessionGone
  <1>2. CASE \E p \in Picture : Attach(p)
    <2>1. PICK p \in Picture : Attach(p)
      BY <1>2
    <2>2. [pic |-> p, nth |-> 0] \in Uri /\ 1 \in 0 .. MaxUris
      BY RunnerAssumption DEF Uri
    <2>3. uploads' \in [Picture -> 0 .. MaxUris]
      BY <2>1, <2>2 DEF Attach, Inv, TypeOK
    <2>4. draft' \subseteq Uri /\ bytes' \subseteq Uri
      BY <2>1, <2>2 DEF Attach, Inv, TypeOK
    <2> QED
      BY <1>1, <2>1, <2>3, <2>4 DEF Attach, Inv, TypeOK, RunsFit
  <1>3. CASE \E u \in Uri : RemoveAttachment(u)
    BY <1>1, <1>3 DEF RemoveAttachment, Inv, TypeOK, RunsFit, dbVars, fileVars
  <1>4. CASE \E u \in Uri : FileExpires(u)
    BY <1>1, <1>4 DEF FileExpires, Inv, TypeOK, RunsFit, dbVars, memVars
  <1>5. CASE SessionGone
    BY <1>1, <1>5 DEF SessionGone, Inv, TypeOK, RunsFit, memVars, fileVars
  <1> QED
    BY <1>2, <1>3, <1>4, <1>5

(* The invariant is inductive. *)
LEMMA NextKeeps == ASSUME Inv, [Next]_vars PROVE Inv'
  <1>1. CASE UNCHANGED vars
    BY <1>1 DEF vars, memVars, dbVars, fileVars, Inv, TypeOK, RunsFit
  <1>2. CASE \E r \in Run : Step(r)
    BY <1>2, StartKeeps, EndsKeep, GenerateAnswersKeeps, FileMissingKeeps, BytesReadKeeps,
       UploadedKeeps, RemappedKeeps DEF Step
  <1>3. CASE ~(\E r \in Run : Step(r)) /\ Next
    BY <1>3, AroundKeeps DEF Next
  <1> QED
    BY <1>1, <1>2, <1>3

(* The invariant holds in every reachable state. *)
LEMMA Invariance == Spec => []Inv
  BY InitInv, NextKeeps, PTL DEF Spec

(* Every variable of the runner's model keeps its type. *)
THEOREM RunnerTypeCorrect == Spec => []TypeOK
  BY Invariance, PTL DEF Inv
-----------------------------------------------------------------------------
(* Uploads. *)

USE DEF UploadsWhenAllStored

(* Ending a run leaves the mapping of every run as it is. *)
LEMMA FreshKept ==
  ASSUME Inv, NEW q \in Run, NEW o, Finish(q, o) \/ Interrupt(q, o)
  PROVE  \A x \in Run : run'[x].fresh = run[x].fresh
  <1>1. run \in [Run -> RunState]
    BY DEF Inv, TypeOK
  <1>2. CASE Finish(q, o) /\ Live(q)
    <2>1. run' = [run EXCEPT ![q].outcome = o, ![q].pc = "over"]
      BY <1>2 DEF Finish
    <2> QED
      BY <1>1, <2>1
  <1>3. CASE Finish(q, o) /\ ~Live(q)
    BY <1>1, <1>3 DEF Finish
  <1>4. CASE Interrupt(q, o)
    BY <1>1, <1>4 DEF Interrupt
  <1> QED
    BY <1>2, <1>3, <1>4

(* So does a step of one run that keeps its own mapping. *)
LEMMA OthersKept ==
  ASSUME Inv, NEW q \in Run, NEW s, run' = [run EXCEPT ![q] = s], s.fresh = run[q].fresh
  PROVE  \A x \in Run : run'[x].fresh = run[x].fresh
  BY DEF Inv, TypeOK

(* No step of a run but an upload changes a mapping (recover). *)
LEMMA OnlyUploadsAddUris ==
  ASSUME Inv, NEW q \in Run, Step(q), ~Uploaded(q)
  PROVE  \A x \in Run : run'[x].fresh = run[x].fresh
  <1>0. run[q] \in RunState /\ Fits(run[q])
    BY RunsTyped
  <1>1. CASE Start(q)
    <2> DEFINE s == [IdleRun EXCEPT !.pc = "generating", !.outcome = "open",
                                    !.sent = shown \cup draft, !.calls = 1]
    <2>1. run[q] = IdleRun
      BY <1>0, <1>1 DEF Start
    <2>2. s.fresh = IdleRun.fresh
      BY IdleFits
    <2>3. run' = [run EXCEPT ![q] = s]
      BY <1>1 DEF Start
    <2> HIDE DEF s
    <2> QED
      BY <2>1, <2>2, <2>3, OthersKept
  <1>2. CASE \/ Deadline(q) \/ Cancel(q) \/ LateAnswer(q) \/ GenerateFails(q)
             \/ UploadFails(q) \/ Rejected(q) \/ Verified(q)
    BY <1>2, FreshKept
       DEF Deadline, Cancel, LateAnswer, GenerateFails, UploadFails, Rejected, Verified
  <1>3. CASE GenerateAnswers(q)
    <2>1. PICK reply \in {"images", "reply"} :
            GoesOn(q, [run[q] EXCEPT !.pc = "verifying", !.reply = reply])
      BY <1>3 DEF GenerateAnswers
    <2> QED
      BY <1>0, <2>1, OthersKept DEF GoesOn
  <1>4. CASE FileMissing(q)
    <2>1. CASE GoesOn(q, [run[q] EXCEPT !.pc = "reading"])
      BY <1>0, <2>1, OthersKept DEF GoesOn
    <2>2. CASE Finish(q, "missing")
      BY <2>2, FreshKept
    <2> QED
      BY <1>4, <2>1, <2>2 DEF FileMissing
  <1>5. CASE BytesRead(q)
    <2>1. PICK u : IF u \notin bytes
                   THEN Finish(q, "missing")
                   ELSE LET stored == run[q].stored \cup {u} IN
                        GoesOn(q, [run[q] EXCEPT
                          !.stored = stored,
                          !.pc = IF stored = run[q].sent THEN "uploading" ELSE "reading"])
      BY <1>5 DEF BytesRead
    <2>2. CASE u \notin bytes
      BY <2>1, <2>2, FreshKept
    <2>3. CASE u \in bytes
      <3> DEFINE found == run[q].stored \cup {u}
                 at == IF found = run[q].sent THEN "uploading" ELSE "reading"
                 s == [run[q] EXCEPT !.stored = found, !.pc = at]
      <3>1. run' = [run EXCEPT ![q] = s]
        BY <2>1, <2>3 DEF GoesOn
      <3> HIDE DEF found, at
      <3>2. s.fresh = run[q].fresh
        BY <1>0, Zenon
      <3> HIDE DEF s
      <3> QED
        BY <3>1, <3>2, OthersKept
    <2> QED
      BY <2>2, <2>3
  <1>6. CASE Remapped(q)
    <2> DEFINE s == [run[q] EXCEPT !.pc = "repeating", !.sent = run[q].fresh, !.calls = @ + 1]
    <2>1. run' = [run EXCEPT ![q] = s] /\ s.fresh = run[q].fresh
      BY <1>0, <1>6 DEF Remapped, GoesOn
    <2> HIDE DEF s
    <2> QED
      BY <2>1, OthersKept
  <1> QED
    BY <1>1, <1>2, <1>3, <1>4, <1>5, <1>6 DEF Step

(* An upload adds to the mapping, in an open action that has read all bytes. *)
LEMMA UploadedAdds ==
  ASSUME Inv, NEW q \in Run, Uploaded(q)
  PROVE  \A x \in Run : run'[x].fresh # run[x].fresh =>
           Live(x) /\ run[x].stored = run[x].sent /\ run[x].fresh \subseteq run'[x].fresh
  <1>1. run \in [Run -> RunState] /\ Fits(run[q]) /\ run[q].pc = "uploading" /\ Live(q)
    BY RunsTyped DEF Uploaded, Inv, TypeOK
  <1>2. run[q].stored = run[q].sent
    BY <1>1
  <1>3. PICK p, resolves :
          LET fresh == run[q].fresh \cup {[pic |-> p, nth |-> uploads[p]]}
              last == Pics(fresh) = Pics(run[q].stored)
          IN  run' = [run EXCEPT ![q].fresh = fresh,
                                 ![q].remapped = last /\ resolves,
                                 ![q].pc = IF last THEN "remapping" ELSE "uploading"]
    BY Zenon DEF Uploaded
  <1> DEFINE fresh == run[q].fresh \cup {[pic |-> p, nth |-> uploads[p]]}
             last == Pics(fresh) = Pics(run[q].stored)
             remapped == last /\ resolves
             at == IF last THEN "remapping" ELSE "uploading"
  <1>4. run[q].fresh \subseteq run'[q].fresh /\ \A x \in Run \ {q} : run'[x] = run[x]
    <2>1. run' = [run EXCEPT ![q].fresh = fresh, ![q].remapped = remapped, ![q].pc = at]
      BY <1>3
    <2>2. run[q].fresh \subseteq fresh
      OBVIOUS
    <2> HIDE DEF fresh, remapped, at
    <2>3. run'[q].fresh = fresh /\ \A x \in Run \ {q} : run'[x] = run[x]
      BY <1>1, <2>1
    <2> QED
      BY <2>2, <2>3
  <1> QED
    BY <1>1, <1>2, <1>3, <1>4

(* Nothing is uploaded again before the bytes of every uri of the request  *)
(* were found, and nothing after the action ended, for any number of       *)
(* pictures and of actions that are still in flight (recover, l.184-213).  *)
THEOREM NoUploadTooEarly == Spec => UploadsWhenAllStored
  <1>1. ASSUME Inv, [Next]_vars
        PROVE  [\A r \in Run : run'[r].fresh # run[r].fresh =>
                  Live(r) /\ run[r].stored = run[r].sent
                    /\ run[r].fresh \subseteq run'[r].fresh]_vars
    <2>1. CASE \E q \in Run : Step(q)
      BY <1>1, <2>1, OnlyUploadsAddUris, UploadedAdds
    <2>2. CASE run' = run
      BY <2>2
    <2>3. CASE UNCHANGED vars
      BY <2>3
    <2> QED
      BY <1>1, <2>1, <2>2, <2>3
         DEF Next, Attach, RemoveAttachment, FileExpires, SessionGone
  <1> QED
    BY <1>1, Invariance, PTL DEF Spec

-----------------------------------------------------------------------------
(* The runner implements OneOutcome. *)

(* Both specifications have the same runs and outcomes. *)
LEMMA SameRuns == Promise!Run = Run /\ Promise!Outcome = Outcome
  BY DEF Promise!Run, Run, Promise!Outcome, Outcome, Promise!Failure, Failure

(* Ending an open run with an outcome is End of the promise. *)
LEMMA EndImplements ==
  ASSUME Inv, NEW r \in Run, NEW o \in Outcome, Live(r),
         run'[r].outcome = o, \A x \in Run \ {r} : run'[x].outcome = run[x].outcome,
         said' = [text |-> IF o = "images" THEN "T-17" ELSE "", run |-> r]
  PROVE  Promise!Next
  <1>1. Promise!Open(r)
    BY DEF Promise!Open, Live
  <1>2. [x \in Run |-> run'[x].outcome] = [[x \in Run |-> run[x].outcome] EXCEPT ![r] = o]
    OBVIOUS
  <1>3. Promise!End(r)
    BY <1>1, <1>2, SameRuns DEF Promise!End
  <1> QED
    BY <1>3, SameRuns DEF Promise!Next

(* A step that leaves outcomes and live region alone does not show in the promise. *)
LEMMA Stutters ==
  ASSUME said' = said, \A x \in Run : run'[x].outcome = run[x].outcome
  PROVE  UNCHANGED Promise!vars
  BY DEF Promise!vars

(* finish() is End of the promise, or nothing when it comes too late. *)
LEMMA FinishImplements ==
  ASSUME Inv, NEW r \in Run, NEW o \in Outcome, Finish(r, o)
  PROVE  [Promise!Next]_Promise!vars
  <1>1. run \in [Run -> RunState]
    BY DEF Inv, TypeOK
  <1>2. CASE Live(r)
    <2>1. run' = [run EXCEPT ![r].outcome = o, ![r].pc = "over"]
      BY <1>2 DEF Finish
    <2>2. run'[r].outcome = o /\ \A x \in Run \ {r} : run'[x].outcome = run[x].outcome
      BY <1>1, <2>1
    <2>3. said' = [text |-> IF o = "images" THEN "T-17" ELSE "", run |-> r]
      BY <1>2 DEF Finish
    <2> QED
      BY <1>2, <2>2, <2>3, EndImplements
  <1>3. CASE ~Live(r)
    <2>1. run' = [run EXCEPT ![r].pc = "over"] /\ said' = said
      BY <1>3 DEF Finish
    <2>2. \A x \in Run : run'[x].outcome = run[x].outcome
      BY <1>1, <2>1
    <2> QED
      BY <2>1, <2>2, Stutters
  <1> QED
    BY <1>2, <1>3

(* The timer and the cancel listener are End of the promise. *)
LEMMA InterruptImplements ==
  ASSUME Inv, NEW r \in Run, NEW o \in Outcome, o # "images", Live(r), Interrupt(r, o)
  PROVE  Promise!Next
  <1>1. run \in [Run -> RunState]
    BY DEF Inv, TypeOK
  <1>2. run'[r].outcome = o /\ \A x \in Run \ {r} : run'[x].outcome = run[x].outcome
    BY <1>1 DEF Interrupt
  <1>3. said' = [text |-> IF o = "images" THEN "T-17" ELSE "", run |-> r]
    BY DEF Interrupt
  <1> QED
    BY <1>2, <1>3, EndImplements

(* run() is Begin of the promise. *)
LEMMA StartImplements ==
  ASSUME Inv, NEW r \in Run, Start(r)
  PROVE  Promise!Next
  <1> DEFINE s == [IdleRun EXCEPT !.pc = "generating", !.outcome = "open",
                                  !.sent = shown \cup draft, !.calls = 1]
  <1>1. run' = [run EXCEPT ![r] = s] /\ said' = [text |-> "T-16", run |-> r]
    BY DEF Start
  <1>2. s.outcome = "open"
    BY IdleFits
  <1> HIDE DEF s
  <1>3. [x \in Run |-> run'[x].outcome] = [[x \in Run |-> run[x].outcome] EXCEPT ![r] = "open"]
    BY <1>1, <1>2 DEF Inv, TypeOK
  <1>4. ~Promise!Started(r)
    BY DEF Promise!Started, Start
  <1>5. \A q \in Run : q < r => Promise!Started(q) /\ ~Promise!Open(q)
    <2>1. "none" \notin Outcome /\ "open" \notin Outcome
      BY DEF Outcome, Failure
    <2>2. \A q \in Run : q < r => run[q].outcome \in Outcome
      BY DEF Start
    <2> QED
      BY <2>1, <2>2 DEF Promise!Started, Promise!Open
  <1>6. Promise!Begin(r)
    BY <1>1, <1>3, <1>4, <1>5, SameRuns DEF Promise!Begin
  <1> QED
    BY <1>6, SameRuns DEF Promise!Next

(* Neither does what an open action does between its ends. *)
LEMMA SilentSteps ==
  ASSUME Inv, NEW r \in Run, GenerateAnswers(r) \/ Uploaded(r) \/ Remapped(r)
  PROVE  UNCHANGED Promise!vars
  <1>0. run[r] \in RunState /\ run \in [Run -> RunState]
    BY DEF Inv, TypeOK
  <1>1. CASE GenerateAnswers(r)
    <2>1. PICK reply \in {"images", "reply"} :
            run' = [run EXCEPT ![r] = [run[r] EXCEPT !.pc = "verifying", !.reply = reply]]
      BY <1>1 DEF GenerateAnswers, GoesOn
    <2>2. said' = said
      BY <1>1 DEF GenerateAnswers, GoesOn
    <2> QED
      BY <1>0, <2>1, <2>2, Stutters
  <1>2. CASE Uploaded(r)
    <2> DEFINE fresh(p) == run[r].fresh \cup {[pic |-> p, nth |-> uploads[p]]}
               last(p) == Pics(fresh(p)) = Pics(run[r].stored)
    <2>0. PICK p, resolves :
            run' = [run EXCEPT ![r].fresh = fresh(p), ![r].remapped = last(p) /\ resolves,
                               ![r].pc = IF last(p) THEN "remapping" ELSE "uploading"]
      BY <1>2, Zenon DEF Uploaded
    <2>1. PICK uris, remapped, at :
            run' = [run EXCEPT ![r].fresh = uris, ![r].remapped = remapped, ![r].pc = at]
      <3> HIDE DEF fresh, last
      <3> QED
        BY <2>0, Zenon
    <2>2. said' = said
      BY <1>2 DEF Uploaded
    <2> QED
      BY <1>0, <2>1, <2>2, Stutters
  <1>3. CASE Remapped(r)
    <2>1. run' = [run EXCEPT ![r] = [run[r] EXCEPT !.pc = "repeating", !.sent = run[r].fresh,
                                                  !.calls = @ + 1]]
      BY <1>3 DEF Remapped, GoesOn
    <2>2. said' = said
      BY <1>3 DEF Remapped, GoesOn
    <2> QED
      BY <1>0, <2>1, <2>2, Stutters
  <1> QED
    BY <1>1, <1>2, <1>3

(* Every step of a run is a step of the promise or does not show in it. *)
LEMMA StepImplements ==
  ASSUME Inv, NEW r \in Run, Step(r)
  PROVE  [Promise!Next]_Promise!vars
  <1>0. run[r] \in RunState /\ run \in [Run -> RunState]
    BY DEF Inv, TypeOK
  <1>1. {"timeout", "cancelled", "discarded", "blocked", "lost", "refused", "images", "reply",
         "missing"} \subseteq Outcome
    BY DEF Outcome, Failure
  <1>2. CASE Deadline(r) \/ Cancel(r)
    BY <1>1, <1>2, InterruptImplements DEF Deadline, Cancel
  <1>3. CASE LateAnswer(r) \/ GenerateFails(r) \/ UploadFails(r) \/ Rejected(r)
    BY <1>1, <1>3, FinishImplements DEF LateAnswer, GenerateFails, UploadFails, Rejected
  <1>4. CASE Verified(r)
    <2> DEFINE o == IF inStore THEN run[r].reply ELSE "discarded"
    <2>1. o \in Outcome
      BY <1>0, <1>1
    <2>2. Finish(r, o)
      BY <1>4 DEF Verified
    <2> HIDE DEF o
    <2> QED
      BY <2>1, <2>2, FinishImplements
  <1>5. CASE FileMissing(r)
    <2>1. CASE GoesOn(r, [run[r] EXCEPT !.pc = "reading"])
      <3>1. run' = [run EXCEPT ![r] = [run[r] EXCEPT !.pc = "reading"]] /\ said' = said
        BY <2>1 DEF GoesOn
      <3> QED
        BY <1>0, <3>1, Stutters
    <2>2. CASE Finish(r, "missing")
      BY <1>1, <2>2, FinishImplements
    <2> QED
      BY <1>5, <2>1, <2>2 DEF FileMissing
  <1>6. CASE BytesRead(r)
    <2>1. CASE Finish(r, "missing")
      BY <1>1, <2>1, FinishImplements
    <2>2. CASE ~Finish(r, "missing")
      <3>1. PICK found, at : GoesOn(r, [run[r] EXCEPT !.stored = found, !.pc = at])
        BY <1>6, <2>2, Zenon DEF BytesRead
      <3>2. run' = [run EXCEPT ![r] = [run[r] EXCEPT !.stored = found, !.pc = at]] /\ said' = said
        BY <3>1 DEF GoesOn
      <3> QED
        BY <1>0, <3>2, Stutters
    <2> QED
      BY <2>1, <2>2
  <1>7. CASE Start(r)
    BY <1>7, StartImplements
  <1> QED
    BY <1>2, <1>3, <1>4, <1>5, <1>6, <1>7, SilentSteps DEF Step

(* The runner implements OneOutcome, up to fairness: whatever is in flight *)
(* and in whatever order the answers, the deadline, Cancel and the storage *)
(* calls come, each action has one outcome and its announcements, and no   *)
(* late answer changes them (run, l.103-250).                              *)
THEOREM RunnerKeepsPromise == Spec => KeepsPromise
  <1>1. Init => Promise!Init
    <2> SUFFICES ASSUME Init PROVE Promise!Init
      OBVIOUS
    <2>1. [x \in Run |-> run[x].outcome] = [x \in Run |-> "none"]
      BY DEF Init, IdleRun
    <2> QED
      BY <2>1, SameRuns DEF Promise!Init, Init
  <1>2. ASSUME Inv, [Next]_vars PROVE [Promise!Next]_Promise!vars
    <2>1. CASE \E r \in Run : Step(r)
      BY <1>2, <2>1, StepImplements
    <2>2. CASE run' = run /\ said' = said
      BY <2>2 DEF Promise!vars
    <2> QED
      BY <1>2, <2>1, <2>2
         DEF Next, Attach, RemoveAttachment, FileExpires, SessionGone, vars
  <1> QED
    BY <1>1, <1>2, Invariance, PTL DEF Spec, KeepsPromise, Promise!Spec
-----------------------------------------------------------------------------
(* Which uri the page and IndexedDB know a picture by. *)

(* What the provider has given out; one uri for each picture; as IndexedDB   *)
(* keys the bytes.                                                           *)
Issued(S) == \A u \in S : u.nth < uploads[u.pic]
Single(S) == \A u, v \in S : u.pic = v.pic => u = v
Agree(S) == \A u \in S : u.pic \in Pics(bytes) => u \in bytes

(* Actions follow each other, so at most one is open.                        *)
OneByOne == \A q, r \in Run : q < r /\ run[r].outcome # "none" => run[q].outcome \in Outcome

(* The locals of an open action: what it sent is what the page shows, until  *)
(* its mapping is persisted; from then on it is the mapping.                 *)
Recovering(s) ==
  /\ Issued(s.sent) /\ Issued(s.fresh)
  /\ Single(s.fresh) /\ Pics(s.fresh) \subseteq Pics(s.stored)
  /\ s.pc \in {"reading", "uploading", "remapping"} => s.sent \cap gone # {} /\ s.fresh \cap s.sent = {}
  /\ s.pc \in {"generating", "reading"} => s.fresh = {} /\ s.stored \subseteq s.sent
  /\ s.pc \in {"generating", "reading", "uploading"} => ~s.remapped
  /\ s.pc = "repeating" => s.remapped
  /\ ~s.remapped => s.sent = shown \cup draft /\ (inStore => s.stored \subseteq bytes)
  /\ s.remapped => /\ Pics(s.fresh) = Pics(s.stored)
                   /\ s.pc # "remapping" => s.sent = s.fresh
                   /\ inStore => /\ s.fresh \subseteq bytes
                                 /\ \A u \in rows : u.pic \in Pics(s.fresh) => u \in s.fresh

(* A stored row whose bytes were taken over by another uri is on the page.   *)
RowsSeen == \A u \in rows : u.pic \in Pics(bytes) => u \in bytes \cup shown

(* No action that ended forgot its mapping.                                  *)
PastClean == \A r \in Run : run[r].remapped /\ run[r].outcome \in Outcome => run[r].outcome = "images"

Matching ==
  /\ Agree(rows)
  /\ (\A r \in Run : Live(r) => ~run[r].remapped) => Agree(shown \cup draft)

PageInv ==
  /\ OneByOne
  /\ Issued(rows \cup shown \cup draft \cup bytes)
  /\ \A r \in Run : Live(r) => Recovering(run[r])
  /\ inStore => Single(bytes) /\ RowsSeen /\ (PastClean => Matching)

(* Only one action is open.                                                  *)
LEMMA OneOpen ==
  ASSUME OneByOne, NEW q \in Run, NEW r \in Run, Live(q), Live(r)
  PROVE  q = r
  <1>1. "open" \notin Outcome /\ "open" # "none"
    BY DEF Outcome, Failure
  <1>2. ~(q < r) /\ ~(r < q)
    BY <1>1 DEF OneByOne, Live
  <1>3. q \in Nat /\ r \in Nat
    BY RunnerAssumption DEF Run
  <1> QED
    BY <1>2, <1>3

(* Actions keep their order while one of them goes on or ends.               *)
LEMMA OrderKept ==
  ASSUME OneByOne, NEW r \in Run, run[r].outcome # "none",
         \A q \in Run \ {r} : run'[q] = run[q],
         run'[r].outcome = run[r].outcome \/ run'[r].outcome \in Outcome
  PROVE  OneByOne'
  <1>1. \A q \in Run : run[q].outcome # "none" <=> run'[q].outcome # "none"
    BY DEF Outcome, Failure
  <1>2. \A q \in Run : run[q].outcome \in Outcome => run'[q].outcome \in Outcome
    OBVIOUS
  <1> QED
    BY <1>1, <1>2 DEF OneByOne

(* A step of an open action that leaves the page and the stores alone.       *)
LEMMA MovesOn ==
  ASSUME Inv, PageInv, NEW r \in Run, Live(r), \A q \in Run \ {r} : run'[q] = run[q],
         run'[r].outcome = "open", run'[r].remapped = run[r].remapped,
         UNCHANGED <<shown, draft, rows, bytes, inStore, uploads, gone>>, Recovering(run[r])'
  PROVE  PageInv'
  <1>1. OneByOne'
    BY LiveIsOpen, OrderKept DEF PageInv, Live
  <1>2. ASSUME NEW q \in Run, Live(q)' PROVE Recovering(run[q])'
    <2>1. Live(q)
      BY <1>2 DEF Live
    <2>2. q = r
      BY <2>1, OneOpen DEF PageInv
    <2> QED
      BY <2>2
  <1>3. Issued(rows \cup shown \cup draft \cup bytes)'
    BY DEF PageInv, Issued
  <1>4. PastClean' => PastClean
    BY DEF PastClean, Live
  <1>5. (\A q \in Run : Live(q)' => ~run'[q].remapped) => \A q \in Run : Live(q) => ~run[q].remapped
    BY DEF Live
  <1>6. Single(bytes)' <=> Single(bytes)
    BY DEF Single
  <1>7. RowsSeen' <=> RowsSeen
    BY DEF RowsSeen
  <1>8. PastClean /\ Matching => Matching'
    BY <1>5 DEF Matching, Agree
  <1> QED
    BY <1>1, <1>2, <1>3, <1>4, <1>6, <1>7, <1>8 DEF PageInv

(* The end of an open action.                                                *)
LEMMA EndsMatching ==
  ASSUME Inv, PageInv, NEW r \in Run, Live(r), NEW o \in Outcome,
         \A q \in Run \ {r} : run'[q] = run[q],
         run'[r].outcome = o, run'[r].remapped = run[r].remapped,
         Absorb(r, o), UNCHANGED fileVars, o = "images" => run[r].pc = "verifying"
  PROVE  PageInv'
  <1>1. OneByOne'
    BY LiveIsOpen, OrderKept DEF PageInv
  <1>2. \A q \in Run : ~Live(q)'
    <2> SUFFICES ASSUME NEW q \in Run, Live(q)' PROVE FALSE
      OBVIOUS
    <2>1. o # "open"
      BY DEF Outcome, Failure
    <2>2. q # r
      BY <2>1 DEF Live
    <2>3. Live(q)
      BY <2>2 DEF Live
    <2> QED
      BY <2>2, <2>3, OneOpen DEF PageInv
  <1>3. bytes' = bytes /\ inStore' = inStore /\ uploads' = uploads
    BY DEF Absorb, dbVars, fileVars
  <1>4. Recovering(run[r]) /\ Issued(run[r].sent) /\ run[r].sent \subseteq Uri
    BY RunsTyped DEF PageInv, Recovering
  <1>5. rows' \cup shown' \cup draft' \subseteq rows \cup shown \cup draft \cup run[r].sent
    BY DEF Absorb, memVars, dbVars
  <1>6. Issued(rows \cup shown \cup draft \cup bytes)'
    BY <1>3, <1>4, <1>5 DEF PageInv, Issued
  <1>7. ASSUME inStore PROVE Single(bytes)' /\ RowsSeen'
    <2>1. Single(bytes)' /\ RowsSeen
      BY <1>3, <1>7 DEF PageInv, Single
    <2>2. rows' \subseteq shown' \/ (rows' = rows /\ shown' = shown)
      BY DEF Absorb, memVars, dbVars
    <2> QED
      BY <1>3, <2>1, <2>2 DEF RowsSeen
  <1>8. ASSUME inStore, PastClean' PROVE Matching'
    <2>1. PastClean /\ (run[r].remapped => o = "images")
      <3>1. \A q \in Run \ {r} : run[q].remapped /\ run[q].outcome \in Outcome => run[q].outcome = "images"
        BY <1>8 DEF PastClean
      <3>2. run[r].outcome \notin Outcome
        BY DEF Live, Outcome, Failure
      <3>3. run[r].remapped => o = "images"
        BY <1>8 DEF PastClean
      <3> QED
        BY <3>1, <3>2, <3>3 DEF PastClean
    <2>2. Agree(rows) /\ (~run[r].remapped => Agree(shown \cup draft))
      <3>1. Matching
        BY <1>8, <2>1 DEF PageInv
      <3>2. \A q \in Run : Live(q) => q = r
        BY OneOpen DEF PageInv
      <3> QED
        BY <3>1, <3>2 DEF Matching
    <2>3. ~run[r].remapped => run[r].sent = shown \cup draft
      BY <1>4 DEF Recovering
    <2>4. o = "images" => Agree(run[r].sent)
      <3>1. CASE run[r].remapped /\ o = "images"
        BY <1>4, <1>8, <3>1 DEF Recovering, Agree
      <3>2. CASE ~run[r].remapped
        BY <2>2, <2>3, <3>2
      <3> QED
        BY <3>1, <3>2
    <2>5. CASE o = "images"
      <3>1. rows' \subseteq rows \cup run[r].sent /\ shown' = rows' /\ draft' = {}
        BY <2>5 DEF Absorb
      <3> QED
        BY <1>3, <2>2, <2>4, <2>5, <3>1 DEF Matching, Agree
    <2>6. CASE o # "images"
      <3>1. rows' = rows /\ shown' = shown /\ draft' \subseteq draft
        BY <2>6 DEF Absorb, memVars, dbVars
      <3> QED
        BY <1>3, <2>1, <2>2, <2>6, <3>1 DEF Matching, Agree
    <2> QED
      BY <2>5, <2>6
  <1> QED
    BY <1>1, <1>2, <1>3, <1>6, <1>7, <1>8 DEF PageInv

(* A run that is told too late changes nothing.                              *)
LEMMA LateMatching ==
  ASSUME Inv, PageInv, \A q \in Run : /\ run'[q].outcome = run[q].outcome
                                      /\ run'[q].remapped = run[q].remapped
                                      /\ Live(q) => run'[q] = run[q],
         UNCHANGED <<shown, draft, rows, bytes, inStore, uploads>>, gone \subseteq gone'
  PROVE  PageInv'
  <1>1. OneByOne' /\ (PastClean' <=> PastClean)
    BY DEF PageInv, OneByOne, PastClean
  <1>2. ASSUME NEW q \in Run, Live(q)' PROVE Recovering(run[q])'
    <2>1. Live(q) /\ Recovering(run[q]) /\ run'[q] = run[q]
      BY <1>2 DEF Live, PageInv
    <2> QED
      BY <2>1 DEF Recovering, Issued, Single
  <1>3. Issued(rows \cup shown \cup draft \cup bytes)' /\ (Single(bytes)' <=> Single(bytes))
        /\ (RowsSeen' <=> RowsSeen)
    BY DEF PageInv, Issued, Single, RowsSeen
  <1>4. Matching => Matching'
    BY DEF Matching, Agree, Live
  <1> QED
    BY <1>1, <1>2, <1>3, <1>4 DEF PageInv

LEMMA FinishMatches ==
  ASSUME Inv, PageInv, NEW r \in Run, NEW o \in Outcome, Finish(r, o), UNCHANGED fileVars,
         Live(r) /\ o = "images" => run[r].pc = "verifying"
  PROVE  PageInv'
  <1>1. run \in [Run -> RunState]
    BY DEF Inv, TypeOK
  <1>2. CASE Live(r)
    <2>1. run' = [run EXCEPT ![r].outcome = o, ![r].pc = "over"] /\ Absorb(r, o)
      BY <1>2 DEF Finish
    <2>2. /\ \A q \in Run \ {r} : run'[q] = run[q]
          /\ run'[r].outcome = o /\ run'[r].remapped = run[r].remapped
      BY <1>1, <2>1
    <2> QED
      BY <1>2, <2>1, <2>2, EndsMatching
  <1>3. CASE ~Live(r)
    <2>1. run' = [run EXCEPT ![r].pc = "over"] /\ UNCHANGED <<memVars, dbVars>>
      BY <1>3 DEF Finish
    <2>2. \A q \in Run : /\ run'[q].outcome = run[q].outcome
                         /\ run'[q].remapped = run[q].remapped
                         /\ Live(q) => run'[q] = run[q]
      BY <1>1, <1>3, <2>1
    <2> QED
      BY <2>1, <2>2, LateMatching DEF memVars, dbVars, fileVars
  <1> QED
    BY <1>2, <1>3

LEMMA InterruptMatches ==
  ASSUME Inv, PageInv, NEW r \in Run, NEW o \in Outcome, Live(r), Interrupt(r, o), UNCHANGED fileVars,
         o # "images"
  PROVE  PageInv'
  <1>1. run \in [Run -> RunState]
    BY DEF Inv, TypeOK
  <1>2. run' = [run EXCEPT ![r].outcome = o] /\ Absorb(r, o)
    BY DEF Interrupt
  <1>3. /\ \A q \in Run \ {r} : run'[q] = run[q]
        /\ run'[r].outcome = o /\ run'[r].remapped = run[r].remapped
    BY <1>1, <1>2
  <1> QED
    BY <1>2, <1>3, EndsMatching

(* run() takes what the page shows.                                          *)
LEMMA StartMatches == ASSUME Inv, PageInv, NEW r \in Run, Start(r) PROVE PageInv'
  <1> DEFINE s == [IdleRun EXCEPT !.pc = "generating", !.outcome = "open",
                                  !.sent = shown \cup draft, !.calls = 1]
  <1>1. /\ run' = [run EXCEPT ![r] = s] /\ run \in [Run -> RunState]
        /\ UNCHANGED <<shown, draft, rows, bytes, inStore, uploads, gone>>
        /\ run[r].outcome = "none" /\ \A q \in Run : q < r => run[q].outcome \in Outcome
    BY DEF Start, memVars, dbVars, fileVars, Inv, TypeOK
  <1>2. /\ s.pc = "generating" /\ s.outcome = "open" /\ s.sent = shown \cup draft
        /\ s.stored = {} /\ s.fresh = {} /\ s.remapped = FALSE
    BY DEF IdleRun
  <1> HIDE DEF s
  <1>3. run'[r] = s /\ \A q \in Run \ {r} : run'[q] = run[q]
    BY <1>1
  <1>4. "open" \notin Outcome /\ "none" \notin Outcome
    BY DEF Outcome, Failure
  <1>5. r \in Nat /\ Run \subseteq Nat
    BY RunnerAssumption DEF Run
  <1>6. \A q \in Run : ~Live(q)
    <2> SUFFICES ASSUME NEW q \in Run, Live(q) PROVE FALSE
      OBVIOUS
    <2>1. ~(q < r) /\ q # r
      BY <1>1, <1>4 DEF Live
    <2>2. r < q
      BY <1>5, <2>1
    <2> QED
      BY <1>1, <1>4, <2>2 DEF PageInv, OneByOne, Live
  <1>7. OneByOne'
    <2> SUFFICES ASSUME NEW q \in Run, NEW x \in Run, q < x, run'[x].outcome # "none"
                 PROVE  run'[q].outcome \in Outcome
      BY DEF OneByOne
    <2>1. CASE x = r
      BY <1>1, <1>3, <1>5, <2>1
    <2>2. CASE x # r
      <3>1. run[q].outcome \in Outcome
        BY <1>3, <2>2 DEF PageInv, OneByOne
      <3> QED
        BY <1>1, <1>3, <1>4, <3>1
    <2> QED
      BY <2>1, <2>2
  <1>8. ASSUME NEW q \in Run, Live(q)' PROVE Recovering(run[q])'
    <2>1. q = r
      BY <1>3, <1>6, <1>8 DEF Live
    <2>2. Issued(shown \cup draft)'
      BY <1>1 DEF PageInv, Issued
    <2>3. run'[q] = s
      BY <1>3, <2>1
    <2> QED
      BY <1>1, <1>2, <2>2, <2>3 DEF Recovering, Issued, Single, Pics
  <1>9. Issued(rows \cup shown \cup draft \cup bytes)' /\ (Single(bytes)' <=> Single(bytes))
        /\ (RowsSeen' <=> RowsSeen)
    BY <1>1 DEF PageInv, Issued, Single, RowsSeen
  <1>10. PastClean' => PastClean
    BY <1>1, <1>3, <1>4 DEF PastClean
  <1>11. Matching => Matching'
    BY <1>1, <1>6 DEF Matching, Agree
  <1> QED
    BY <1>1, <1>7, <1>8, <1>9, <1>10, <1>11 DEF PageInv

LEMMA GenerateAnswersMatches == ASSUME Inv, PageInv, NEW r \in Run, GenerateAnswers(r) PROVE PageInv'
  <1>1. PICK reply \in {"images", "reply"} :
          run' = [run EXCEPT ![r] = [run[r] EXCEPT !.pc = "verifying", !.reply = reply]]
    BY DEF GenerateAnswers, GoesOn
  <1>2. /\ UNCHANGED <<shown, draft, rows, bytes, inStore, uploads, gone>> /\ Live(r)
        /\ run[r].pc \in {"generating", "repeating"} /\ run \in [Run -> RunState]
    BY DEF GenerateAnswers, GoesOn, memVars, dbVars, fileVars, Inv, TypeOK
  <1>3. /\ \A q \in Run \ {r} : run'[q] = run[q]
        /\ run'[r].pc = "verifying" /\ run'[r].outcome = run[r].outcome
        /\ run'[r].sent = run[r].sent /\ run'[r].stored = run[r].stored
        /\ run'[r].fresh = run[r].fresh /\ run'[r].remapped = run[r].remapped
    BY <1>1, <1>2
  <1>4. Recovering(run[r])'
    <2>1. Recovering(run[r])
      BY <1>2 DEF PageInv
    <2> QED
      BY <1>2, <1>3, <2>1 DEF Recovering, Issued, Single
  <1> QED
    BY <1>2, <1>3, <1>4, MovesOn DEF Live

LEMMA FileMissingMatches == ASSUME Inv, PageInv, NEW r \in Run, FileMissing(r) PROVE PageInv'
  <1>1. CASE run[r].pc = "generating"
    <2>1. run' = [run EXCEPT ![r] = [run[r] EXCEPT !.pc = "reading"]]
      BY <1>1 DEF FileMissing, GoesOn
    <2>2. /\ UNCHANGED <<shown, draft, rows, bytes, inStore, uploads, gone>> /\ Live(r)
          /\ run \in [Run -> RunState] /\ run[r].sent \cap gone # {}
      BY <1>1 DEF FileMissing, GoesOn, memVars, dbVars, fileVars, Inv, TypeOK
    <2>3. /\ \A q \in Run \ {r} : run'[q] = run[q]
          /\ run'[r].pc = "reading" /\ run'[r].outcome = run[r].outcome
          /\ run'[r].sent = run[r].sent /\ run'[r].stored = run[r].stored
          /\ run'[r].fresh = run[r].fresh /\ run'[r].remapped = run[r].remapped
      BY <2>1, <2>2
    <2>4. Recovering(run[r])'
      <3>1. Recovering(run[r])
        BY <2>2 DEF PageInv
      <3> QED
        BY <1>1, <2>2, <2>3, <3>1 DEF Recovering, Issued, Single
    <2> QED
      BY <2>2, <2>3, <2>4, MovesOn DEF Live
  <1>2. CASE run[r].pc # "generating"
    <2>1. "missing" \in Outcome /\ "missing" # "images"
      BY DEF Outcome, Failure
    <2> QED
      BY <1>2, <2>1, FinishMatches DEF FileMissing
  <1> QED
    BY <1>1, <1>2

LEMMA BytesReadMatches == ASSUME Inv, PageInv, NEW r \in Run, BytesRead(r) PROVE PageInv'
  <1>1. PICK u \in run[r].sent \ run[r].stored :
          IF u \notin bytes
          THEN Finish(r, "missing")
          ELSE LET stored == run[r].stored \cup {u} IN
               GoesOn(r, [run[r] EXCEPT
                 !.stored = stored,
                 !.pc = IF stored = run[r].sent THEN "uploading" ELSE "reading"])
    BY DEF BytesRead
  <1>2. /\ Live(r) /\ run[r].pc = "reading" /\ UNCHANGED fileVars /\ run \in [Run -> RunState]
        /\ Recovering(run[r])
    BY DEF BytesRead, Inv, TypeOK, PageInv
  <1>3. CASE u \notin bytes
    <2>1. "missing" \in Outcome /\ "missing" # "images"
      BY DEF Outcome, Failure
    <2> QED
      BY <1>1, <1>2, <1>3, <2>1, FinishMatches
  <1>4. CASE u \in bytes
    <2>1. PICK found : found = run[r].stored \cup {u}
      OBVIOUS
    <2>2. PICK at : at = IF found = run[r].sent THEN "uploading" ELSE "reading"
      OBVIOUS
    <2>3. GoesOn(r, [run[r] EXCEPT !.stored = found, !.pc = at])
      BY <1>1, <1>4, <2>1, <2>2
    <2>4. UNCHANGED <<shown, draft, rows, bytes, inStore, uploads, gone>>
      BY <1>2, <2>3 DEF GoesOn, memVars, dbVars, fileVars
    <2>5. /\ \A q \in Run \ {r} : run'[q] = run[q]
          /\ run'[r].pc = at /\ run'[r].outcome = run[r].outcome
          /\ run'[r].sent = run[r].sent /\ run'[r].stored = found
          /\ run'[r].fresh = run[r].fresh /\ run'[r].remapped = run[r].remapped
      BY <1>2, <2>3 DEF GoesOn
    <2>6. /\ run[r].fresh = {} /\ ~run[r].remapped /\ found \subseteq run[r].sent
          /\ inStore => found \subseteq bytes
          /\ run[r].sent \cap gone # {} /\ run[r].sent = shown \cup draft /\ Issued(run[r].sent)
      BY <1>2, <1>4, <2>1 DEF Recovering
    <2>7. at \in {"uploading", "reading"}
      BY <2>2
    <2>8. Recovering(run[r])'
      BY <2>4, <2>5, <2>6, <2>7 DEF Recovering, Issued, Single, Pics
    <2> QED
      BY <1>2, <2>4, <2>5, <2>8, MovesOn DEF Live
  <1> QED
    BY <1>3, <1>4

LEMMA RemappedMatches == ASSUME Inv, PageInv, NEW r \in Run, Remapped(r) PROVE PageInv'
  <1>1. /\ run' = [run EXCEPT ![r] = [run[r] EXCEPT !.pc = "repeating", !.sent = run[r].fresh,
                                                    !.calls = @ + 1]]
        /\ UNCHANGED <<shown, draft, rows, bytes, inStore, uploads, gone>> /\ Live(r)
        /\ run[r].pc = "remapping" /\ run[r].remapped /\ run \in [Run -> RunState]
    BY DEF Remapped, GoesOn, memVars, dbVars, fileVars, Inv, TypeOK
  <1>2. /\ \A q \in Run \ {r} : run'[q] = run[q]
        /\ run'[r].pc = "repeating" /\ run'[r].outcome = run[r].outcome
        /\ run'[r].sent = run[r].fresh /\ run'[r].stored = run[r].stored
        /\ run'[r].fresh = run[r].fresh /\ run'[r].remapped = run[r].remapped
    BY <1>1
  <1>3. Recovering(run[r])'
    <2>1. Recovering(run[r])
      BY <1>1 DEF PageInv
    <2> QED
      BY <1>1, <1>2, <2>1 DEF Recovering, Issued, Single
  <1> QED
    BY <1>1, <1>2, <1>3, MovesOn DEF Live

LEMMA VerifiedMatches == ASSUME Inv, PageInv, NEW r \in Run, Verified(r) PROVE PageInv'
  <1>1. PICK o : o = IF inStore THEN run[r].reply ELSE "discarded"
    OBVIOUS
  <1>2. Finish(r, o) /\ run[r].pc = "verifying" /\ UNCHANGED fileVars
    BY <1>1 DEF Verified
  <1>3. o \in Outcome
    BY <1>1, RunsTyped DEF Outcome
  <1> QED
    BY <1>2, <1>3, FinishMatches

LEMMA OtherEndsMatch ==
  ASSUME Inv, PageInv, NEW r \in Run,
         \/ Deadline(r) \/ Cancel(r) \/ LateAnswer(r) \/ GenerateFails(r)
         \/ UploadFails(r) \/ Rejected(r)
  PROVE  PageInv'
  <1>1. {"timeout", "cancelled", "discarded", "blocked", "lost", "refused"} \subseteq Outcome \ {"images"}
    BY DEF Outcome, Failure
  <1>2. CASE Deadline(r) \/ Cancel(r)
    BY <1>1, <1>2, InterruptMatches DEF Deadline, Cancel
  <1>3. CASE LateAnswer(r) \/ GenerateFails(r) \/ UploadFails(r) \/ Rejected(r)
    BY <1>1, <1>3, FinishMatches DEF LateAnswer, GenerateFails, UploadFails, Rejected
  <1> QED
    BY <1>2, <1>3
-----------------------------------------------------------------------------
(* An upload, and the remap after the last one.                              *)

(* All the old keys are stored: each gives way to the new uri of its picture. *)
LEMMA BytesReplaced ==
  ASSUME NEW uris, NEW old, old \subseteq uris, NEW fresh, Pics(fresh) = Pics(old)
  PROVE  Replaced(uris, old, fresh) = (uris \ old) \cup fresh
  <1>1. uris \cap old = old
    OBVIOUS
  <1>2. \A v \in fresh : v.pic \in Pics(fresh)
    BY DEF Pics
  <1> QED
    BY <1>1, <1>2 DEF Replaced

LEMMA UploadedMatches == ASSUME Inv, PageInv, NEW r \in Run, Uploaded(r) PROVE PageInv'
  <1>1. PICK p \in Pics(run[r].stored) \ Pics(run[r].fresh) :
          /\ uploads[p] < MaxUris
          /\ uploads' = [uploads EXCEPT ![p] = @ + 1]
          /\ LET fresh == run[r].fresh \cup {[pic |-> p, nth |-> uploads[p]]}
                 last == Pics(fresh) = Pics(run[r].stored)
             IN  \E resolves \in BOOLEAN :
                   /\ run' = [run EXCEPT ![r].fresh = fresh,
                                         ![r].remapped = last /\ resolves,
                                         ![r].pc = IF last THEN "remapping" ELSE "uploading"]
                   /\ IF last /\ resolves THEN Remap(run[r].stored, fresh)
                                          ELSE UNCHANGED <<rows, bytes>>
    BY DEF Uploaded
  <1>2. PICK u : u = [pic |-> p, nth |-> uploads[p]]
    OBVIOUS
  <1>3. PICK fresh : fresh = run[r].fresh \cup {u}
    OBVIOUS
  <1>4. PICK at : at = IF Pics(fresh) = Pics(run[r].stored) THEN "remapping" ELSE "uploading"
    OBVIOUS
  <1>5. PICK mapped : /\ run' = [run EXCEPT ![r].fresh = fresh, ![r].remapped = mapped, ![r].pc = at]
                      /\ mapped \in BOOLEAN /\ (mapped => Pics(fresh) = Pics(run[r].stored))
                      /\ IF mapped THEN Remap(run[r].stored, fresh) ELSE UNCHANGED <<rows, bytes>>
    BY <1>1, <1>2, <1>3, <1>4
  <1>6. /\ Live(r) /\ run[r].pc = "uploading" /\ UNCHANGED <<shown, draft, inStore, gone>>
        /\ run \in [Run -> RunState] /\ run[r] \in RunState /\ run[r].stored = run[r].sent
        /\ Recovering(run[r]) /\ uploads \in [Picture -> 0 .. MaxUris]
    BY RunsTyped DEF Uploaded, memVars, Inv, TypeOK, PageInv
  <1>7. /\ \A q \in Run \ {r} : run'[q] = run[q]
        /\ run'[r].pc = at /\ run'[r].outcome = run[r].outcome
        /\ run'[r].sent = run[r].sent /\ run'[r].stored = run[r].stored
        /\ run'[r].fresh = fresh /\ run'[r].remapped = mapped
    BY <1>5, <1>6
  <1>8. /\ run[r].sent = shown \cup draft /\ (inStore => run[r].stored \subseteq bytes)
        /\ run[r].sent \cap gone # {} /\ run[r].fresh \cap run[r].sent = {}
        /\ Issued(run[r].sent) /\ Issued(run[r].fresh)
        /\ Single(run[r].fresh) /\ Pics(run[r].fresh) \subseteq Pics(run[r].stored)
        /\ ~run[r].remapped
    BY <1>6 DEF Recovering
  <1>9. /\ p \in Picture /\ uploads[p] \in Nat
        /\ \A x \in Picture : uploads[x] \in Nat /\ uploads'[x] = IF x = p THEN uploads[x] + 1 ELSE uploads[x]
    <2>1. p \in Picture
      <3>1. PICK v \in run[r].stored : v.pic = p
        BY <1>1 DEF Pics
      <3>2. v \in Uri
        BY <1>6, <3>1
      <3> QED
        BY <3>1, <3>2 DEF Uri
    <2>2. \A x \in Picture : uploads[x] \in Nat
      BY <1>6, RunnerAssumption
    <2> QED
      BY <1>1, <1>6, <2>1, <2>2
  <1>10. \A S \in SUBSET Uri : Issued(S) =>
            /\ u \notin S /\ \A v \in S : v.nth < uploads'[v.pic]
    <2>1. \A v \in Uri : v.pic \in Picture /\ v.nth \in Nat
      BY RunnerAssumption DEF Uri
    <2> QED
      BY <1>2, <1>9, <2>1 DEF Issued
  <1>11. /\ u.pic = p /\ u.nth < uploads'[u.pic] /\ u \notin run[r].sent
         /\ \A v \in fresh : v.nth < uploads'[v.pic]
    BY <1>2, <1>3, <1>6, <1>8, <1>9, <1>10
  <1>12. Pics(fresh) \subseteq Pics(run[r].stored) /\ p \notin Pics(run[r].fresh)
    BY <1>1, <1>3, <1>8, <1>11, ZenonT(60) DEF Pics
  <1>13. Single(fresh)
    <2>1. \A v \in run[r].fresh : v.pic # p
      BY <1>12 DEF Pics
    <2> QED
      BY <1>3, <1>8, <1>11, <2>1 DEF Single
  <1>14. inStore /\ mapped => /\ bytes' = (bytes \ run[r].stored) \cup fresh
                             /\ rows' = Replaced(rows, run[r].stored, fresh)
    BY <1>5, <1>8, BytesReplaced DEF Remap
  <1>15. rows' \cup bytes' \subseteq rows \cup bytes \cup fresh
    <2>1. CASE mapped
      BY <1>5, <2>1 DEF Remap, Replaced
    <2>2. CASE ~mapped
      BY <1>5, <2>2
    <2> QED
      BY <2>1, <2>2
  <1>16. \A v \in rows \cup shown \cup draft \cup bytes : v.nth < uploads'[v.pic]
    <2>1. rows \cup shown \cup draft \cup bytes \in SUBSET Uri
      BY DEF Inv, TypeOK
    <2> QED
      BY <1>10, <2>1 DEF PageInv
  <1>17. Issued(rows \cup shown \cup draft \cup bytes)'
    BY <1>6, <1>11, <1>15, <1>16 DEF Issued
  <1>18. ASSUME inStore, mapped, NEW x \in rows', x.pic \in Pics(bytes') PROVE x \in bytes'
    <2>1. CASE x \in fresh
      BY <1>14, <1>18, <2>1
    <2>2. CASE x \notin fresh
      <3>1. x \in rows /\ x \notin run[r].stored
        BY <1>14, <1>18, <2>2 DEF Replaced
      <3>2. x.pic \in Pics(bytes)
        <4>1. Pics(bytes') \subseteq Pics(bytes) \cup Pics(fresh)
          BY <1>14, <1>18 DEF Pics
        <4>2. Pics(fresh) \subseteq Pics(bytes)
          BY <1>5, <1>8, <1>18 DEF Pics
        <4> QED
          BY <1>18, <4>1, <4>2
      <3>3. x \in bytes \cup shown
        BY <1>18, <3>1, <3>2 DEF PageInv, RowsSeen
      <3>4. x \notin shown
        BY <1>6, <1>8, <3>1
      <3> QED
        BY <1>14, <1>18, <3>1, <3>3, <3>4
    <2> QED
      BY <2>1, <2>2
  <1>19. ASSUME inStore, mapped PROVE Single(bytes)'
    <2>1. \A v \in fresh, w \in bytes \ run[r].stored : v.pic # w.pic
      <3> SUFFICES ASSUME NEW v \in fresh, NEW w \in bytes \ run[r].stored, v.pic = w.pic PROVE FALSE
        OBVIOUS
      <3>1. PICK x \in run[r].stored : x.pic = v.pic
        BY <1>5, <1>19 DEF Pics
      <3>2. x \in bytes
        BY <1>8, <1>19, <3>1
      <3> QED
        BY <1>19, <3>1, <3>2 DEF PageInv, Single
    <2> QED
      BY <1>13, <1>14, <1>19, <2>1 DEF PageInv, Single
  <1>20. Recovering(run[r])'
    <2>1. \A v \in run[r].sent : v.nth < uploads'[v.pic]
      BY <1>6, <1>8, <1>10
    <2>2. fresh \cap run[r].sent = {}
      BY <1>3, <1>8, <1>11
    <2>3. at \in {"uploading", "remapping"} /\ (mapped => at = "remapping")
      BY <1>4, <1>5
    <2>4. ASSUME mapped, inStore
          PROVE  fresh \subseteq bytes' /\ \A v \in rows' : v.pic \in Pics(fresh) => v \in fresh
      <3>1. fresh \subseteq bytes'
        BY <1>14, <2>4
      <3>2. \A v \in rows' : v.pic \in Pics(fresh) => v \in bytes'
        BY <1>18, <2>4, <3>1 DEF Pics
      <3>3. \A v, w \in bytes' : v.pic = w.pic => v = w
        BY <1>19, <2>4 DEF Single
      <3> QED
        BY <3>1, <3>2, <3>3 DEF Pics
    <2>5. ~mapped => bytes' = bytes /\ rows' = rows
      BY <1>5
    <2>6. Issued(run[r].sent)' /\ Issued(run[r].fresh)' /\ Single(run[r].fresh)'
      BY <1>7, <1>11, <1>13, <2>1 DEF Issued, Single
    <2>7. mapped => Pics(fresh) = Pics(run[r].stored)
      BY <1>5
    <2>8. ~mapped => (inStore' => run[r].stored \subseteq bytes')
      BY <1>6, <1>8, <2>5
    <2>9. mapped => (inStore' => /\ fresh \subseteq bytes'
                                /\ \A v \in rows' : v.pic \in Pics(fresh) => v \in fresh)
      BY <1>6, <2>4
    <2>10. run'[r].sent = shown' \cup draft'
      BY <1>6, <1>7, <1>8
    <2>11. run'[r].sent \cap gone' # {} /\ run'[r].fresh \cap run'[r].sent = {}
      BY <1>6, <1>7, <1>8, <2>2
    <2> QED
      BY <1>7, <1>12, <2>3, <2>6, <2>7, <2>8, <2>9, <2>10, <2>11 DEF Recovering
  <1>21. OneByOne'
    BY <1>6, <1>7, LiveIsOpen, OrderKept DEF PageInv
  <1>22. ASSUME NEW q \in Run, Live(q)' PROVE Recovering(run[q])'
    <2>1. Live(q)
      BY <1>7, <1>22 DEF Live
    <2>2. q = r
      BY <1>6, <2>1, OneOpen DEF PageInv
    <2> QED
      BY <1>20, <2>2
  <1>23. PastClean' => PastClean
    <2>1. run[r].outcome = "open" /\ "open" \notin Outcome
      BY <1>6 DEF Live, Outcome, Failure
    <2> QED
      BY <1>7, <2>1 DEF PastClean
  <1>24. CASE inStore /\ mapped
    <2>1. Single(bytes)' /\ RowsSeen' /\ Agree(rows)'
      BY <1>18, <1>19, <1>24 DEF RowsSeen, Agree
    <2>2. Live(r)' /\ run'[r].remapped
      BY <1>6, <1>7, <1>24 DEF Live
    <2>3. Matching'
      BY <2>1, <2>2 DEF Matching
    <2> QED
      BY <1>17, <1>21, <1>22, <2>1, <2>3 DEF PageInv
  <1>25. CASE inStore /\ ~mapped
    <2>1. rows' = rows /\ bytes' = bytes
      BY <1>5, <1>25
    <2>2. Single(bytes)' /\ RowsSeen'
      BY <1>6, <1>25, <2>1 DEF PageInv, Single, RowsSeen
    <2>3. \A q \in Run : Live(q) => ~run[q].remapped
      <3>1. \A q \in Run : Live(q) => q = r
        BY <1>6, OneOpen DEF PageInv
      <3> QED
        BY <1>8, <3>1
    <2>4. PastClean' => Matching'
      BY <1>6, <1>23, <1>25, <2>1, <2>3 DEF PageInv, Matching, Agree
    <2> QED
      BY <1>17, <1>21, <1>22, <2>2, <2>4 DEF PageInv
  <1>26. CASE ~inStore
    BY <1>6, <1>17, <1>21, <1>22, <1>26 DEF PageInv
  <1> QED
    BY <1>24, <1>25, <1>26
-----------------------------------------------------------------------------
(* Around the actions.                                                       *)

LEMMA AttachMatches == ASSUME Inv, PageInv, NEW p \in Picture, Attach(p) PROVE PageInv'
  <1>1. PICK u : u = [pic |-> p, nth |-> 0]
    OBVIOUS
  <1>2. /\ Idle /\ uploads[p] = 0 /\ draft' = draft \cup {u} /\ bytes' \in {bytes, bytes \cup {u}}
        /\ uploads' = [uploads EXCEPT ![p] = 1] /\ UNCHANGED <<run, shown, rows, inStore>>
        /\ uploads \in [Picture -> 0 .. MaxUris]
    BY <1>1 DEF Attach, Inv, TypeOK
  <1>3. rows \cup shown \cup draft \cup bytes \subseteq Uri
    BY DEF Inv, TypeOK
  <1>4. \A v \in rows \cup shown \cup draft \cup bytes : v.pic # p /\ v.nth < uploads'[v.pic]
    <2> SUFFICES ASSUME NEW v \in rows \cup shown \cup draft \cup bytes
                 PROVE  v.pic # p /\ v.nth < uploads'[v.pic]
      OBVIOUS
    <2>1. v.pic \in Picture /\ v.nth \in Nat /\ v.nth < uploads[v.pic]
      BY <1>3, RunnerAssumption DEF Uri, PageInv, Issued
    <2>2. v.pic # p
      BY <1>2, <2>1
    <2> QED
      BY <1>2, <2>1, <2>2
  <1>5. u.pic = p /\ u.nth < uploads'[u.pic]
    BY <1>1, <1>2
  <1>6. OneByOne' /\ (PastClean' <=> PastClean) /\ \A q \in Run : ~Live(q) /\ ~Live(q)'
    BY <1>2 DEF PageInv, OneByOne, PastClean, Idle, Live
  <1>7. Issued(rows \cup shown \cup draft \cup bytes)'
    BY <1>2, <1>4, <1>5 DEF Issued
  <1>8. Single(bytes) => Single(bytes)'
    BY <1>2, <1>4, <1>5 DEF Single
  <1>9. RowsSeen => RowsSeen'
    BY <1>2, <1>4, <1>5 DEF RowsSeen, Pics
  <1>10. Matching => Matching'
    <2> SUFFICES ASSUME Matching PROVE Matching'
      OBVIOUS
    <2>1. Agree(rows) /\ Agree(shown \cup draft)
      BY <1>6 DEF Matching
    <2>2. Agree(rows)' /\ Agree(shown \cup draft)'
      BY <1>2, <1>4, <1>5, <2>1 DEF Agree, Pics
    <2> QED
      BY <2>2 DEF Matching
  <1> QED
    BY <1>2, <1>6, <1>7, <1>8, <1>9, <1>10 DEF PageInv

LEMMA RemoveMatches == ASSUME Inv, PageInv, NEW u, RemoveAttachment(u) PROVE PageInv'
  <1>1. /\ Idle /\ draft' \subseteq draft /\ UNCHANGED <<run, shown, rows, bytes, inStore, uploads>>
    BY DEF RemoveAttachment, dbVars, fileVars
  <1>2. OneByOne' /\ (PastClean' <=> PastClean) /\ \A q \in Run : ~Live(q) /\ ~Live(q)'
    BY <1>1 DEF PageInv, OneByOne, PastClean, Idle, Live
  <1>3. Issued(rows \cup shown \cup draft \cup bytes)'
    BY <1>1 DEF PageInv, Issued
  <1>4. (Single(bytes) => Single(bytes)') /\ (RowsSeen => RowsSeen')
    BY <1>1 DEF Single, RowsSeen
  <1>5. Matching => Matching'
    BY <1>1, <1>2 DEF Matching, Agree
  <1> QED
    BY <1>1, <1>2, <1>3, <1>4, <1>5 DEF PageInv

LEMMA SessionGoneMatches == ASSUME Inv, PageInv, SessionGone PROVE PageInv'
  <1>1. /\ inStore' = FALSE /\ rows' = {} /\ bytes' = {}
        /\ UNCHANGED <<run, shown, draft, uploads, gone>>
    BY DEF SessionGone, memVars, fileVars
  <1>2. OneByOne' /\ Issued(rows \cup shown \cup draft \cup bytes)'
    BY <1>1 DEF PageInv, OneByOne, Issued
  <1>3. ASSUME NEW q \in Run, Live(q)' PROVE Recovering(run[q])'
    <2>1. Recovering(run[q])
      BY <1>1, <1>3 DEF PageInv, Live
    <2> QED
      BY <1>1, <2>1 DEF Recovering, Issued, Single
  <1> QED
    BY <1>1, <1>2, <1>3 DEF PageInv

LEMMA InitMatches == Init => PageInv
  <1> SUFFICES ASSUME Init PROVE PageInv
    OBVIOUS
  <1>1. /\ \A r \in Run : run[r].outcome = "none" /\ ~run[r].remapped
        /\ rows = {} /\ shown = {} /\ draft = {} /\ bytes = {}
    BY DEF Init, IdleRun
  <1> QED
    BY <1>1 DEF PageInv, OneByOne, Issued, Single, RowsSeen, Matching, Agree, Live

LEMMA NextMatches == ASSUME Inv, PageInv, [Next]_vars PROVE PageInv'
  <1>1. CASE UNCHANGED vars \/ \E u \in Uri : FileExpires(u)
    <2>1. /\ run' = run /\ UNCHANGED <<shown, draft, rows, bytes, inStore, uploads>> /\ gone \subseteq gone'
      BY <1>1 DEF vars, memVars, dbVars, fileVars, FileExpires
    <2> QED
      BY <2>1, LateMatching
  <1>2. CASE \E r \in Run : Step(r)
    BY <1>2, StartMatches, OtherEndsMatch, GenerateAnswersMatches, FileMissingMatches, BytesReadMatches,
       UploadedMatches, RemappedMatches, VerifiedMatches DEF Step
  <1> QED
    BY <1>1, <1>2, AttachMatches, RemoveMatches, SessionGoneMatches DEF Next

LEMMA PageInvariance == Spec => []PageInv
  BY InitMatches, NextMatches, Invariance, PTL DEF Spec

(* The page and IndexedDB name a picture by the same uri at rest, after any   *)
(* sequence of sends, recoveries, ends and expiries of any number of pictures, *)
(* as long as no action that ended forgot its mapping (recover, l.184-222).   *)
THEOREM PageStaysMatched == Spec => []PageMatchesBytes
  <1>1. PageInv => PageMatchesBytes
    <2> SUFFICES ASSUME PageInv, Idle, inStore, ~MappingForgotten
                 PROVE  \A u \in rows \cup shown \cup draft : u.pic \in Pics(bytes) => u \in bytes
      BY DEF PageMatchesBytes
    <2>1. PastClean /\ \A r \in Run : ~Live(r)
      BY DEF PastClean, MappingForgotten, Idle
    <2> QED
      BY <2>1 DEF PageInv, Matching, Agree
  <1> QED
    BY <1>1, PageInvariance, PTL
-----------------------------------------------------------------------------
(* The second paid call. *)

(* Only the start of an action and the repeat after a persisted mapping call. *)
LEMMA CallsOfEnds ==
  ASSUME Inv, NEW r \in Run, NEW o, Finish(r, o) \/ Interrupt(r, o)
  PROVE  \A q \in Run : run'[q].calls = run[q].calls
  <1>1. run \in [Run -> RunState]
    BY DEF Inv, TypeOK
  <1>2. CASE Finish(r, o) /\ Live(r)
    <2>1. run' = [run EXCEPT ![r].outcome = o, ![r].pc = "over"]
      BY <1>2 DEF Finish
    <2> QED
      BY <1>1, <2>1
  <1>3. CASE Finish(r, o) /\ ~Live(r)
    BY <1>1, <1>3 DEF Finish
  <1>4. CASE Interrupt(r, o)
    BY <1>1, <1>4 DEF Interrupt
  <1> QED
    BY <1>2, <1>3, <1>4

LEMMA CallsOfSteps ==
  ASSUME Inv, NEW r \in Run, Step(r), ~Remapped(r), ~Start(r)
  PROVE  \A q \in Run : run'[q].calls = run[q].calls
  <1>0. run[r] \in RunState /\ run \in [Run -> RunState]
    BY DEF Inv, TypeOK
  <1>1. CASE \/ Deadline(r) \/ Cancel(r) \/ LateAnswer(r) \/ GenerateFails(r)
             \/ UploadFails(r) \/ Rejected(r) \/ Verified(r)
    BY <1>1, CallsOfEnds
       DEF Deadline, Cancel, LateAnswer, GenerateFails, UploadFails, Rejected, Verified
  <1>2. CASE GenerateAnswers(r)
    <2>1. PICK reply : run' = [run EXCEPT ![r] = [run[r] EXCEPT !.pc = "verifying", !.reply = reply]]
      BY <1>2 DEF GenerateAnswers, GoesOn
    <2> QED
      BY <1>0, <2>1
  <1>3. CASE FileMissing(r)
    <2>1. CASE GoesOn(r, [run[r] EXCEPT !.pc = "reading"])
      BY <1>0, <2>1 DEF GoesOn
    <2> QED
      BY <1>3, <2>1, CallsOfEnds DEF FileMissing
  <1>4. CASE BytesRead(r)
    <2>1. CASE Finish(r, "missing")
      BY <2>1, CallsOfEnds
    <2>2. CASE ~Finish(r, "missing")
      <3>1. PICK found, at : run' = [run EXCEPT ![r] = [run[r] EXCEPT !.stored = found, !.pc = at]]
        BY <1>4, <2>2, Zenon DEF BytesRead, GoesOn
      <3> QED
        BY <1>0, <3>1
    <2> QED
      BY <2>1, <2>2
  <1>5. CASE Uploaded(r)
    <2> DEFINE fresh(p) == run[r].fresh \cup {[pic |-> p, nth |-> uploads[p]]}
               last(p) == Pics(fresh(p)) = Pics(run[r].stored)
    <2>0. PICK p, resolves :
            run' = [run EXCEPT ![r].fresh = fresh(p), ![r].remapped = last(p) /\ resolves,
                               ![r].pc = IF last(p) THEN "remapping" ELSE "uploading"]
      BY <1>5, Zenon DEF Uploaded
    <2>1. PICK uris, remapped, at :
            run' = [run EXCEPT ![r].fresh = uris, ![r].remapped = remapped, ![r].pc = at]
      <3> HIDE DEF fresh, last
      <3> QED
        BY <2>0, Zenon
    <2> QED
      BY <1>0, <2>1
  <1> QED
    BY <1>1, <1>2, <1>3, <1>4, <1>5 DEF Step

(* The repeat is paid for an open action that lost a file, with uris that     *)
(* the stored turns and the stored bytes have already.                        *)
LEMMA RepeatIsPaid ==
  ASSUME Inv, PageInv, NEW r \in Run, Remapped(r)
  PROVE  PaidAgain(r) /\ \A q \in Run \ {r} : run'[q] = run[q]
  <1>1. /\ run' = [run EXCEPT ![r] = [run[r] EXCEPT !.pc = "repeating", !.sent = run[r].fresh,
                                                    !.calls = @ + 1]]
        /\ Live(r) /\ run[r].pc = "remapping" /\ run[r].remapped /\ run \in [Run -> RunState]
    BY DEF Remapped, GoesOn, Inv, TypeOK
  <1>2. run'[r].sent = run[r].fresh /\ \A q \in Run \ {r} : run'[q] = run[q]
    BY <1>1
  <1>3. run[r].calls = 1 /\ run[r].stored = run[r].sent
    BY <1>1, RunsTyped
  <1>4. Recovering(run[r])
    BY <1>1 DEF PageInv
  <1>5. /\ run[r].sent \cap gone # {} /\ run[r].fresh \cap run[r].sent = {}
        /\ Pics(run[r].fresh) = Pics(run[r].sent)
        /\ inStore => /\ run[r].fresh \subseteq bytes
                      /\ \A u \in rows : u.pic \in Pics(run[r].fresh) => u \in run[r].fresh
    BY <1>1, <1>3, <1>4 DEF Recovering
  <1> QED
    BY <1>1, <1>2, <1>3, <1>5 DEF PaidAgain

(* The client pays a second time only for an action that is still open, once, *)
(* after FILE_MISSING, and with uris that IndexedDB has taken over already,   *)
(* for any number of pictures and actions (recover, l.184-222).               *)
THEOREM PaidTwiceForGoodReason == Spec => PaidCallsAreFew
  <1>1. ASSUME Inv, PageInv, [Next]_vars
        PROVE  [\A r \in Run : run'[r].calls > run[r].calls /\ run[r].calls > 0 => PaidAgain(r)]_vars
    <2> SUFFICES ASSUME NEW r \in Run, run'[r].calls > run[r].calls, run[r].calls > 0
                 PROVE  PaidAgain(r)
      OBVIOUS
    <2>1. \A q \in Run : run[q].calls \in Nat
      BY RunsTyped, <1>1
    <2>2. CASE run' = run
      BY <2>1, <2>2
    <2>3. ASSUME NEW q \in Run, Start(q) PROVE PaidAgain(r)
      <3>1. run[q] = IdleRun /\ \A x \in Run \ {q} : run'[x] = run[x]
        BY <1>1, <2>3, RunsTyped DEF Start
      <3>2. r # q
        BY <3>1 DEF IdleRun
      <3> QED
        BY <2>1, <3>1, <3>2
    <2>4. ASSUME NEW q \in Run, Remapped(q) PROVE PaidAgain(r)
      <3>1. PaidAgain(q) /\ \A x \in Run \ {q} : run'[x] = run[x]
        BY <1>1, <2>4, RepeatIsPaid
      <3>2. r = q
        BY <2>1, <3>1
      <3> QED
        BY <3>1, <3>2
    <2>5. ASSUME NEW q \in Run, Step(q), ~Start(q), ~Remapped(q) PROVE PaidAgain(r)
      BY <1>1, <2>1, <2>5, CallsOfSteps
    <2> QED
      BY <1>1, <2>2, <2>3, <2>4, <2>5
         DEF Next, Attach, RemoveAttachment, FileExpires, SessionGone, vars
  <1> QED
    BY <1>1, Invariance, PageInvariance, PTL DEF Spec, PaidCallsAreFew
=============================================================================

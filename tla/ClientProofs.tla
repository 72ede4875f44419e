---------------------------- MODULE ClientProofs ----------------------------
(***************************************************************************)
(* Proofs about what the user fills and edits in the browser.              *)
(* ComposerUploads, for any sessions, attachments, retries and limits: no  *)
(* draft outgrows a message, the provider keeps no orphan, and a ready     *)
(* attachment names a file that exists.  ImageUploads, for any images,     *)
(* concurrency and typing: the list, its files, its captions and the       *)
(* analysis agree.  HtmlEditor, for any documents, words and replacements: *)
(* the editor gives back the document it shows, its search is about that   *)
(* document, and Replace All changes the word and nothing else.            *)
(***************************************************************************)
EXTENDS ComposerUploads, ImageUploads, HtmlEditor, FoldLemmas, FiniteSetTheorems, SequenceTheorems, TLAPS

Place == {"idle", "reading", "checking", "upload", "waiting", "storing"}
Ingest == [at : Place, session : Session, calls : Nat, left : Int]

(* An entry b of a draft of session s.  A failed one has no file and no      *)
(* ingest under way: a Retry starts from nothing.                            *)
EntryIn(e, b, s, gv, ing, fl) ==
  /\ e \in Entry /\ b \in gv /\ ing[b].session = s
  /\ e.state = "failed" => ing[b].at = "idle" /\ \A g \in fl : g[1] # b
  /\ e.state = "ready" => e.file \in fl

(* What the provider has of attachment b: at most what the last attempt made. *)
FilesIn(b, gv, ing, fl) ==
  /\ ing[b].at # "idle" => b \in gv
  /\ \A g \in fl : g[1] = b => g = <<b, ing[b].calls>> /\ ing[b].at \in {"storing", "idle"} /\ b \in gv
  /\ ing[b].at = "storing" => <<b, ing[b].calls>> \in fl

Small(f) == DOMAIN f \subseteq Att /\ Cardinality(DOMAIN f) <= MaxUploads

Types ==
  /\ shown \in Session /\ ingest \in [Att -> Ingest] /\ given \subseteq Att
  /\ sdk \subseteq File /\ files \subseteq File /\ DOMAIN drafts = Session

DraftsHeld ==
  \A s \in Session : /\ Small(drafts[s])
                     /\ \A b \in DOMAIN drafts[s] : EntryIn(drafts[s][b], b, s, given, ingest, files)

(* While a call is under way its draft is kept aside, and nothing is put in  *)
(* its place.                                                                *)
CallHeld ==
  call # NoCall =>
    /\ call.session \in Session /\ Small(call.draft) /\ DOMAIN drafts[call.session] = {}
    /\ \A b \in DOMAIN call.draft :
         EntryIn(call.draft[b], b, call.session, given, ingest, files)

FilesHeld == \A b \in Att : FilesIn(b, given, ingest, files)

UploadInv == Types /\ DraftsHeld /\ CallHeld /\ FilesHeld

LEMMA FileParts == \A g \in File : g[1] \in Att /\ g = <<g[1], g[2]>> /\ g[2] \in 1..MaxCalls
BY DEF File

(* Fewer entries are no more than before. *)
LEMMA Fewer ==
  ASSUME NEW f, Small(f), NEW g, DOMAIN g \subseteq DOMAIN f
  PROVE  Small(g)
<1>1. IsFiniteSet(DOMAIN f)
  BY UploadAssumption, FS_Subset DEF Small
<1>2. Cardinality(DOMAIN g) <= Cardinality(DOMAIN f)
  BY <1>1, FS_Subset
<1>3. Cardinality(DOMAIN f) \in Nat /\ Cardinality(DOMAIN g) \in Nat
  BY <1>1, FS_Subset, FS_CardinalityType
<1> QED
  BY <1>2, <1>3, UploadAssumption DEF Small

LEMMA OneMore ==
  ASSUME NEW f, Small(f), MayAttach(f), NEW a \in Att, NEW e
  PROVE  Small(Plus(f, a, e))
<1>1. DOMAIN Plus(f, a, e) = DOMAIN f \union {a}
  BY DEF Plus
<1>2. IsFiniteSet(DOMAIN f)
  BY UploadAssumption, FS_Subset DEF Small
<1>3. /\ IsFiniteSet(DOMAIN f \union {a})
      /\ Cardinality(DOMAIN f \union {a}) = IF a \in DOMAIN f THEN Cardinality(DOMAIN f)
                                            ELSE Cardinality(DOMAIN f) + 1
  BY <1>2, FS_AddElement
<1>4. Cardinality(DOMAIN f) \in Nat /\ Cardinality(DOMAIN f \union {a}) \in Nat
  BY <1>2, <1>3, FS_CardinalityType
<1> QED
  BY <1>1, <1>3, <1>4, UploadAssumption DEF Small, MayAttach

(* An entry stays right when its ingest does, or when it has not failed.     *)
LEMMA EntryStays ==
  ASSUME NEW e, NEW b, NEW s, NEW gv, NEW gw, NEW ing, NEW jng, NEW fl, NEW gl,
         EntryIn(e, b, s, gv, ing, fl),
         gv \subseteq gw, fl \subseteq gl, jng[b].session = ing[b].session,
         e.state = "failed" => jng[b].at = ing[b].at /\ \A g \in gl : g[1] = b => g \in fl
  PROVE  EntryIn(e, b, s, gw, jng, gl)
BY DEF EntryIn

(* A step about one attachment a: what is left to show of it.                *)
LEMMA OneAttachment ==
  ASSUME UploadInv, Types', NEW a \in Att, call' = call,
         given \subseteq given', files \subseteq files',
         \A b \in given' : b # a => b \in given,
         \A b \in Att : b # a => ingest'[b] = ingest[b],
         \A g \in files' : g[1] # a => g \in files,
         \A s \in Session : Small(drafts'[s]),
         \A s \in Session : \A b \in DOMAIN drafts'[s] :
           b # a => b \in DOMAIN drafts[s] /\ drafts'[s][b] = drafts[s][b],
         \A s \in Session : a \in DOMAIN drafts'[s] =>
           EntryIn(drafts'[s][a], a, s, given', ingest', files'),
         call # NoCall => /\ DOMAIN drafts'[call.session] \subseteq DOMAIN drafts[call.session]
                          /\ a \in DOMAIN call.draft =>
                               EntryIn(call.draft[a], a, call.session, given', ingest', files'),
         FilesIn(a, given', ingest', files')
  PROVE  UploadInv'
<1>1. ASSUME NEW s \in Session, NEW e, NEW b \in Att, b # a, EntryIn(e, b, s, given, ingest, files)
      PROVE  EntryIn(e, b, s, given', ingest', files')
  <2>1. ingest'[b].session = ingest[b].session /\ ingest'[b].at = ingest[b].at
    BY <1>1
  <2>2. \A g \in files' : g[1] = b => g \in files
    BY <1>1
  <2> QED
    BY <1>1, <2>1, <2>2, EntryStays
<1>2. DraftsHeld'
  <2>1. ASSUME NEW s \in Session, NEW b \in DOMAIN drafts'[s]
        PROVE  EntryIn(drafts'[s][b], b, s, given', ingest', files')
    <3>1. CASE b = a
      BY <3>1
    <3>2. CASE b # a
      <4>1. b \in Att /\ EntryIn(drafts[s][b], b, s, given, ingest, files)
        BY <3>2 DEF UploadInv, DraftsHeld, Small
      <4> QED
        BY <1>1, <3>2, <4>1
    <3> QED
      BY <3>1, <3>2
  <2> QED
    BY <2>1 DEF DraftsHeld
<1>3. CallHeld'
  <2> SUFFICES ASSUME call # NoCall
               PROVE  /\ call.session \in Session /\ Small(call.draft) /\ DOMAIN drafts'[call.session] = {}
                      /\ \A b \in DOMAIN call.draft :
                           EntryIn(call.draft[b], b, call.session, given', ingest', files')
    BY DEF CallHeld, NoCall, NoDraft, Uploading
  <2>1. call.session \in Session /\ Small(call.draft) /\ DOMAIN drafts'[call.session] = {}
    BY DEF UploadInv, CallHeld
  <2>2. ASSUME NEW b \in DOMAIN call.draft
        PROVE  EntryIn(call.draft[b], b, call.session, given', ingest', files')
    <3>1. CASE b = a
      BY <3>1
    <3>2. CASE b # a
      <4>1. b \in Att /\ EntryIn(call.draft[b], b, call.session, given, ingest, files)
        BY DEF UploadInv, CallHeld, Small
      <4> QED
        BY <1>1, <2>1, <3>2, <4>1
    <3> QED
      BY <3>1, <3>2
  <2> QED
    BY <2>1, <2>2
<1>4. FilesHeld'
  <2>1. ASSUME NEW b \in Att
        PROVE  FilesIn(b, given', ingest', files')
    <3>1. CASE b = a
      BY <3>1
    <3>2. CASE b # a
      <4>1. FilesIn(b, given, ingest, files) /\ ingest'[b] = ingest[b]
        BY <3>2 DEF UploadInv, FilesHeld
      <4>2. \A g \in files' : g[1] = b => g \in files
        BY <3>2
      <4> QED
        BY <4>1, <4>2 DEF FilesIn
    <3> QED
      BY <3>1, <3>2
  <2> QED
    BY <2>1 DEF FilesHeld
<1> QED
  BY <1>2, <1>3, <1>4 DEF UploadInv
-----------------------------------------------------------------------------
(* What the invariant says of one attachment.                                *)
LEMMA OfOne ==
  ASSUME UploadInv, NEW a \in Att
  PROVE  /\ ingest[a] \in Ingest /\ FilesIn(a, given, ingest, files)
         /\ \A s \in Session : a \in DOMAIN drafts[s] =>
              EntryIn(drafts[s][a], a, s, given, ingest, files)
         /\ call # NoCall => /\ call.session \in Session
                             /\ a \in DOMAIN call.draft =>
                                  EntryIn(call.draft[a], a, call.session, given, ingest, files)
BY DEF UploadInv, Types, DraftsHeld, CallHeld, FilesHeld

(* A step that changes where the ingest of a is, and no draft.               *)
LEMMA IngestMoves ==
  ASSUME UploadInv, NEW a \in Att, NEW r \in Ingest,
         ingest' = [ingest EXCEPT ![a] = r], r.session = ingest[a].session,
         ingest[a].at # "idle",
         shown' = shown, drafts' = drafts, call' = call, given' = given,
         sdk' \subseteq File, files' \subseteq File, files \subseteq files',
         \A g \in files' : g[1] # a => g \in files,
         FilesIn(a, given, ingest', files')
  PROVE  UploadInv'
<1>1. Types' /\ ingest'[a] = r /\ \A b \in Att : b # a => ingest'[b] = ingest[b]
  BY DEF UploadInv, Types
<1>2. ASSUME NEW s \in Session, NEW e, EntryIn(e, a, s, given, ingest, files)
      PROVE  EntryIn(e, a, s, given, ingest', files')
  BY <1>1, <1>2 DEF EntryIn
<1>3. \A s \in Session : a \in DOMAIN drafts'[s] =>
        EntryIn(drafts'[s][a], a, s, given', ingest', files')
  BY <1>2, OfOne
<1>4. call # NoCall /\ a \in DOMAIN call.draft =>
        EntryIn(call.draft[a], a, call.session, given', ingest', files')
  BY <1>2, OfOne
<1>5. \A s \in Session : Small(drafts'[s])
  BY DEF UploadInv, DraftsHeld
<1> QED
  BY <1>1, <1>3, <1>4, <1>5, OneAttachment

LEMMA ReadInv == ASSUME UploadInv, NEW a \in Att, Read(a) PROVE UploadInv'
<1> DEFINE r == [ingest[a] EXCEPT !.at = "checking"]
<1>1. ingest[a] \in Ingest /\ ingest[a].at = "reading" /\ FilesIn(a, given, ingest, files)
  BY OfOne DEF Read
<1>2. r \in Ingest /\ r.at = "checking" /\ r.session = ingest[a].session /\ r.calls = ingest[a].calls
  BY <1>1 DEF Ingest, Place
<1>3. ingest' = [ingest EXCEPT ![a] = r]
  BY DEF Read
<1>4. ingest'[a] = r
  BY <1>3 DEF UploadInv, Types
<1>5. FilesIn(a, given, ingest', files)
  BY <1>1, <1>2, <1>4 DEF FilesIn
<1> HIDE DEF r
<1> QED
  BY <1>1, <1>2, <1>3, <1>5, IngestMoves DEF Read, UploadInv, Types

LEMMA UploadAttemptInv == ASSUME UploadInv, NEW a \in Att, Upload(a) PROVE UploadInv'
<1> DEFINE r == [ingest[a] EXCEPT !.at = "upload", !.calls = ingest[a].calls + 1,
                   !.left = IF ingest[a].at = "checking" THEN Retries ELSE ingest[a].left - 1]
<1>1. ingest[a] \in Ingest /\ ingest[a].at \in {"checking", "waiting"} /\ FilesIn(a, given, ingest, files)
      /\ ingest[a].calls < MaxCalls
  BY OfOne DEF Upload
<1>2. r \in Ingest /\ r.at = "upload" /\ r.session = ingest[a].session
  <2>1. ingest[a].calls + 1 \in Nat
        /\ (IF ingest[a].at = "checking" THEN Retries ELSE ingest[a].left - 1) \in Int
    BY <1>1, UploadAssumption DEF Ingest
  <2> QED
    BY <1>1, <2>1 DEF Ingest, Place
<1>3. ingest' = [ingest EXCEPT ![a] = r]
  BY DEF Upload
<1>4. ingest'[a] = r
  BY <1>3 DEF UploadInv, Types
<1>5. FilesIn(a, given, ingest', files)
  BY <1>1, <1>2, <1>4 DEF FilesIn
<1>6. sdk' \subseteq File
  <2>1. ingest[a].calls + 1 \in 1..MaxCalls
    BY <1>1, UploadAssumption DEF Ingest
  <2> QED
    BY <2>1 DEF Upload, UploadInv, Types, File
<1> HIDE DEF r
<1>7. UNCHANGED <<shown, drafts, call, given, files>>
  BY DEF Upload, clientVars
<1> QED
  BY <1>1, <1>2, <1>3, <1>5, <1>6, <1>7, IngestMoves DEF UploadInv, Types

LEMMA SdkUploadsInv ==
  ASSUME UploadInv, NEW a \in Att, NEW n \in 1..MaxCalls, SdkUploads(a, n) PROVE UploadInv'
<1> DEFINE r == [ingest[a] EXCEPT !.at = "storing"]
<1>0. UNCHANGED <<shown, drafts, call, given>> /\ sdk' \subseteq File
  BY DEF SdkUploads, clientVars, UploadInv, Types
<1>1. CASE Lost(a, n)
  BY <1>0, <1>1 DEF SdkUploads, UploadInv, Types, DraftsHeld, CallHeld, FilesHeld
<1>2. CASE ~Lost(a, n)
  <2>1. ingest[a] \in Ingest /\ ingest[a].at = "upload" /\ ingest[a].calls = n
        /\ FilesIn(a, given, ingest, files)
    BY <1>2, OfOne DEF Lost
  <2>2. files' = files \union {<<a, n>>} /\ ingest' = [ingest EXCEPT ![a] = r]
    BY <1>2, <2>1 DEF SdkUploads
  <2>3. r \in Ingest /\ r.at = "storing" /\ r.session = ingest[a].session /\ r.calls = n
    BY <2>1 DEF Ingest, Place
  <2>4. ingest'[a] = r
    BY <2>2 DEF UploadInv, Types
  <2>5. FilesIn(a, given, ingest', files')
    <3>1. a \in given /\ \A g \in files : g[1] # a
      BY <2>1 DEF FilesIn
    <3>2. \A g \in files' : g[1] = a => g = <<a, n>>
      BY <2>2, <3>1
    <3>3. <<a, n>> \in files'
      BY <2>2
    <3> HIDE DEF r
    <3>4. ingest'[a].at = "storing" /\ ingest'[a].calls = n
      BY <2>3, <2>4
    <3> QED
      BY <3>1, <3>2, <3>3, <3>4 DEF FilesIn
  <2>6. files' \subseteq File
    BY <2>2 DEF UploadInv, Types, File
  <2>7. \A g \in files' : g[1] # a => g \in files
    BY <2>2
  <2> HIDE DEF r
  <2> QED
    BY <1>0, <2>1, <2>2, <2>3, <2>5, <2>6, <2>7, IngestMoves
<1> QED
  BY <1>1, <1>2

(* Where a failed attempt leaves its attachment: waiting, or failed without a *)
(* file.                                                                     *)
LEMMA AttemptFailsInv ==
  ASSUME UploadInv, NEW a \in Att, NEW retry \in BOOLEAN, ingest[a].at = "upload",
         AttemptFails(a, retry), UNCHANGED <<shown, call, given, files>>, sdk' \subseteq File
  PROVE  UploadInv'
<1>1. ingest[a] \in Ingest /\ FilesIn(a, given, ingest, files) /\ a \in given
      /\ \A g \in files : g[1] # a
  BY OfOne DEF FilesIn
<1>2. CASE retry /\ ingest[a].left > 0
  <2> DEFINE r == [ingest[a] EXCEPT !.at = "waiting"]
  <2>1. ingest' = [ingest EXCEPT ![a] = r] /\ drafts' = drafts
    BY <1>2 DEF AttemptFails
  <2>2. r \in Ingest /\ r.at = "waiting" /\ r.session = ingest[a].session
    BY <1>1 DEF Ingest, Place
  <2>3. ingest'[a] = r
    BY <2>1 DEF UploadInv, Types
  <2>4. FilesIn(a, given, ingest', files')
    BY <1>1, <2>2, <2>3 DEF FilesIn
  <2> HIDE DEF r
  <2> QED
    BY <1>1, <2>1, <2>2, <2>4, IngestMoves DEF UploadInv, Types
<1>3. CASE ~(retry /\ ingest[a].left > 0)
  <2> DEFINE r == [ingest[a] EXCEPT !.at = "idle"]
             failed == [Draft[a] EXCEPT !.state = "failed"]
  <2>1. ingest' = [ingest EXCEPT ![a] = r]
    BY <1>3 DEF AttemptFails
  <2>2. r \in Ingest /\ r.at = "idle" /\ r.session = ingest[a].session
    BY <1>1 DEF Ingest, Place
  <2>3. ingest'[a] = r /\ \A b \in Att : b # a => ingest'[b] = ingest[b]
    BY <2>1 DEF UploadInv, Types
  <2>4. FilesIn(a, given, ingest', files')
    BY <1>1, <2>2, <2>3 DEF FilesIn
  <2> HIDE DEF r
  <2>5. ASSUME NEW s \in Session, NEW e, EntryIn(e, a, s, given, ingest, files)
        PROVE  EntryIn(e, a, s, given, ingest', files)
    BY <1>1, <2>2, <2>3, <2>5 DEF EntryIn
  <2>6. Types'
    BY <1>3, <2>1, <2>2 DEF UploadInv, Types, AttemptFails
  <2>7. call # NoCall /\ a \in DOMAIN call.draft =>
          EntryIn(call.draft[a], a, call.session, given', ingest', files')
    BY <2>5, OfOne
  <2>8. CASE drafts' = drafts
    <3>1. \A s \in Session : a \in DOMAIN drafts'[s] =>
            EntryIn(drafts'[s][a], a, s, given', ingest', files')
      BY <2>5, <2>8, OfOne
    <3>2. \A s \in Session : Small(drafts'[s])
      BY <2>8 DEF UploadInv, DraftsHeld
    <3> QED
      BY <2>3, <2>4, <2>6, <2>7, <2>8, <3>1, <3>2, OneAttachment
  <2>9. CASE /\ shown = ingest[a].session /\ a \in DOMAIN Draft
             /\ drafts' = [drafts EXCEPT ![shown] = Alter(Draft, a, failed)]
    <3>1. shown \in Session /\ a \in DOMAIN drafts[shown]
      BY <2>9 DEF UploadInv, Types, Draft
    <3>2. EntryIn(drafts[shown][a], a, shown, given, ingest, files)
      BY <3>1, OfOne
    <3>3. failed \in Entry /\ failed.state = "failed"
      BY <3>2 DEF EntryIn, Entry, Draft
    <3>4. EntryIn(failed, a, shown, given', ingest', files')
      BY <1>1, <2>2, <2>3, <2>9, <3>3 DEF EntryIn
    <3> HIDE DEF failed
    <3>5. \A s \in Session : drafts'[s] = IF s = shown THEN Alter(drafts[shown], a, failed) ELSE drafts[s]
      BY <2>9 DEF UploadInv, Types, Draft
    <3>6. \A s \in Session : /\ DOMAIN drafts'[s] = DOMAIN drafts[s]
                             /\ \A b \in DOMAIN drafts[s] :
                                  drafts'[s][b] = IF s = shown /\ b = a THEN failed ELSE drafts[s][b]
      BY <3>5, ZenonT(60) DEF Alter
    <3>7. \A s \in Session : Small(drafts'[s])
      BY <3>6, Fewer DEF UploadInv, DraftsHeld
    <3>8. ASSUME NEW s \in Session, a \in DOMAIN drafts'[s]
          PROVE  EntryIn(drafts'[s][a], a, s, given', ingest', files')
      <4>1. CASE s = shown
        BY <3>1, <3>4, <3>6, <4>1
      <4>2. CASE s # shown
        BY <2>5, <3>6, <3>8, <4>2, OfOne
      <4> QED
        BY <4>1, <4>2
    <3>9. call # NoCall => DOMAIN drafts'[call.session] \subseteq DOMAIN drafts[call.session]
      BY <3>6, OfOne
    <3> QED
      BY <2>3, <2>4, <2>6, <2>7, <3>6, <3>7, <3>8, <3>9, OneAttachment
  <2> QED
    BY <1>3, <2>8, <2>9 DEF AttemptFails
<1> QED
  BY <1>2, <1>3

LEMMA StoredInv == ASSUME UploadInv, NEW a \in Att, Stored(a) PROVE UploadInv'
<1> DEFINE r == [ingest[a] EXCEPT !.at = "idle"]
           ready == [state |-> "ready", file |-> Attempt(a)]
<1>1. ingest[a] \in Ingest /\ FilesIn(a, given, ingest, files) /\ ingest[a].at = "storing"
      /\ a \in given /\ Attempt(a) \in files /\ files \subseteq File
  BY OfOne DEF FilesIn, Stored, Attempt, UploadInv, Types
<1>2. r \in Ingest /\ r.at = "idle" /\ r.session = ingest[a].session /\ r.calls = ingest[a].calls
  BY <1>1 DEF Ingest, Place
<1>3. ingest'[a] = r /\ \A b \in Att : b # a => ingest'[b] = ingest[b]
  BY DEF Stored, UploadInv, Types
<1>4. FilesIn(a, given, ingest', files)
  BY <1>1, <1>2, <1>3 DEF FilesIn
<1>5. Types'
  BY <1>2 DEF Stored, UploadInv, Types
<1>6. ready \in Entry /\ ready.state = "ready" /\ ready.file = Attempt(a)
  BY <1>1 DEF Entry
<1>7. EntryIn(ready, a, ingest[a].session, given, ingest', files)
  BY <1>1, <1>2, <1>3, <1>6 DEF EntryIn
<1> HIDE DEF r, ready
<1>8. ASSUME NEW s \in Session, NEW e, EntryIn(e, a, s, given, ingest, files)
      PROVE  EntryIn(e, a, s, given, ingest', files)
  BY <1>1, <1>2, <1>3, <1>8 DEF EntryIn
<1>9. call # NoCall /\ a \in DOMAIN call.draft =>
        EntryIn(call.draft[a], a, call.session, given', ingest', files')
  BY <1>8, OfOne DEF Stored
<1>10. UNCHANGED <<call, given, files>>
  BY DEF Stored
<1>11. \A s \in Session :
         /\ DOMAIN drafts'[s] = DOMAIN drafts[s]
         /\ \A b \in DOMAIN drafts[s] :
              \/ drafts'[s][b] = drafts[s][b]
              \/ b = a /\ s = ingest[a].session /\ drafts'[s][b] = ready
  BY DEF Stored, UploadInv, Types, Alter, Draft, ready
<1>12. \A s \in Session : Small(drafts'[s])
  BY <1>11, Fewer DEF UploadInv, DraftsHeld
<1>13. \A s \in Session : a \in DOMAIN drafts'[s] =>
         EntryIn(drafts'[s][a], a, s, given', ingest', files')
  BY <1>7, <1>8, <1>10, <1>11, OfOne
<1>14. call # NoCall => DOMAIN drafts'[call.session] \subseteq DOMAIN drafts[call.session]
  BY <1>11, OfOne
<1> QED
  BY <1>3, <1>4, <1>5, <1>9, <1>10, <1>11, <1>12, <1>13, <1>14, OneAttachment

(* The other steps of the user, about one attachment.                        *)
LEMMA AttachInv == ASSUME UploadInv, NEW a \in Att, Attach(a) PROVE UploadInv'
<1>1. /\ call = NoCall /\ call' = call /\ files' = files /\ shown' = shown /\ sdk' = sdk
      /\ given' = given \union {a} /\ a \notin given /\ shown \in Session
  BY DEF Attach, Busy, UploadInv, Types
<1>2. ingest[a] \in Ingest /\ FilesIn(a, given, ingest, files)
  BY OfOne
<1>3. ingest'[a] \in Ingest /\ ingest'[a].at = "reading" /\ ingest'[a].session = shown
      /\ \A b \in Att : b # a => ingest'[b] = ingest[b]
  <2> DEFINE r == [ingest[a] EXCEPT !.at = "reading", !.session = shown]
  <2>1. r \in Ingest /\ r.at = "reading" /\ r.session = shown
    BY <1>1, <1>2 DEF Ingest, Place
  <2>2. ingest' = [ingest EXCEPT ![a] = r]
    BY DEF Attach
  <2> HIDE DEF r
  <2> QED
    BY <2>1, <2>2 DEF UploadInv, Types
<1>4. Types'
  BY <1>1, <1>3 DEF Attach, SetDraft, UploadInv, Types
<1>5. FilesIn(a, given', ingest', files')
  BY <1>1, <1>2, <1>3 DEF FilesIn
<1>6. \A s \in Session : drafts'[s] = IF s = shown THEN Plus(drafts[shown], a, Uploading) ELSE drafts[s]
  BY DEF Attach, SetDraft, UploadInv, Types, Draft
<1>7. \A s \in Session : Small(drafts'[s])
  <2>1. Small(drafts[shown]) /\ MayAttach(drafts[shown])
    BY <1>1 DEF Attach, Draft, UploadInv, DraftsHeld
  <2> QED
    BY <1>6, <2>1, OneMore DEF UploadInv, DraftsHeld
<1>8. EntryIn(Uploading, a, shown, given', ingest', files')
  BY <1>1, <1>3 DEF EntryIn, Uploading, Entry
<1>9. \A s \in Session : a \notin DOMAIN drafts[s]
  BY <1>1, OfOne DEF EntryIn
<1>10. \A s \in Session : a \in DOMAIN drafts'[s] =>
         EntryIn(drafts'[s][a], a, s, given', ingest', files')
  BY <1>6, <1>8, <1>9 DEF Plus
<1>11. \A s \in Session : \A b \in DOMAIN drafts'[s] :
         b # a => b \in DOMAIN drafts[s] /\ drafts'[s][b] = drafts[s][b]
  <2>1. ASSUME NEW b \in DOMAIN Plus(drafts[shown], a, Uploading), b # a
        PROVE  b \in DOMAIN drafts[shown] /\ Plus(drafts[shown], a, Uploading)[b] = drafts[shown][b]
    BY <2>1 DEF Plus
  <2> QED
    BY <1>6, <2>1
<1> QED
  BY <1>1, <1>3, <1>4, <1>5, <1>7, <1>10, <1>11, OneAttachment

LEMMA RefusedInv == ASSUME UploadInv, NEW a \in Att, Refused(a) PROVE UploadInv'
<1> DEFINE r == [ingest[a] EXCEPT !.at = "idle"]
<1>1. ingest[a] \in Ingest /\ FilesIn(a, given, ingest, files)
      /\ ingest[a].at \in {"reading", "checking"} /\ UNCHANGED <<call, given, files, shown, sdk>>
  BY OfOne DEF Refused
<1>2. r \in Ingest /\ r.at = "idle" /\ r.session = ingest[a].session
  BY <1>1 DEF Ingest, Place
<1>3. ingest'[a] = r /\ \A b \in Att : b # a => ingest'[b] = ingest[b]
  BY DEF Refused, UploadInv, Types
<1>4. Types'
  BY <1>2 DEF Refused, SetDraft, UploadInv, Types
<1> HIDE DEF r
<1>5. FilesIn(a, given', ingest', files')
  BY <1>1, <1>2, <1>3 DEF FilesIn
<1>6. ASSUME NEW s \in Session, NEW e, EntryIn(e, a, s, given, ingest, files)
      PROVE  EntryIn(e, a, s, given', ingest', files')
  BY <1>1, <1>2, <1>3, <1>6 DEF EntryIn
<1>7. \A s \in Session : /\ DOMAIN drafts'[s] \subseteq DOMAIN drafts[s]
                         /\ \A b \in DOMAIN drafts'[s] : drafts'[s][b] = drafts[s][b]
  BY DEF Refused, SetDraft, UploadInv, Types, Without, Draft
<1>8. \A s \in Session : Small(drafts'[s])
  BY <1>7, Fewer DEF UploadInv, DraftsHeld
<1>9. \A s \in Session : a \in DOMAIN drafts'[s] =>
        EntryIn(drafts'[s][a], a, s, given', ingest', files')
  BY <1>6, <1>7, OfOne
<1>10. call # NoCall =>
         /\ DOMAIN drafts'[call.session] \subseteq DOMAIN drafts[call.session]
         /\ a \in DOMAIN call.draft =>
              EntryIn(call.draft[a], a, call.session, given', ingest', files')
  BY <1>6, <1>7, OfOne
<1> QED
  BY <1>1, <1>3, <1>4, <1>5, <1>7, <1>8, <1>9, <1>10, OneAttachment

LEMMA RetryInv == ASSUME UploadInv, NEW a \in Att, RetryAttachment(a) PROVE UploadInv'
<1>1. /\ shown \in Session /\ a \in DOMAIN drafts[shown] /\ drafts[shown][a].state = "failed"
      /\ UNCHANGED <<call, given, files, shown, sdk>>
  BY DEF RetryAttachment, Draft, UploadInv, Types
<1>2. /\ ingest[a] \in Ingest /\ FilesIn(a, given, ingest, files)
      /\ EntryIn(drafts[shown][a], a, shown, given, ingest, files)
  BY <1>1, OfOne
<1>3. a \in given /\ ingest[a].session = shown /\ ingest[a].at = "idle" /\ \A g \in files : g[1] # a
  BY <1>1, <1>2 DEF EntryIn
<1>4. ingest'[a] \in Ingest /\ ingest'[a].at = "checking" /\ ingest'[a].session = shown
      /\ \A b \in Att : b # a => ingest'[b] = ingest[b]
  <2> DEFINE r == [ingest[a] EXCEPT !.at = "checking", !.session = shown]
  <2>1. r \in Ingest /\ r.at = "checking" /\ r.session = shown
    BY <1>1, <1>2 DEF Ingest, Place
  <2>2. ingest' = [ingest EXCEPT ![a] = r]
    BY DEF RetryAttachment
  <2> HIDE DEF r
  <2> QED
    BY <2>1, <2>2 DEF UploadInv, Types
<1>5. Types'
  BY <1>1, <1>4 DEF RetryAttachment, UploadInv, Types
<1>6. FilesIn(a, given', ingest', files')
  BY <1>1, <1>3, <1>4 DEF FilesIn
<1>7. \A s \in Session : /\ DOMAIN drafts'[s] = DOMAIN drafts[s]
                         /\ \A b \in DOMAIN drafts[s] :
                              drafts'[s][b] = IF s = shown /\ b = a THEN Uploading ELSE drafts[s][b]
  BY DEF RetryAttachment, Alter, Draft, UploadInv, Types
<1>8. \A s \in Session : Small(drafts'[s])
  BY <1>7, Fewer DEF UploadInv, DraftsHeld
<1>9. \A s \in Session : a \in DOMAIN drafts[s] => s = shown
  BY <1>3, OfOne DEF EntryIn
<1>10. EntryIn(Uploading, a, shown, given', ingest', files')
  BY <1>1, <1>3, <1>4 DEF EntryIn, Uploading, Entry
<1>11. \A s \in Session : a \in DOMAIN drafts'[s] =>
         EntryIn(drafts'[s][a], a, s, given', ingest', files')
  BY <1>7, <1>9, <1>10
<1>12. call # NoCall => a \notin DOMAIN call.draft
  <2> SUFFICES ASSUME call # NoCall, a \in DOMAIN call.draft PROVE FALSE
    OBVIOUS
  <2>1. call.session = shown
    BY <1>3, OfOne DEF EntryIn
  <2> QED
    BY <1>1, <2>1 DEF UploadInv, CallHeld
<1>13. call # NoCall => DOMAIN drafts'[call.session] \subseteq DOMAIN drafts[call.session]
  BY <1>7, OfOne
<1> QED
  BY <1>1, <1>4, <1>5, <1>6, <1>7, <1>8, <1>11, <1>12, <1>13, OneAttachment

LEMMA RemoveInv == ASSUME UploadInv, NEW a \in Att, RemoveAttachment(a) PROVE UploadInv'
<1>1. UNCHANGED <<call, given, files, shown, sdk, ingest>> /\ call = NoCall
  BY DEF RemoveAttachment, Busy
<1>2. Types'
  BY <1>1 DEF RemoveAttachment, SetDraft, UploadInv, Types
<1>3. \A s \in Session : /\ DOMAIN drafts'[s] \subseteq DOMAIN drafts[s]
                         /\ \A b \in DOMAIN drafts'[s] : drafts'[s][b] = drafts[s][b]
  BY DEF RemoveAttachment, SetDraft, UploadInv, Types, Without, Draft
<1>4. \A s \in Session : Small(drafts'[s])
  BY <1>3, Fewer DEF UploadInv, DraftsHeld
<1> QED
  BY <1>1, <1>2, <1>3, <1>4 DEF UploadInv, DraftsHeld, CallHeld, FilesHeld
-----------------------------------------------------------------------------
(* The steps about a whole draft.                                            *)
LEMMA EmptySmall == Small(NoDraft)
<1>1. DOMAIN NoDraft = {}
  BY DEF NoDraft
<1> QED
  BY <1>1, FS_EmptySet, UploadAssumption DEF Small

LEMMA SendsInv == ASSUME UploadInv, Sends PROVE UploadInv'
<1>1. /\ UNCHANGED <<given, files, shown, sdk, ingest>> /\ call = NoCall /\ shown \in Session
      /\ call' = [session |-> shown, draft |-> drafts[shown]]
      /\ \A s \in Session : drafts'[s] = IF s = shown THEN NoDraft ELSE drafts[s]
  BY DEF Sends, Busy, SetDraft, Draft, UploadInv, Types
<1>2. Types'
  BY <1>1 DEF Sends, SetDraft, UploadInv, Types
<1>3. DOMAIN NoDraft = {}
  BY DEF NoDraft
<1>4. DraftsHeld'
  BY <1>1, <1>3, EmptySmall DEF UploadInv, DraftsHeld
<1>5. CallHeld'
  BY <1>1, <1>3 DEF UploadInv, DraftsHeld, CallHeld
<1>6. FilesHeld'
  BY <1>1 DEF UploadInv, FilesHeld
<1> QED
  BY <1>2, <1>4, <1>5, <1>6 DEF UploadInv

LEMMA CallEndsInv == ASSUME UploadInv, CallEnds PROVE UploadInv'
<1>1. UNCHANGED <<given, files, shown, sdk, ingest>> /\ call # NoCall /\ call' = NoCall
  BY DEF CallEnds, Busy
<1>2. Types' /\ FilesHeld' /\ CallHeld'
  BY <1>1 DEF CallEnds, UploadInv, Types, FilesHeld, CallHeld
<1>3. \A s \in Session : drafts'[s] = drafts[s] \/ (s = call.session /\ drafts'[s] = call.draft)
  <2>1. drafts' = drafts \/ drafts' = [drafts EXCEPT ![call.session] = call.draft]
    BY DEF CallEnds
  <2>2. DOMAIN drafts = Session
    BY DEF UploadInv, Types
  <2> QED
    BY <2>1, <2>2
<1>4. DraftsHeld'
  BY <1>1, <1>3 DEF UploadInv, DraftsHeld, CallHeld
<1> QED
  BY <1>2, <1>4 DEF UploadInv

LEMMA ShowInv == ASSUME UploadInv, NEW s \in Session, Show(s) PROVE UploadInv'
BY DEF Show, UploadInv, Types, DraftsHeld, CallHeld, FilesHeld

LEMMA UploadInvInitially == UploadInit => UploadInv
<1> SUFFICES ASSUME UploadInit PROVE UploadInv
  OBVIOUS
<1>1. DOMAIN NoDraft = {} /\ Small(NoDraft)
  BY EmptySmall DEF NoDraft
<1>2. ingest \in [Att -> Ingest]
  BY DEF UploadInit, Ingest, Place
<1> QED
  BY <1>1, <1>2 DEF UploadInit, UploadInv, Types, DraftsHeld, CallHeld, FilesHeld, FilesIn

LEMMA UploadInvStep == UploadInv /\ [UploadNext]_uploadVars => UploadInv'
<1> SUFFICES ASSUME UploadInv, [UploadNext]_uploadVars PROVE UploadInv'
  OBVIOUS
<1>1. ASSUME NEW a \in Att, TimesOut(a) PROVE UploadInv'
  BY <1>1, AttemptFailsInv DEF TimesOut, UploadInv, Types
<1>2. ASSUME NEW a \in Att, NEW n \in 1..MaxCalls, SdkFails(a, n) PROVE UploadInv'
  <2>1. sdk' \subseteq File /\ UNCHANGED <<shown, files, call, given>>
    BY <1>2 DEF SdkFails, UploadInv, Types
  <2>2. CASE Lost(a, n)
    BY <1>2, <2>1, <2>2 DEF SdkFails, UploadInv, Types, DraftsHeld, CallHeld, FilesHeld
  <2>3. CASE ~Lost(a, n)
    BY <1>2, <2>1, <2>3, AttemptFailsInv DEF SdkFails, Lost
  <2> QED
    BY <2>2, <2>3
<1>3. CASE UNCHANGED uploadVars
  BY <1>3 DEF uploadVars, UploadInv, Types, DraftsHeld, CallHeld, FilesHeld
<1>4. CASE Send \/ SendChip
  BY <1>4, SendsInv DEF Send, SendChip
<1> QED
  BY <1>1, <1>2, <1>3, <1>4, AttachInv, ReadInv, RefusedInv, UploadAttemptInv, StoredInv, RetryInv,
     RemoveInv, SdkUploadsInv, ShowInv, CallEndsInv DEF UploadNext

(* The invariant the theorems about the composer's uploads rest on.          *)
THEOREM UploadInvariance == UploadSpec => []UploadInv
BY UploadInvInitially, UploadInvStep, PTL DEF UploadSpec
-----------------------------------------------------------------------------
(* No draft ever holds more uploads than one message may carry, also when a   *)
(* failed send gives its attachments back (canAttachUpload).                 *)
THEOREM NoDraftOutgrows == UploadSpec => []UploadsBounded
<1>1. UploadInv => UploadsBounded
  BY DEF UploadInv, DraftsHeld, Small, UploadsBounded
<1> QED
  BY <1>1, UploadInvariance, PTL

(* uploadFile: whatever times out, repeats and finishes late, the provider    *)
(* keeps of an attachment the file of its last attempt or none.              *)
THEOREM NoFileIsOrphaned == UploadSpec => []NoOrphanFiles
<1>1. ASSUME UploadInv, NEW f \in files
      PROVE  f = Attempt(f[1]) /\ ingest[f[1]].at \in {"storing", "idle"}
  <2>1. f[1] \in Att
    BY <1>1, FileParts DEF UploadInv, Types
  <2>2. FilesIn(f[1], given, ingest, files)
    BY <1>1, <2>1 DEF UploadInv, FilesHeld
  <2> QED
    BY <2>2 DEF FilesIn, Attempt
<1>2. UploadInv => NoOrphanFiles
  BY <1>1 DEF NoOrphanFiles
<1> QED
  BY <1>2, UploadInvariance, PTL

(* A ready attachment of any draft names a file the provider has.            *)
THEOREM ReadyFilesLive == UploadSpec => []ReadyFileLives
<1>1. UploadInv => ReadyFileLives
  BY DEF UploadInv, DraftsHeld, EntryIn, ReadyFileLives
<1> QED
  BY <1>1, UploadInvariance, PTL

(* Files and attachments account for each other, for any sessions,           *)
(* attachments and retries.                                                  *)
THEOREM FilesStayAccounted == UploadSpec => []FilesAreAccounted
<1>1. NoOrphanFiles /\ ReadyFileLives => FilesAreAccounted
  BY DEF FilesAreAccounted
<1> QED
  BY <1>1, NoFileIsOrphaned, ReadyFilesLive, PTL
-----------------------------------------------------------------------------
(* The images of the generator form.                                         *)

(* The list, the analysis and the captions, as every step leaves them.       *)
Text == {"", "typed", "caption", "name"}
Picture == [id : Image, status : {"pending", "analyzing", "done", "error"}, alt : Text,
            order : Nat]
Distinct(list) == \A j, k \in DOMAIN list : list[j].id = list[k].id => j = k
IdsOf(list) == {list[k].id : k \in DOMAIN list}

ListHeld ==
  /\ manifest \in Seq(Picture) /\ Distinct(manifest)
  /\ fileMap = Ids /\ Ids \subseteq added /\ added \subseteq Image
  /\ \A k \in DOMAIN manifest : manifest[k].order = k

QueueHeld == queue \in Seq(Picture) /\ Distinct(queue) /\ IdsOf(queue) \subseteq added

(* No two workers are at the same image.                                     *)
WorkHeld ==
  /\ DOMAIN work \subseteq Picture /\ IsFiniteSet(DOMAIN work)
  /\ Cardinality(DOMAIN work) <= Concurrency
  /\ \A e, f \in DOMAIN work : e.id = f.id => e = f
  /\ \A e \in DOMAIN work : e.id \in added
  /\ ~visionRun => DOMAIN work = {}

(* A caption was typed for an image that was added.                          *)
AltsHeld == DOMAIN typedAlt \subseteq added /\ TypedAltKept

Asked ==
  \A k \in DOMAIN manifest :
    manifest[k].status = "analyzing" <=> \E e \in DOMAIN work : e.id = manifest[k].id

ImageInv == ListHeld /\ QueueHeld /\ WorkHeld /\ AltsHeld /\ Asked

(* What a filter makes of a list without repetitions.                        *)
LEMMA FilterDistinct ==
  ASSUME NEW list \in Seq(Picture), Distinct(list), NEW places \in SUBSET DOMAIN list
  PROVE  /\ Filtered(list, places) \in Seq(Picture) /\ Distinct(Filtered(list, places))
         /\ \A n \in DOMAIN Filtered(list, places) : \E k \in places : Filtered(list, places)[n] = list[k]
         /\ \A k \in places : \E n \in DOMAIN Filtered(list, places) : Filtered(list, places)[n] = list[k]
<1>1. PICK kept : kept = Filtered(list, places)
  OBVIOUS
<1>2. /\ kept \in Seq(Picture)
      /\ \A n \in DOMAIN kept : kept[n] = list[Nth(places, n)] /\ Nth(places, n) \in places
      /\ \A m, n \in DOMAIN kept : Nth(places, m) = Nth(places, n) => m = n
      /\ \A k \in places : \E n \in DOMAIN kept : Nth(places, n) = k
  BY <1>1, FilterKeeps
<1>3. Distinct(kept)
  BY <1>2 DEF Distinct
<1>4. \A n \in DOMAIN kept : \E k \in places : kept[n] = list[k]
  BY <1>2
<1>5. \A k \in places : \E n \in DOMAIN kept : kept[n] = list[k]
  BY <1>2
<1> QED BY <1>1, <1>2, <1>3, <1>4, <1>5

(* A step that changes entries where they are.                               *)
LEMMA SameList ==
  ASSUME ListHeld, NEW list, list = [k \in DOMAIN manifest |-> list[k]], manifest' = list,
         \A k \in DOMAIN manifest :
           list[k] \in Picture /\ list[k].id = manifest[k].id /\ list[k].order = manifest[k].order,
         UNCHANGED <<fileMap, added>>
  PROVE  ListHeld' /\ DOMAIN manifest' = DOMAIN manifest
<1>1. DOMAIN manifest = 1 .. Len(manifest) /\ Len(manifest) \in Nat
  BY DEF ListHeld
<1>2. list \in Seq(Picture) /\ DOMAIN list = DOMAIN manifest
  BY <1>1
<1>3. Distinct(list)
  BY <1>2 DEF ListHeld, Distinct
<1>4. Ids' = Ids
  BY <1>2 DEF Ids
<1> QED BY <1>2, <1>3, <1>4 DEF ListHeld

(* What does not change stays held.                                          *)
LEMMA SameQueue == QueueHeld /\ UNCHANGED queue /\ added \subseteq added' => QueueHeld'
BY DEF QueueHeld, Distinct, IdsOf

(* The workers stay the same.                                                *)
LEMMA SameWork ==
  WorkHeld /\ DOMAIN work' = DOMAIN work /\ added \subseteq added' /\ UNCHANGED visionRun => WorkHeld'
BY DEF WorkHeld

(* addGenImgFiles: the id is new.                                            *)
LEMMA AddImageInv == ASSUME ImageInv, NEW id \in Image, AddImage(id) PROVE ImageInv'
<1>1. PICK new : /\ new = [id |-> id, status |-> "pending", alt |-> "", order |-> Len(manifest) + 1]
                 /\ manifest' = Append(manifest, new)
  BY DEF AddImage
<1>2. /\ id \notin added /\ added' = added \cup {id} /\ fileMap' = fileMap \cup {id}
      /\ UNCHANGED <<visionRun, queue, work, typedAlt>>
  BY DEF AddImage
<1>3. /\ manifest \in Seq(Picture) /\ Len(manifest) \in Nat
      /\ DOMAIN manifest = 1 .. Len(manifest)
  BY DEF ImageInv, ListHeld
<1>4. /\ new \in Picture
      /\ new.id = id /\ new.status = "pending" /\ new.alt = "" /\ new.order = Len(manifest) + 1
  <2>1. Len(manifest) + 1 \in Nat
    BY <1>3
  <2>2. \A n \in Nat : [id |-> id, status |-> "pending", alt |-> "", order |-> n] \in Picture
    BY DEF Picture, Text
  <2> QED BY <1>1, <2>1, <2>2
<1>5. /\ manifest' \in Seq(Picture) /\ DOMAIN manifest' = 1 .. Len(manifest) + 1
      /\ \A k \in 1 .. Len(manifest) : manifest'[k] = manifest[k]
      /\ manifest'[Len(manifest) + 1] = new
  <2>1. /\ manifest' \in Seq(Picture) /\ Len(manifest') = Len(manifest) + 1
        /\ \A k \in 1 .. Len(manifest) : manifest'[k] = manifest[k]
        /\ manifest'[Len(manifest) + 1] = new
    <3>1. /\ Append(manifest, new) \in Seq(Picture) /\ Len(Append(manifest, new)) = Len(manifest) + 1
          /\ \A k \in 1 .. Len(manifest) : Append(manifest, new)[k] = manifest[k]
          /\ Append(manifest, new)[Len(manifest) + 1] = new
      <4>1. manifest \in Seq(Picture) /\ new \in Picture
        BY <1>3, <1>4
      <4> QED BY <4>1, AppendProperties
    <3> QED BY <1>1, <3>1, Zenon
  <2> QED BY <2>1
<1>6. \A k \in DOMAIN manifest' :
        \/ k \in DOMAIN manifest /\ manifest'[k] = manifest[k] /\ manifest[k].id # id
        \/ k = Len(manifest) + 1 /\ manifest'[k] = new
  <2>1. \A k \in DOMAIN manifest : manifest[k].id # id
    BY <1>2 DEF ImageInv, ListHeld, Ids
  <2> QED BY <1>3, <1>5, <2>1
<1>7. ListHeld'
  <2>1. Distinct(manifest')
    BY <1>4, <1>6 DEF Distinct, ImageInv, ListHeld
  <2>2. Ids' = Ids \cup {id}
    <3>1. \A x \in Ids' : x \in Ids \cup {id}
      BY <1>4, <1>6 DEF Ids
    <3>2. \A k \in DOMAIN manifest : k \in DOMAIN manifest' /\ manifest'[k] = manifest[k]
      BY <1>3, <1>5
    <3>3. Len(manifest) + 1 \in DOMAIN manifest' /\ manifest'[Len(manifest) + 1].id = id
      <4>1. Len(manifest) + 1 \in 1 .. Len(manifest) + 1
        BY <1>3
      <4> QED BY <1>4, <1>5, <4>1
    <3> QED BY <3>1, <3>2, <3>3 DEF Ids
  <2>3. \A k \in DOMAIN manifest' : manifest'[k].order = k
    BY <1>4, <1>6 DEF ImageInv, ListHeld
  <2> QED BY <1>2, <1>5, <2>1, <2>2, <2>3 DEF ImageInv, ListHeld
<1>8. AltsHeld'
  <2>1. id \notin DOMAIN typedAlt
    BY <1>2 DEF ImageInv, AltsHeld
  <2> QED BY <1>2, <1>4, <1>6, <2>1 DEF ImageInv, AltsHeld, TypedAltKept
<1>9. Asked'
  <2>1. \A e \in DOMAIN work : e.id # id
    BY <1>2 DEF ImageInv, WorkHeld
  <2> QED BY <1>2, <1>4, <1>6, <2>1 DEF ImageInv, Asked
<1> QED BY <1>2, <1>7, <1>8, <1>9, SameQueue, SameWork DEF ImageInv

(* removeGenImg: the other entries move up.                                  *)
LEMMA RemoveImageInv == ASSUME ImageInv, NEW id \in Image, RemoveImage(id) PROVE ImageInv'
<1>1. PICK places, kept :
        /\ places = {k \in DOMAIN manifest : manifest[k].id # id}
        /\ kept = Filtered(manifest, places)
        /\ manifest' = Renumber(kept)
  BY DEF RemoveImage
<1>2. fileMap' = fileMap \ {id} /\ UNCHANGED <<added, visionRun, queue, work, typedAlt>>
  BY DEF RemoveImage
<1>3. /\ kept \in Seq(Picture) /\ Distinct(kept)
      /\ \A n \in DOMAIN kept : \E k \in places : kept[n] = manifest[k]
      /\ \A k \in places : \E n \in DOMAIN kept : kept[n] = manifest[k]
  <2>1. places \in SUBSET DOMAIN manifest /\ manifest \in Seq(Picture) /\ Distinct(manifest)
    BY <1>1 DEF ImageInv, ListHeld
  <2> QED BY <1>1, <2>1, FilterDistinct
<1>4. DOMAIN kept = 1 .. Len(kept) /\ Len(kept) \in Nat /\ \A n \in DOMAIN kept : kept[n] \in Picture
  BY <1>3
<1>5. ASSUME NEW n \in DOMAIN kept
      PROVE  /\ [kept[n] EXCEPT !.order = n] \in Picture
             /\ [kept[n] EXCEPT !.order = n].id = kept[n].id
             /\ [kept[n] EXCEPT !.order = n].status = kept[n].status
             /\ [kept[n] EXCEPT !.order = n].alt = kept[n].alt
             /\ [kept[n] EXCEPT !.order = n].order = n
  BY <1>4 DEF Picture
<1>6. /\ manifest' = [n \in DOMAIN kept |-> [kept[n] EXCEPT !.order = n]]
      /\ DOMAIN manifest' = DOMAIN kept
  BY <1>1 DEF Renumber
<1>7. \A n \in DOMAIN kept :
        /\ manifest'[n] \in Picture
        /\ manifest'[n].id = kept[n].id /\ manifest'[n].status = kept[n].status
        /\ manifest'[n].alt = kept[n].alt /\ manifest'[n].order = n
  BY <1>5, <1>6
<1>8. manifest' \in Seq(Picture)
  BY <1>4, <1>6, <1>7
<1>9. \A n \in DOMAIN manifest' : \E k \in DOMAIN manifest :
        /\ manifest[k].id # id /\ manifest'[n].id = manifest[k].id
        /\ manifest'[n].status = manifest[k].status /\ manifest'[n].alt = manifest[k].alt
  <2> SUFFICES ASSUME NEW n \in DOMAIN kept
               PROVE  \E k \in DOMAIN manifest :
                 /\ manifest[k].id # id /\ manifest'[n].id = manifest[k].id
                 /\ manifest'[n].status = manifest[k].status /\ manifest'[n].alt = manifest[k].alt
    BY <1>6
  <2>1. PICK k \in places : kept[n] = manifest[k]
    BY <1>3
  <2>2. k \in DOMAIN manifest /\ manifest[k].id # id
    BY <1>1
  <2> QED BY <1>7, <2>1, <2>2
<1>10. \A k \in DOMAIN manifest : manifest[k].id # id =>
         \E n \in DOMAIN manifest' : manifest'[n].id = manifest[k].id
  <2>1. \A k \in DOMAIN manifest : manifest[k].id # id => k \in places
    BY <1>1
  <2> QED BY <1>3, <1>6, <1>7, <2>1
<1>11. ListHeld'
  <2>1. Distinct(manifest')
    BY <1>3, <1>6, <1>7 DEF Distinct
  <2>2. Ids' = Ids \ {id}
    BY <1>9, <1>10 DEF Ids
  <2> QED BY <1>2, <1>6, <1>7, <1>8, <2>1, <2>2 DEF ImageInv, ListHeld
<1>12. AltsHeld'
  BY <1>2, <1>9 DEF ImageInv, AltsHeld, TypedAltKept
<1>13. Asked'
  BY <1>2, <1>9 DEF ImageInv, Asked
<1> QED BY <1>2, <1>11, <1>12, <1>13, SameQueue, SameWork DEF ImageInv

(* clearGenImgManifest                                                       *)
LEMMA ClearImagesInv == ASSUME ImageInv, ClearImages PROVE ImageInv'
<1>1. manifest' = << >> /\ fileMap' = {} /\ UNCHANGED <<added, visionRun, queue, work, typedAlt>>
  BY DEF ClearImages
<1>2. DOMAIN manifest' = {} /\ manifest' \in Seq(Picture)
  BY <1>1
<1>3. ListHeld'
  BY <1>1, <1>2 DEF ListHeld, ImageInv, Distinct, Ids
<1>4. AltsHeld' /\ Asked'
  BY <1>1, <1>2 DEF AltsHeld, TypedAltKept, Asked, ImageInv
<1> QED BY <1>1, <1>3, <1>4, SameQueue, SameWork DEF ImageInv

(* updateGenAltText: the entry has the text, and so the book of the user.    *)
LEMMA TypeAltInv ==
  ASSUME ImageInv, NEW id \in Image, NEW text \in Text, TypeAlt(id, text)
  PROVE  ImageInv'
<1>1. PICK list :
        /\ list = [k \in DOMAIN manifest |->
                     IF manifest[k].id = id THEN [manifest[k] EXCEPT !.alt = text] ELSE manifest[k]]
        /\ manifest' = list
  BY DEF TypeAlt
<1>2. /\ id \in Ids /\ UNCHANGED <<fileMap, added, visionRun, queue, work>>
      /\ typedAlt' = [i \in DOMAIN typedAlt \cup {id} |-> IF i = id THEN text ELSE typedAlt[i]]
  BY DEF TypeAlt
<1>3. \A k \in DOMAIN manifest : manifest[k] \in Picture
  BY DEF ImageInv, ListHeld
<1>4. ASSUME NEW k \in DOMAIN manifest
      PROVE  /\ list[k] \in Picture /\ list[k].id = manifest[k].id
             /\ list[k].order = manifest[k].order /\ list[k].status = manifest[k].status
             /\ manifest[k].id = id => list[k].alt = text
             /\ manifest[k].id # id => list[k].alt = manifest[k].alt
  BY <1>1, <1>3 DEF Picture
<1>5. ListHeld' /\ DOMAIN manifest' = DOMAIN manifest
  <2>1. list = [k \in DOMAIN manifest |-> list[k]]
    BY <1>1
  <2>2. ListHeld /\ manifest' = list /\ UNCHANGED <<fileMap, added>>
    BY <1>1, <1>2 DEF ImageInv
  <2>3. \A k \in DOMAIN manifest :
          list[k] \in Picture /\ list[k].id = manifest[k].id /\ list[k].order = manifest[k].order
    BY <1>4
  <2> QED BY <2>1, <2>2, <2>3, SameList
<1>6. AltsHeld'
  <2>1. DOMAIN typedAlt' = DOMAIN typedAlt \cup {id} /\ id \in added
    BY <1>2 DEF ImageInv, ListHeld
  <2>2. typedAlt'[id] = text /\ \A i \in DOMAIN typedAlt \ {id} : typedAlt'[i] = typedAlt[i]
    BY <1>2
  <2> QED BY <1>1, <1>2, <1>4, <1>5, <2>1, <2>2, ZenonT(60) DEF ImageInv, AltsHeld, TypedAltKept
<1>7. Asked'
  BY <1>1, <1>2, <1>4, <1>5 DEF ImageInv, Asked
<1> QED BY <1>2, <1>5, <1>6, <1>7, SameQueue, SameWork DEF ImageInv

(* A worker that ends: its entry b is no longer being analyzed, and keeps    *)
(* the caption e has.                                                        *)
Answered(e, was, b) ==
  /\ b \in Picture /\ b.id = e.id /\ b.order = e.order
  /\ e.alt # "" => b.alt = e.alt
  /\ e.id = was.id => b.status # "analyzing"
  /\ e.id # was.id => b.status = e.status

(* What Answer makes of an entry.                                            *)
LEMMA AnswerKeeps ==
  ASSUME NEW e \in Picture, NEW was, NEW status \in {"done", "error"}, NEW text \in Text
  PROVE  Answered(e, was, Answer(e, was, status, text))
<1>1. Caption(e, was, text) \in Text /\ (e.alt # "" => Caption(e, was, text) = e.alt)
  BY DEF Caption, Picture
<1>2. PICK alt \in Text : alt = Caption(e, was, text) /\ (e.alt # "" => alt = e.alt)
  BY <1>1
<1>3. /\ [e EXCEPT !.status = status, !.alt = alt] \in Picture
      /\ [e EXCEPT !.status = status, !.alt = alt].id = e.id
      /\ [e EXCEPT !.status = status, !.alt = alt].order = e.order
      /\ [e EXCEPT !.status = status, !.alt = alt].alt = alt
      /\ [e EXCEPT !.status = status, !.alt = alt].status = status
  BY DEF Picture
<1> QED BY <1>2, <1>3 DEF Answer, Answered

(* A caption stays what was typed while entries keep what they have.         *)
LEMMA SameAlts ==
  ASSUME AltsHeld, UNCHANGED <<typedAlt, added>>, DOMAIN manifest' = DOMAIN manifest,
         \A k \in DOMAIN manifest :
           /\ manifest'[k].id = manifest[k].id
           /\ manifest[k].alt # "" => manifest'[k].alt = manifest[k].alt
  PROVE  AltsHeld'
BY DEF AltsHeld, TypedAltKept

(* EndImage: one entry is answered, the other workers go on.                 *)
LEMMA EndInv ==
  ASSUME ImageInv, NEW e \in DOMAIN work, NEW status \in {"done", "error"}, NEW text \in Text,
         EndImage(e, status, text)
  PROVE  ImageInv'
<1>1. PICK list :
        /\ list = [k \in DOMAIN manifest |-> Answer(manifest[k], e, status, text)]
        /\ manifest' = list
  BY DEF EndImage
<1>2. /\ DOMAIN work' = DOMAIN work \ {e}
      /\ UNCHANGED <<fileMap, added, visionRun, queue, typedAlt>>
  BY DEF EndImage
<1>3. \A k \in DOMAIN manifest : manifest[k] \in Picture
  BY DEF ImageInv, ListHeld
<1>4. \A k \in DOMAIN manifest :
        /\ list[k] \in Picture /\ list[k].id = manifest[k].id /\ list[k].order = manifest[k].order
        /\ manifest[k].alt # "" => list[k].alt = manifest[k].alt
        /\ manifest[k].id = e.id => list[k].status # "analyzing"
        /\ manifest[k].id # e.id => list[k].status = manifest[k].status
  <2> SUFFICES ASSUME NEW k \in DOMAIN manifest
               PROVE
        /\ list[k] \in Picture /\ list[k].id = manifest[k].id /\ list[k].order = manifest[k].order
        /\ manifest[k].alt # "" => list[k].alt = manifest[k].alt
        /\ manifest[k].id = e.id => list[k].status # "analyzing"
        /\ manifest[k].id # e.id => list[k].status = manifest[k].status
    OBVIOUS
  <2>1. list[k] = Answer(manifest[k], e, status, text) /\ manifest[k] \in Picture
    BY <1>1, <1>3
  <2>2. Answered(manifest[k], e, Answer(manifest[k], e, status, text))
    BY <2>1, AnswerKeeps
  <2> QED BY <2>1, <2>2 DEF Answered
<1>5. ListHeld' /\ DOMAIN manifest' = DOMAIN manifest
  <2>1. list = [k \in DOMAIN manifest |-> list[k]]
    BY <1>1
  <2>2. ListHeld /\ manifest' = list /\ UNCHANGED <<fileMap, added>>
    BY <1>1, <1>2 DEF ImageInv
  <2>3. \A k \in DOMAIN manifest :
          list[k] \in Picture /\ list[k].id = manifest[k].id /\ list[k].order = manifest[k].order
    BY <1>4
  <2> QED BY <2>1, <2>2, <2>3, SameList
<1>6. WorkHeld'
  <2>1. DOMAIN work' \in SUBSET DOMAIN work /\ IsFiniteSet(DOMAIN work)
    BY <1>2 DEF ImageInv, WorkHeld
  <2>2. IsFiniteSet(DOMAIN work') /\ Cardinality(DOMAIN work') <= Cardinality(DOMAIN work)
    BY <2>1, FS_Subset
  <2>3. Cardinality(DOMAIN work') \in Nat /\ Cardinality(DOMAIN work) \in Nat
    BY <2>1, <2>2, FS_CardinalityType
  <2> QED BY <1>2, <2>1, <2>2, <2>3, ImageAssumption DEF ImageInv, WorkHeld
<1>7. AltsHeld'
  BY <1>1, <1>2, <1>4, <1>5, SameAlts DEF ImageInv
<1>8. Asked'
  <2> SUFFICES ASSUME NEW k \in DOMAIN manifest
               PROVE  list[k].status = "analyzing" <=> \E f \in DOMAIN work' : f.id = list[k].id
    BY <1>1, <1>5 DEF Asked
  <2>1. CASE manifest[k].id = e.id
    BY <1>2, <1>4, <2>1 DEF ImageInv, WorkHeld
  <2>2. CASE manifest[k].id # e.id
    BY <1>2, <1>4, <2>2, ZenonT(60) DEF ImageInv, Asked
  <2> QED BY <2>1, <2>2
<1> QED BY <1>2, <1>5, <1>6, <1>7, <1>8, SameQueue DEF ImageInv

(* A batch of entries of distinct ids, none of them at work before.          *)
LEMMA BatchInv ==
  ASSUME ImageInv, DOMAIN work = {}, NEW entries \in Seq(Picture), Distinct(entries),
         IdsOf(entries) \subseteq added, NEW counted, StartBatch(manifest, entries, counted),
         visionRun', UNCHANGED <<fileMap, added, typedAlt>>
  PROVE  ImageInv'
<1> DEFINE n == IF Len(entries) < Concurrency THEN Len(entries) ELSE Concurrency
           batch == {entries[k] : k \in 1 .. n}
           able == {e \in batch : e.id \in fileMap}
           asked(e) == {was \in batch : was.id = e.id}
           begun == [k \in DOMAIN manifest |->
                       IF asked(manifest[k]) = {} THEN manifest[k]
                       ELSE Begun(manifest[k], CHOOSE was \in asked(manifest[k]) : TRUE)]
<1>1. n = IF Len(entries) < Concurrency THEN Len(entries) ELSE Concurrency
  OBVIOUS
<1>2. batch = {entries[k] : k \in 1 .. n}
  OBVIOUS
<1>3. able = {e \in batch : e.id \in fileMap}
  OBVIOUS
<1>4. manifest' = begun
  BY DEF StartBatch
<1>5. PICK list :
        /\ list = begun
        /\ manifest' = list
  BY <1>4
<1>6. /\ DOMAIN work' = able
      /\ queue' = SubSeq(entries, n + 1, Len(entries))
  BY DEF StartBatch
<1> HIDE DEF n, batch, able
<1>7. /\ n \in Nat /\ n <= Concurrency /\ n <= Len(entries) /\ Len(entries) \in Nat
      /\ DOMAIN entries = 1 .. Len(entries) /\ \A k \in 1 .. Len(entries) : entries[k] \in Picture
  BY <1>1, ImageAssumption
<1>8. /\ batch \subseteq Picture
      /\ \A e \in batch : \E k \in DOMAIN entries : k <= n /\ e = entries[k]
  BY <1>2, <1>7
<1>9. \A e, f \in batch : e.id = f.id => e = f
  BY <1>8 DEF Distinct
<1>10. \A e \in batch : e.id \in added
  BY <1>8 DEF IdsOf
<1>11. WorkHeld'
  <2>1. IsFiniteSet(batch) /\ Cardinality(batch) <= n
    <3>1. PICK f : f = [k \in 1 .. n |-> entries[k]]
      OBVIOUS
    <3>2. f \in Surjection(1 .. n, batch)
      BY <1>2, <3>1 DEF Surjection
    <3>3. IsFiniteSet(1 .. n) /\ Cardinality(1 .. n) = n
      BY <1>7, FS_Interval
    <3> QED BY <3>2, <3>3, FS_Surjection
  <2>2. IsFiniteSet(able) /\ Cardinality(able) <= Cardinality(batch)
    BY <1>3, <2>1, FS_Subset
  <2>3. Cardinality(able) \in Nat /\ Cardinality(batch) \in Nat
    BY <2>1, <2>2, FS_CardinalityType
  <2>4. Cardinality(able) <= Concurrency
    BY <1>7, <2>1, <2>2, <2>3, ImageAssumption
  <2> QED BY <1>3, <1>6, <1>8, <1>9, <1>10, <2>2, <2>4 DEF WorkHeld
<1>12. QueueHeld'
  <2>1. /\ queue' \in Seq(Picture)
        /\ \A k \in DOMAIN queue' : k + n \in DOMAIN entries /\ queue'[k] = entries[k + n]
    BY <1>6, <1>7
  <2>2. \A k \in DOMAIN queue' : k \in Nat
    BY <2>1
  <2>3. Distinct(queue')
    <3> SUFFICES ASSUME NEW j \in DOMAIN queue', NEW k \in DOMAIN queue', queue'[j].id = queue'[k].id
                 PROVE  j = k
      BY DEF Distinct
    <3>1. j + n = k + n
      BY <2>1 DEF Distinct
    <3> QED BY <1>7, <2>2, <3>1
  <2> QED BY <2>1, <2>3 DEF QueueHeld, IdsOf
<1>13. \A k \in DOMAIN manifest : manifest[k] \in Picture /\ manifest[k].id \in fileMap
  BY DEF ImageInv, ListHeld, Ids
<1>14. ASSUME NEW k \in DOMAIN manifest
       PROVE  /\ list[k] \in Picture /\ list[k].id = manifest[k].id
              /\ list[k].order = manifest[k].order /\ list[k].alt = manifest[k].alt
              /\ list[k].status = IF asked(manifest[k]) = {} THEN manifest[k].status ELSE "analyzing"
  <2>1. PICK was : was = CHOOSE w \in asked(manifest[k]) : TRUE
    OBVIOUS
  <2>2. Begun(manifest[k], was) = [manifest[k] EXCEPT !.status = "analyzing"]
    BY <1>13 DEF Begun
  <2>3. list[k] = IF asked(manifest[k]) = {} THEN manifest[k] ELSE [manifest[k] EXCEPT !.status = "analyzing"]
    BY <1>4, <1>5, <2>1, <2>2
  <2>4. /\ [manifest[k] EXCEPT !.status = "analyzing"] \in Picture
        /\ [manifest[k] EXCEPT !.status = "analyzing"].id = manifest[k].id
        /\ [manifest[k] EXCEPT !.status = "analyzing"].order = manifest[k].order
        /\ [manifest[k] EXCEPT !.status = "analyzing"].alt = manifest[k].alt
        /\ [manifest[k] EXCEPT !.status = "analyzing"].status = "analyzing"
    BY <1>13 DEF Picture
  <2> QED BY <1>13, <2>3, <2>4
<1>15. ListHeld' /\ DOMAIN manifest' = DOMAIN manifest
  <2>1. list = [k \in DOMAIN manifest |-> list[k]]
    BY <1>5
  <2>2. ListHeld /\ manifest' = list /\ UNCHANGED <<fileMap, added>>
    BY <1>5 DEF ImageInv
  <2>3. \A k \in DOMAIN manifest :
          list[k] \in Picture /\ list[k].id = manifest[k].id /\ list[k].order = manifest[k].order
    BY <1>14
  <2> QED BY <2>1, <2>2, <2>3, SameList
<1>16. AltsHeld'
  BY <1>5, <1>14, <1>15, SameAlts DEF ImageInv
<1>17. Asked'
  <2> SUFFICES ASSUME NEW k \in DOMAIN manifest
               PROVE  list[k].status = "analyzing" <=> \E e \in DOMAIN work' : e.id = list[k].id
    BY <1>5, <1>15, ZenonT(60) DEF Asked
  <2>1. manifest[k].status # "analyzing"
    BY DEF ImageInv, Asked
  <2>3. asked(manifest[k]) # {} <=> \E e \in DOMAIN work' : e.id = manifest[k].id
    BY <1>3, <1>6, <1>13
  <2> QED BY <1>14, <2>1, <2>3
<1> QED BY <1>11, <1>12, <1>15, <1>16, <1>17 DEF ImageInv

(* analyzeGenImages: the pending entries of the list, each once.             *)
LEMMA AnalyzeInv == ASSUME ImageInv, Analyze PROVE ImageInv'
<1>1. PICK places : places = {k \in DOMAIN manifest : manifest[k].status = "pending"}
  OBVIOUS
<1>2. PICK entries : entries = Filtered(manifest, places)
  OBVIOUS
<1>3. /\ entries \in Seq(Picture) /\ Distinct(entries)
      /\ \A n \in DOMAIN entries : \E k \in places : entries[n] = manifest[k]
  <2>1. places \in SUBSET DOMAIN manifest /\ manifest \in Seq(Picture) /\ Distinct(manifest)
    BY <1>1 DEF ImageInv, ListHeld
  <2> QED BY <1>2, <2>1, FilterDistinct
<1>4. IdsOf(entries) \subseteq added
  <2> SUFFICES ASSUME NEW n \in DOMAIN entries PROVE entries[n].id \in added
    BY DEF IdsOf
  <2>1. PICK k \in DOMAIN manifest : entries[n] = manifest[k]
    BY <1>1, <1>3
  <2> QED BY <2>1 DEF ImageInv, ListHeld, Ids
<1>5. /\ StartBatch(manifest, entries, 0) /\ visionRun' /\ DOMAIN work = {}
      /\ UNCHANGED <<fileMap, added, typedAlt>>
  BY <1>1, <1>2 DEF Analyze, Pending, ImageInv, WorkHeld
<1> QED BY <1>3, <1>4, <1>5, BatchInv

(* A worker that waits for the next answer.                                  *)
LEMMA WaitInv ==
  ASSUME ImageInv, DOMAIN work' = DOMAIN work, UNCHANGED visionRun \/ DOMAIN work = {},
         UNCHANGED <<manifest, fileMap, added, queue, typedAlt>>
  PROVE  ImageInv'
<1>1. ListHeld'
  BY DEF ImageInv, ListHeld, Ids, Distinct
<1>2. AltsHeld'
  BY DEF ImageInv, AltsHeld, TypedAltKept
<1>3. Asked'
  BY DEF ImageInv, Asked
<1>4. WorkHeld'
  BY DEF ImageInv, WorkHeld
<1> QED BY <1>1, <1>2, <1>3, <1>4, SameQueue DEF ImageInv

(* The next batch of the queue, or the end of the run.                       *)
LEMMA NextBatchInv == ASSUME ImageInv, NextBatch PROVE ImageInv'
<1>1. DOMAIN work = {} /\ visionRun /\ UNCHANGED <<fileMap, added, typedAlt>>
  BY DEF NextBatch
<1>2. CASE queue # << >>
  <2>1. StartBatch(manifest, queue, answered) /\ visionRun'
    BY <1>1, <1>2 DEF NextBatch
  <2>2. queue \in Seq(Picture) /\ Distinct(queue) /\ IdsOf(queue) \subseteq added
    BY DEF ImageInv, QueueHeld
  <2> QED BY <1>1, <2>1, <2>2, BatchInv
<1>3. CASE queue = << >>
  <2>1. UNCHANGED <<manifest, work, queue>>
    BY <1>3 DEF NextBatch
  <2> QED BY <1>1, <2>1, WaitInv
<1> QED BY <1>2, <1>3

(* Every step.                                                               *)
LEMMA ImageStep == ImageInv /\ [ImageNext]_imageVars => ImageInv'
<1> SUFFICES ASSUME ImageInv, [ImageNext]_imageVars PROVE ImageInv'
  OBVIOUS
<1>1. ASSUME NEW id \in Image, TypeAlt(id, "typed") \/ TypeAlt(id, "") PROVE ImageInv'
  BY <1>1, TypeAltInv DEF Text
<1>2. ASSUME NEW e \in DOMAIN work, ReadImage(e) \/ AskAgain(e) PROVE ImageInv'
  <2>1. DOMAIN work' = DOMAIN work
    BY <1>2 DEF ReadImage, AskAgain
  <2>2. UNCHANGED <<manifest, fileMap, added, visionRun, queue, typedAlt>>
    BY <1>2 DEF ReadImage, AskAgain
  <2> QED BY <2>1, <2>2, WaitInv
<1>3. ASSUME NEW e \in DOMAIN work, EndImage(e, "done", "caption") \/ EndImage(e, "error", "name")
      PROVE  ImageInv'
  BY <1>3, EndInv DEF Text
<1>4. CASE UNCHANGED imageVars
  BY <1>4, WaitInv DEF imageVars
<1> QED BY <1>1, <1>2, <1>3, <1>4, AddImageInv, RemoveImageInv, ClearImagesInv, AnalyzeInv, NextBatchInv DEF ImageNext

(* The start.                                                                *)
LEMMA ImageInvInitially == ImageInit => ImageInv
<1> SUFFICES ASSUME ImageInit PROVE ImageInv
  OBVIOUS
<1>1. /\ manifest = << >> /\ queue = << >> /\ fileMap = {} /\ DOMAIN work = {} /\ DOMAIN typedAlt = {}
      /\ added = {}
  BY DEF ImageInit
<1>2. DOMAIN manifest = {} /\ DOMAIN queue = {} /\ manifest \in Seq(Picture) /\ queue \in Seq(Picture)
  BY <1>1
<1>3. ListHeld /\ QueueHeld
  BY <1>1, <1>2 DEF ListHeld, QueueHeld, Distinct, Ids, IdsOf
<1>4. WorkHeld
  BY <1>1, FS_EmptySet, ImageAssumption DEF WorkHeld
<1>5. AltsHeld /\ Asked
  BY <1>1, <1>2 DEF AltsHeld, TypedAltKept, Asked
<1> QED BY <1>3, <1>4, <1>5 DEF ImageInv

(* The list of the form, the files kept for it, the captions and the workers *)
(* agree for any images, any concurrency and any typing: ids are given once, *)
(* no two workers are at the same image, and a run starts with none.         *)
THEOREM ImagesStayAgreed == ImageSpec => []ImagesAgree
<1>1. ImageInv => ImagesAgree
  BY DEF ImageInv, ListHeld, WorkHeld, AltsHeld, Asked, ImagesAgree
<1> QED BY <1>1, ImageInvInitially, ImageStep, PTL DEF ImageSpec

-----------------------------------------------------------------------------
(* The HTML editor.  The steps of its folds, and the folds over any list.    *)
FoundStep(flat, word, acc, i) ==
  IF /\ acc = << >> \/ i >= Last(acc) + Len(word)
     /\ i + Len(word) <= Len(flat)
     /\ SubSeq(flat, i + 1, i + Len(word)) = word
  THEN Append(acc, i) ELSE acc
FoundIn(flat, word, L) == FoldLeft(LAMBDA acc, i : FoundStep(flat, word, acc, i), << >>, L)

ReplacedIn(html, letters, L) ==
  FoldLeft(LAMBDA acc, match : insertText(acc, match, letters), html, L)

RetoldStep(text, found, len, new, acc, n) ==
  LET from == IF n = 1 THEN 0 ELSE found[n - 1] + len
  IN acc \o SubSeq(text, from + 1, found[n]) \o new
RetoldIn(text, found, len, new, L) ==
  FoldLeft(LAMBDA acc, n : RetoldStep(text, found, len, new, acc, n), << >>, L)

(* The search, from place to place.                                          *)
FoundSteps(r, N, L, flat, word) ==
  /\ r[0] = << >> /\ r[N] = FoundIn(flat, word, L)
  /\ \A n \in 1 .. N : r[n] = FoundStep(flat, word, r[n - 1], L[n])

(* A fold over a list has a run: what it holds after every step.             *)
LEMMA FoundRun ==
  ASSUME NEW N \in Nat, NEW L, DOMAIN L = 1 .. N, NEW flat, NEW word
  PROVE  \E r : FoundSteps(r, N, L, flat, word)
<1> DEFINE Op(acc, i) == FoundStep(flat, word, acc, i)
           Value(h, s) == IF s = {} THEN << >> ELSE Op(h[s \ {Max(s)}], L[Max(s)])
           it == CHOOSE h : h = [s \in SUBSET (1 .. N) |-> Value(h, s)]
           Known(n, h) == \A s \in SUBSET (1 .. n) : h[s] = Value(h, s)
           M == {n \in Nat : n <= N => \E h : Known(n, h)}
<1>1. FoundIn(flat, word, L) = it[1 .. N]
  BY DEF FoundIn, FoldLeft, MapThenFoldSet
<1>2. 0 \in M
  <2> DEFINE h == [s \in SUBSET (1 .. 0) |-> << >>]
  <2>1. Known(0, h)
    <3> HIDE DEF Op
    <3>1. \A s \in SUBSET (1 .. 0) : s = {}
      OBVIOUS
    <3> QED BY <3>1
  <2> HIDE DEF Known, h
  <2> QED BY <2>1
<1>3. ASSUME NEW n \in Nat, n \in M PROVE n + 1 \in M
  <2> SUFFICES ASSUME n + 1 <= N PROVE \E h : Known(n + 1, h)
    <3> HIDE DEF Known
    <3> QED OBVIOUS
  <2>1. PICK f : Known(n, f)
    <3> HIDE DEF Known
    <3> QED BY <1>3
  <2> DEFINE h == [s \in SUBSET (1 .. n + 1) |-> Value(f, s)]
  <2> HIDE DEF Op
  <2>2. ASSUME NEW s \in SUBSET (1 .. n + 1) PROVE h[s] = Value(h, s)
    <3>1. CASE s = {}
      BY <3>1
    <3>2. CASE s # {}
      <4> DEFINE m == n + 1
      <4>1. m \in Nat /\ s \in SUBSET (1 .. m)
        OBVIOUS
      <4>2. Max(s) \in s /\ \A y \in s : y <= Max(s)
        <5> HIDE DEF m
        <5> QED BY <3>2, <4>1, PlacesHaveLast
      <4>3. s \ {Max(s)} \in SUBSET (1 .. n) /\ s \ {Max(s)} \in SUBSET (1 .. n + 1)
        <5>1. \A y \in s : y # Max(s) => y \in 1 .. n
          <6> SUFFICES ASSUME NEW y \in s, y # Max(s) PROVE y \in 1 .. n
            OBVIOUS
          <6>1. y \in 1 .. n + 1 /\ Max(s) \in 1 .. n + 1 /\ y <= Max(s)
            BY <4>1, <4>2
          <6> HIDE DEF m
          <6> QED BY <6>1
        <5> QED BY <5>1
      <4>4. h[s \ {Max(s)}] = f[s \ {Max(s)}]
        BY <2>1, <4>3
      <4> QED BY <3>2, <4>4
    <3> QED BY <3>1, <3>2
  <2> HIDE DEF h
  <2>3. Known(n + 1, h)
    BY <2>2
  <2> QED BY <2>3
<1>4. PICK f : Known(N, f)
  <2> HIDE DEF M, Known
  <2>1. \A n \in Nat : n \in M
    BY <1>2, <1>3, Induction
  <2> QED BY <2>1 DEF M
<1>5. it = [s \in SUBSET (1 .. N) |-> Value(it, s)]
  <2> DEFINE h == [s \in SUBSET (1 .. N) |-> f[s]]
  <2> HIDE DEF Op
  <2>1. h = [s \in SUBSET (1 .. N) |-> Value(h, s)]
    <3>1. \A s \in SUBSET (1 .. N) : s \ {Max(s)} \in SUBSET (1 .. N)
      OBVIOUS
    <3> QED BY <1>4, <3>1
  <2> HIDE DEF h, Value
  <2> QED BY <2>1
<1> DEFINE r == [n \in 0 .. N |-> it[1 .. n]]
<1>6. r[0] = << >>
  <2>1. 0 \in 0 .. N /\ 1 .. 0 = {} /\ {} \in SUBSET (1 .. N)
    OBVIOUS
  <2> HIDE DEF Op, it
  <2> QED BY <1>5, <2>1
<1>7. ASSUME NEW n \in 1 .. N PROVE r[n] = Op(r[n - 1], L[n])
  <2>1. 1 .. n \in SUBSET (1 .. N) /\ 1 .. n # {} /\ Max(1 .. n) = n /\ (1 .. n) \ {n} = 1 .. n - 1
    BY PrefixSteps
  <2>2. n \in 0 .. N /\ n - 1 \in 0 .. N
    OBVIOUS
  <2> HIDE DEF Op, it
  <2> QED BY <1>5, <2>1, <2>2
<1>8. r[N] = it[1 .. N]
  OBVIOUS
<1> HIDE DEF r, it
<1> QED BY <1>1, <1>6, <1>7, <1>8 DEF FoundSteps

(* The replacements, from match to match.                                    *)
ReplacedSteps(r, N, L, html, letters) ==
  /\ r[0] = html /\ r[N] = ReplacedIn(html, letters, L)
  /\ \A n \in 1 .. N : r[n] = insertText(r[n - 1], L[n], letters)

(* The replacement of a list of matches, match by match.                     *)
LEMMA ReplacedRun ==
  ASSUME NEW N \in Nat, NEW L, DOMAIN L = 1 .. N, NEW html, NEW letters
  PROVE  \E r : ReplacedSteps(r, N, L, html, letters)
<1> DEFINE Op(acc, match) == insertText(acc, match, letters)
           Value(h, s) == IF s = {} THEN html ELSE Op(h[s \ {Max(s)}], L[Max(s)])
           it == CHOOSE h : h = [s \in SUBSET (1 .. N) |-> Value(h, s)]
           Known(n, h) == \A s \in SUBSET (1 .. n) : h[s] = Value(h, s)
           M == {n \in Nat : n <= N => \E h : Known(n, h)}
<1>1. ReplacedIn(html, letters, L) = it[1 .. N]
  BY DEF ReplacedIn, FoldLeft, MapThenFoldSet
<1>2. 0 \in M
  <2> DEFINE h == [s \in SUBSET (1 .. 0) |-> html]
  <2>1. Known(0, h)
    <3> HIDE DEF Op
    <3>1. \A s \in SUBSET (1 .. 0) : s = {}
      OBVIOUS
    <3> QED BY <3>1
  <2> HIDE DEF Known, h
  <2> QED BY <2>1
<1>3. ASSUME NEW n \in Nat, n \in M PROVE n + 1 \in M
  <2> SUFFICES ASSUME n + 1 <= N PROVE \E h : Known(n + 1, h)
    <3> HIDE DEF Known
    <3> QED OBVIOUS
  <2>1. PICK f : Known(n, f)
    <3> HIDE DEF Known
    <3> QED BY <1>3
  <2> DEFINE h == [s \in SUBSET (1 .. n + 1) |-> Value(f, s)]
  <2> HIDE DEF Op
  <2>2. ASSUME NEW s \in SUBSET (1 .. n + 1) PROVE h[s] = Value(h, s)
    <3>1. CASE s = {}
      BY <3>1
    <3>2. CASE s # {}
      <4> DEFINE m == n + 1
      <4>1. m \in Nat /\ s \in SUBSET (1 .. m)
        OBVIOUS
      <4>2. Max(s) \in s /\ \A y \in s : y <= Max(s)
        <5> HIDE DEF m
        <5> QED BY <3>2, <4>1, PlacesHaveLast
      <4>3. s \ {Max(s)} \in SUBSET (1 .. n) /\ s \ {Max(s)} \in SUBSET (1 .. n + 1)
        <5>1. \A y \in s : y # Max(s) => y \in 1 .. n
          <6> SUFFICES ASSUME NEW y \in s, y # Max(s) PROVE y \in 1 .. n
            OBVIOUS
          <6>1. y \in 1 .. n + 1 /\ Max(s) \in 1 .. n + 1 /\ y <= Max(s)
            BY <4>1, <4>2
          <6> HIDE DEF m
          <6> QED BY <6>1
        <5> QED BY <5>1
      <4>4. h[s \ {Max(s)}] = f[s \ {Max(s)}]
        BY <2>1, <4>3
      <4> QED BY <3>2, <4>4
    <3> QED BY <3>1, <3>2
  <2> HIDE DEF h
  <2>3. Known(n + 1, h)
    BY <2>2
  <2> QED BY <2>3
<1>4. PICK f : Known(N, f)
  <2> HIDE DEF M, Known
  <2>1. \A n \in Nat : n \in M
    BY <1>2, <1>3, Induction
  <2> QED BY <2>1 DEF M
<1>5. it = [s \in SUBSET (1 .. N) |-> Value(it, s)]
  <2> DEFINE h == [s \in SUBSET (1 .. N) |-> f[s]]
  <2> HIDE DEF Op
  <2>1. h = [s \in SUBSET (1 .. N) |-> Value(h, s)]
    <3>1. \A s \in SUBSET (1 .. N) : s \ {Max(s)} \in SUBSET (1 .. N)
      OBVIOUS
    <3> QED BY <1>4, <3>1
  <2> HIDE DEF h, Value
  <2> QED BY <2>1
<1> DEFINE r == [n \in 0 .. N |-> it[1 .. n]]
<1>6. r[0] = html
  <2>1. 0 \in 0 .. N /\ 1 .. 0 = {} /\ {} \in SUBSET (1 .. N)
    OBVIOUS
  <2> HIDE DEF Op, it
  <2> QED BY <1>5, <2>1
<1>7. ASSUME NEW n \in 1 .. N PROVE r[n] = Op(r[n - 1], L[n])
  <2>1. 1 .. n \in SUBSET (1 .. N) /\ 1 .. n # {} /\ Max(1 .. n) = n /\ (1 .. n) \ {n} = 1 .. n - 1
    BY PrefixSteps
  <2>2. n \in 0 .. N /\ n - 1 \in 0 .. N
    OBVIOUS
  <2> HIDE DEF Op, it
  <2> QED BY <1>5, <2>1, <2>2
<1>8. r[N] = it[1 .. N]
  OBVIOUS
<1> HIDE DEF r, it
<1> QED BY <1>1, <1>6, <1>7, <1>8 DEF ReplacedSteps

(* What a text should become, up to each place where the word is.            *)
RetoldSteps(r, N, L, text, found, len, new) ==
  /\ r[0] = << >> /\ r[N] = RetoldIn(text, found, len, new, L)
  /\ \A n \in 1 .. N : r[n] = RetoldStep(text, found, len, new, r[n - 1], L[n])

(* A text told again with its finds replaced, find by find.                  *)
LEMMA RetoldRun ==
  ASSUME NEW N \in Nat, NEW L, DOMAIN L = 1 .. N, NEW text, NEW found, NEW len, NEW new
  PROVE  \E r : RetoldSteps(r, N, L, text, found, len, new)
<1> DEFINE Op(acc, n) == RetoldStep(text, found, len, new, acc, n)
           Value(h, s) == IF s = {} THEN << >> ELSE Op(h[s \ {Max(s)}], L[Max(s)])
           it == CHOOSE h : h = [s \in SUBSET (1 .. N) |-> Value(h, s)]
           Known(n, h) == \A s \in SUBSET (1 .. n) : h[s] = Value(h, s)
           M == {n \in Nat : n <= N => \E h : Known(n, h)}
<1>1. RetoldIn(text, found, len, new, L) = it[1 .. N]
  BY DEF RetoldIn, FoldLeft, MapThenFoldSet
<1>2. 0 \in M
  <2> DEFINE h == [s \in SUBSET (1 .. 0) |-> << >>]
  <2>1. Known(0, h)
    <3> HIDE DEF Op
    <3>1. \A s \in SUBSET (1 .. 0) : s = {}
      OBVIOUS
    <3> QED BY <3>1
  <2> HIDE DEF Known, h
  <2> QED BY <2>1
<1>3. ASSUME NEW n \in Nat, n \in M PROVE n + 1 \in M
  <2> SUFFICES ASSUME n + 1 <= N PROVE \E h : Known(n + 1, h)
    <3> HIDE DEF Known
    <3> QED OBVIOUS
  <2>1. PICK f : Known(n, f)
    <3> HIDE DEF Known
    <3> QED BY <1>3
  <2> DEFINE h == [s \in SUBSET (1 .. n + 1) |-> Value(f, s)]
  <2> HIDE DEF Op
  <2>2. ASSUME NEW s \in SUBSET (1 .. n + 1) PROVE h[s] = Value(h, s)
    <3>1. CASE s = {}
      BY <3>1
    <3>2. CASE s # {}
      <4> DEFINE m == n + 1
      <4>1. m \in Nat /\ s \in SUBSET (1 .. m)
        OBVIOUS
      <4>2. Max(s) \in s /\ \A y \in s : y <= Max(s)
        <5> HIDE DEF m
        <5> QED BY <3>2, <4>1, PlacesHaveLast
      <4>3. s \ {Max(s)} \in SUBSET (1 .. n) /\ s \ {Max(s)} \in SUBSET (1 .. n + 1)
        <5>1. \A y \in s : y # Max(s) => y \in 1 .. n
          <6> SUFFICES ASSUME NEW y \in s, y # Max(s) PROVE y \in 1 .. n
            OBVIOUS
          <6>1. y \in 1 .. n + 1 /\ Max(s) \in 1 .. n + 1 /\ y <= Max(s)
            BY <4>1, <4>2
          <6> HIDE DEF m
          <6> QED BY <6>1
        <5> QED BY <5>1
      <4>4. h[s \ {Max(s)}] = f[s \ {Max(s)}]
        BY <2>1, <4>3
      <4> QED BY <3>2, <4>4
    <3> QED BY <3>1, <3>2
  <2> HIDE DEF h
  <2>3. Known(n + 1, h)
    BY <2>2
  <2> QED BY <2>3
<1>4. PICK f : Known(N, f)
  <2> HIDE DEF M, Known
  <2>1. \A n \in Nat : n \in M
    BY <1>2, <1>3, Induction
  <2> QED BY <2>1 DEF M
<1>5. it = [s \in SUBSET (1 .. N) |-> Value(it, s)]
  <2> DEFINE h == [s \in SUBSET (1 .. N) |-> f[s]]
  <2> HIDE DEF Op
  <2>1. h = [s \in SUBSET (1 .. N) |-> Value(h, s)]
    <3>1. \A s \in SUBSET (1 .. N) : s \ {Max(s)} \in SUBSET (1 .. N)
      OBVIOUS
    <3> QED BY <1>4, <3>1
  <2> HIDE DEF h, Value
  <2> QED BY <2>1
<1> DEFINE r == [n \in 0 .. N |-> it[1 .. n]]
<1>6. r[0] = << >>
  <2>1. 0 \in 0 .. N /\ 1 .. 0 = {} /\ {} \in SUBSET (1 .. N)
    OBVIOUS
  <2> HIDE DEF Op, it
  <2> QED BY <1>5, <2>1
<1>7. ASSUME NEW n \in 1 .. N PROVE r[n] = Op(r[n - 1], L[n])
  <2>1. 1 .. n \in SUBSET (1 .. N) /\ 1 .. n # {} /\ Max(1 .. n) = n /\ (1 .. n) \ {n} = 1 .. n - 1
    BY PrefixSteps
  <2>2. n \in 0 .. N /\ n - 1 \in 0 .. N
    OBVIOUS
  <2> HIDE DEF Op, it
  <2> QED BY <1>5, <2>1, <2>2
<1>8. r[N] = it[1 .. N]
  OBVIOUS
<1> HIDE DEF r, it
<1> QED BY <1>1, <1>6, <1>7, <1>8 DEF RetoldSteps

-----------------------------------------------------------------------------
(* Places of a document, and how many come before one.                       *)
Ahead(places, at) == {x \in places : Earlier(x, at)}

(* Places are in a strict order, and any two are comparable.                 *)
LEMMA EarlierOrders ==
  ASSUME NEW x \in Nat \X Nat, NEW y \in Nat \X Nat
  PROVE  /\ ~Earlier(x, x)
         /\ Earlier(x, y) \/ Earlier(y, x) \/ x = y
         /\ Earlier(x, y) => ~Earlier(y, x)
         /\ \A z \in Nat \X Nat : Earlier(x, y) /\ Earlier(y, z) => Earlier(x, z)
<1>1. x = <<x[1], x[2]>> /\ y = <<y[1], y[2]>>
  OBVIOUS
<1>2. x[1] \in Nat /\ x[2] \in Nat /\ y[1] \in Nat /\ y[2] \in Nat
  OBVIOUS
<1>3. x[1] = y[1] /\ x[2] = y[2] => x = y
  BY <1>1
<1>4. ~Earlier(x, x) /\ (Earlier(x, y) \/ Earlier(y, x) \/ x = y) /\ (Earlier(x, y) => ~Earlier(y, x))
  BY <1>2, <1>3 DEF Earlier
<1>5. ASSUME NEW z \in Nat \X Nat, Earlier(x, y), Earlier(y, z) PROVE Earlier(x, z)
  <2>1. z[1] \in Nat /\ z[2] \in Nat
    OBVIOUS
  <2> QED BY <1>2, <1>5, <2>1 DEF Earlier
<1> QED BY <1>4, <1>5

(* The number of places before one grows with the place.                     *)
LEMMA BeforeGrows ==
  ASSUME NEW places \in SUBSET (Nat \X Nat), IsFiniteSet(places)
  PROVE  /\ Cardinality(places) \in Nat
         /\ \A at \in Nat \X Nat : Before(places, at) \in 0 .. Cardinality(places)
         /\ \A x, y \in Nat \X Nat : Earlier(x, y) => Before(places, x) <= Before(places, y)
         /\ \A x \in places, y \in Nat \X Nat :
              Earlier(x, y) => Before(places, x) + 1 <= Before(places, y)
         /\ \A x \in places : Before(places, x) < Cardinality(places)
<1>1. Cardinality(places) \in Nat
  BY FS_CardinalityType
<1>2. ASSUME NEW at \in Nat \X Nat
      PROVE  /\ IsFiniteSet(Ahead(places, at)) /\ Before(places, at) = Cardinality(Ahead(places, at))
             /\ Before(places, at) \in 0 .. Cardinality(places)
  <2>1. Ahead(places, at) \in SUBSET places /\ Before(places, at) = Cardinality(Ahead(places, at))
    BY DEF Ahead, Before
  <2>2. IsFiniteSet(Ahead(places, at)) /\ Cardinality(Ahead(places, at)) <= Cardinality(places)
    BY <2>1, FS_Subset
  <2>3. Cardinality(Ahead(places, at)) \in Nat
    BY <2>2, FS_CardinalityType
  <2> QED BY <1>1, <2>1, <2>2, <2>3
<1>3. ASSUME NEW x \in Nat \X Nat, NEW y \in Nat \X Nat, Earlier(x, y)
      PROVE  Ahead(places, x) \in SUBSET Ahead(places, y)
  BY <1>3, EarlierOrders DEF Ahead
<1>4. ASSUME NEW x \in Nat \X Nat, NEW y \in Nat \X Nat, Earlier(x, y)
      PROVE  Before(places, x) <= Before(places, y)
  BY <1>2, <1>3, <1>4, FS_Subset
<1>5. ASSUME NEW x \in places, NEW S \in SUBSET places, IsFiniteSet(S), Ahead(places, x) \in SUBSET S, x \in S
      PROVE  Cardinality(Ahead(places, x)) + 1 <= Cardinality(S)
  <2>1. x \in Nat \X Nat
    OBVIOUS
  <2>2. x \notin Ahead(places, x)
    BY <2>1, EarlierOrders DEF Ahead
  <2>3. Cardinality(Ahead(places, x) \cup {x}) = Cardinality(Ahead(places, x)) + 1
    BY <1>2, <2>1, <2>2, FS_AddElement
  <2>4. Ahead(places, x) \cup {x} \in SUBSET S
    BY <1>5
  <2> QED BY <1>5, <2>3, <2>4, FS_Subset
<1>6. ASSUME NEW x \in places, NEW y \in Nat \X Nat, Earlier(x, y)
      PROVE  Before(places, x) + 1 <= Before(places, y)
  <2>1. x \in Nat \X Nat /\ x \in Ahead(places, y) /\ Ahead(places, y) \in SUBSET places
    BY <1>6 DEF Ahead
  <2>2. Ahead(places, x) \in SUBSET Ahead(places, y)
    BY <1>3, <1>6, <2>1
  <2> QED BY <1>2, <1>5, <2>1, <2>2
<1>7. ASSUME NEW x \in places PROVE Before(places, x) < Cardinality(places)
  <2>1. Ahead(places, x) \in SUBSET places /\ x \in Nat \X Nat
    BY DEF Ahead
  <2>2. Cardinality(Ahead(places, x)) + 1 <= Cardinality(places)
    BY <1>5, <2>1
  <2> QED BY <1>1, <1>2, <2>1, <2>2
<1> QED BY <1>1, <1>2, <1>4, <1>6, <1>7

(* The order of places is that of their ranks, and every rank is taken.      *)
LEMMA BeforeRanks ==
  ASSUME NEW places \in SUBSET (Nat \X Nat), IsFiniteSet(places)
  PROVE  /\ \A x, y \in places : Before(places, x) = Before(places, y) => x = y
         /\ \A x, y \in places : Before(places, x) < Before(places, y) => Earlier(x, y)
         /\ \A n \in 0 .. Cardinality(places) - 1 : \E x \in places : Before(places, x) = n
<1> DEFINE C == Cardinality(places)
           rank == [x \in places |-> Before(places, x) + 1]
<1>1. C \in Nat /\ IsFiniteSet(1 .. C) /\ Cardinality(1 .. C) = C
  BY FS_CardinalityType, FS_Interval
<1>2. \A x \in places : Before(places, x) \in Nat /\ Before(places, x) < C
  BY BeforeGrows
<1>3. rank \in [places -> 1 .. C]
  BY <1>1, <1>2
<1>4. ASSUME NEW x \in places, NEW y \in places
      PROVE  /\ Before(places, x) = Before(places, y) => x = y
             /\ Before(places, x) < Before(places, y) => Earlier(x, y)
  <2>1. x \in Nat \X Nat /\ y \in Nat \X Nat
    OBVIOUS
  <2>2. Earlier(x, y) \/ Earlier(y, x) \/ x = y
    BY <2>1, EarlierOrders
  <2>3. Earlier(x, y) => Before(places, x) + 1 <= Before(places, y)
    BY <2>1, BeforeGrows
  <2>4. Earlier(y, x) => Before(places, y) + 1 <= Before(places, x)
    BY <2>1, BeforeGrows
  <2> QED BY <1>2, <2>2, <2>3, <2>4
<1>5. rank \in Injection(places, 1 .. C)
  <2>1. \A x, y \in places : rank[x] = rank[y] => x = y
    BY <1>2, <1>4
  <2> QED BY <1>3, <2>1 DEF Injection, IsInjective
<1>6. rank \in Surjection(places, 1 .. C)
  <2> HIDE DEF rank, C
  <2>1. Cardinality(places) = Cardinality(1 .. C)
    BY <1>1 DEF C
  <2> QED BY <1>1, <1>5, <2>1, FS_Injection
<1>7. ASSUME NEW n \in 0 .. C - 1 PROVE \E x \in places : Before(places, x) = n
  <2>1. n + 1 \in 1 .. C
    BY <1>1
  <2>2. PICK x \in places : rank[x] = n + 1
    BY <1>6, <2>1 DEF Surjection
  <2> QED BY <1>2, <2>2
<1> QED BY <1>4, <1>7

(* The places one after the other.                                           *)
LEMMA InOrderRanks ==
  ASSUME NEW places \in SUBSET (Nat \X Nat), IsFiniteSet(places)
  PROVE  /\ Cardinality(places) \in Nat
         /\ DOMAIN InOrder(places) = 1 .. Cardinality(places)
         /\ \A n \in 1 .. Cardinality(places) :
              InOrder(places)[n] \in places /\ Before(places, InOrder(places)[n]) = n - 1
         /\ \A x \in places : /\ Before(places, x) + 1 \in 1 .. Cardinality(places)
                              /\ InOrder(places)[Before(places, x) + 1] = x
<1>1. Cardinality(places) \in Nat
  BY FS_CardinalityType
<1>2. ASSUME NEW n \in 1 .. Cardinality(places)
      PROVE  InOrder(places)[n] \in places /\ Before(places, InOrder(places)[n]) = n - 1
  <2>1. n - 1 \in 0 .. Cardinality(places) - 1
    BY <1>1
  <2>2. \E x \in places : Before(places, x) = n - 1
    BY <2>1, BeforeRanks
  <2> QED BY <2>2 DEF InOrder
<1>3. ASSUME NEW x \in places
      PROVE  /\ Before(places, x) + 1 \in 1 .. Cardinality(places)
             /\ InOrder(places)[Before(places, x) + 1] = x
  <2>1. x \in Nat \X Nat
    OBVIOUS
  <2>2. Before(places, x) \in 0 .. Cardinality(places) /\ Before(places, x) < Cardinality(places)
    BY <2>1, BeforeGrows
  <2>3. Before(places, x) + 1 \in 1 .. Cardinality(places) /\ (Before(places, x) + 1) - 1 = Before(places, x)
    BY <1>1, <2>2
  <2>4. Before(places, InOrder(places)[Before(places, x) + 1]) = Before(places, x)
    BY <1>2, <2>3
  <2> QED BY <1>2, <2>3, <2>4, BeforeRanks
<1> QED BY <1>1, <1>2, <1>3 DEF InOrder

-----------------------------------------------------------------------------
(* Documents.                                                                *)
LEMMA PieceFacts ==
  ASSUME NEW html \in Seq(Pieces), NEW b \in DOMAIN html
  PROVE  /\ b \in 1 .. Len(html) /\ Len(html) \in Nat /\ html[b] \in Pieces
         /\ html[b].items \in Seq(Inlines)
         /\ html[b].items # << >> => html[b].kind = "p"
         /\ Len(html[b].items) \in Nat /\ DOMAIN html[b].items = 1 .. Len(html[b].items)
<1>1. b \in 1 .. Len(html) /\ Len(html) \in Nat /\ html[b] \in Pieces
  BY LenProperties, ElementOfSeq
<1>2. CASE html[b] = Photo
  <2>1. html[b].items = << >>
    BY <1>2 DEF Photo
  <2> QED BY <1>1, <2>1
<1>3. CASE html[b] \in [kind : {"p"}, items : Seq(Inlines)]
  BY <1>1, <1>3
<1> QED BY <1>1, <1>2, <1>3 DEF Pieces

(* No paragraph is longer than some bound.                                   *)
LEMMA Longest ==
  ASSUME NEW html \in Seq(Pieces)
  PROVE  \E M \in Nat : \A b \in DOMAIN html : Len(html[b].items) <= M
<1> DEFINE S == {n \in Nat : \E M \in Nat : \A b \in DOMAIN html : b <= n => Len(html[b].items) <= M}
<1>1. \A b \in DOMAIN html : b \in 1 .. Len(html) /\ Len(html[b].items) \in Nat
  BY PieceFacts
<1>2. Len(html) \in Nat
  BY LenProperties
<1>3. 0 \in S
  <2>1. \A b \in DOMAIN html : b <= 0 => Len(html[b].items) <= 0
    BY <1>1
  <2> QED BY <2>1
<1>4. ASSUME NEW n \in 1 .. Len(html), n - 1 \in S PROVE n \in S
  <2>1. PICK M \in Nat : \A b \in DOMAIN html : b <= n - 1 => Len(html[b].items) <= M
    BY <1>4
  <2>2. n \in DOMAIN html /\ Len(html[n].items) \in Nat
    BY <1>1, LenProperties
  <2> DEFINE K == M + Len(html[n].items)
  <2>3. K \in Nat /\ M <= K /\ Len(html[n].items) <= K
    BY <2>1, <2>2
  <2>4. ASSUME NEW b \in DOMAIN html, b <= n PROVE Len(html[b].items) <= K
    <3>1. CASE b = n
      BY <2>3, <3>1
    <3>2. CASE b # n
      <4>1. b <= n - 1
        BY <1>1, <2>4, <3>2
      <4> QED BY <1>1, <2>1, <2>3, <4>1
    <3> QED BY <3>1, <3>2
  <2> HIDE DEF K
  <2> QED BY <2>3, <2>4
<1>5. Len(html) \in S
  <2> HIDE DEF S
  <2>1. \A n \in 0 .. Len(html) : n \in S
    BY <1>2, <1>3, <1>4, InductionUpTo
  <2> QED BY <1>2, <2>1
<1> QED BY <1>1, <1>5

(* The places of letters are those of the items that are no line breaks.     *)
LEMMA LetterPlaces ==
  ASSUME NEW html \in Seq(Pieces)
  PROVE  /\ \A b, k : <<b, k>> \in Letters(html) <=>
              b \in DOMAIN html /\ k \in 1 .. Len(html[b].items) /\ html[b].items[k] # Break
         /\ \A x \in Letters(html) : x = <<x[1], x[2]>> /\ x \in Nat \X Nat
<1>1. \A b \in DOMAIN html : b \in Nat /\ DOMAIN html[b].items = 1 .. Len(html[b].items)
  BY PieceFacts
<1>2. ASSUME NEW x \in Letters(html) PROVE x = <<x[1], x[2]>> /\ x \in Nat \X Nat
  <2>1. PICK b \in DOMAIN html :
           x \in {<<b, k>> : k \in {n \in DOMAIN html[b].items : html[b].items[n] # Break}}
    BY DEF Letters
  <2>2. PICK k \in DOMAIN html[b].items : x = <<b, k>>
    BY <2>1
  <2> QED BY <1>1, <2>2
<1>3. ASSUME NEW b, NEW k
      PROVE  <<b, k>> \in Letters(html) <=>
               b \in DOMAIN html /\ k \in 1 .. Len(html[b].items) /\ html[b].items[k] # Break
  <2>1. <<b, k>> \in Letters(html) <=>
          \E c \in DOMAIN html : \E n \in DOMAIN html[c].items :
             html[c].items[n] # Break /\ <<b, k>> = <<c, n>>
    BY DEF Letters
  <2> QED BY <1>1, <2>1
<1> QED BY <1>2, <1>3

(* A text node starts at a place of a letter.                                *)
LEMMA NodePlaces ==
  ASSUME NEW html \in Seq(Pieces)
  PROVE  /\ \A b, k : <<b, k>> \in TextNodes(html) <=>
              b \in DOMAIN html /\ k \in 1 .. Len(html[b].items) /\ StartsNode(html[b].items, k)
         /\ \A x \in TextNodes(html) : x = <<x[1], x[2]>> /\ x \in Nat \X Nat
         /\ TextNodes(html) \in SUBSET Letters(html)
<1>1. \A b \in DOMAIN html : b \in Nat /\ DOMAIN html[b].items = 1 .. Len(html[b].items)
  BY PieceFacts
<1>2. ASSUME NEW x \in TextNodes(html) PROVE x = <<x[1], x[2]>> /\ x \in Nat \X Nat
  <2>1. PICK b \in DOMAIN html :
           x \in {<<b, k>> : k \in {n \in DOMAIN html[b].items : StartsNode(html[b].items, n)}}
    BY DEF TextNodes
  <2>2. PICK k \in DOMAIN html[b].items : x = <<b, k>>
    BY <2>1
  <2> QED BY <1>1, <2>2
<1>3. ASSUME NEW b, NEW k
      PROVE  <<b, k>> \in TextNodes(html) <=>
               b \in DOMAIN html /\ k \in 1 .. Len(html[b].items) /\ StartsNode(html[b].items, k)
  <2>1. <<b, k>> \in TextNodes(html) <=>
          \E c \in DOMAIN html : \E n \in DOMAIN html[c].items :
             StartsNode(html[c].items, n) /\ <<b, k>> = <<c, n>>
    BY DEF TextNodes
  <2> QED BY <1>1, <2>1
<1>4. TextNodes(html) \in SUBSET Letters(html)
  <2> SUFFICES ASSUME NEW x \in TextNodes(html) PROVE x \in Letters(html)
    OBVIOUS
  <2>1. x = <<x[1], x[2]>>
    BY <1>2
  <2>2. <<x[1], x[2]>> \in Letters(html)
    BY <1>3, <2>1, LetterPlaces DEF StartsNode
  <2> QED BY <2>1, <2>2
<1> QED BY <1>2, <1>3, <1>4

(* A newline stands before the first letters of a block, unless it is the    *)
(* first with letters.                                                       *)
LEMMA NewlinePlaces ==
  ASSUME NEW html \in Seq(Pieces)
  PROVE  /\ \A b, k : <<b, k>> \in Newlines(html) <=>
              k = 0 /\ \E x, y \in Letters(html) : x[1] = b /\ y[1] < b
         /\ \A x \in Newlines(html) : x = <<x[1], 0>> /\ x \in Nat \X Nat
<1>1. \A x \in Letters(html) : x = <<x[1], x[2]>> /\ x \in Nat \X Nat
  BY LetterPlaces
<1>2. ASSUME NEW x \in Newlines(html) PROVE x = <<x[1], 0>> /\ x \in Nat \X Nat
  <2>1. PICK y \in Letters(html) : x = <<y[1], 0>>
    BY DEF Newlines
  <2> QED BY <1>1, <2>1
<1>3. ASSUME NEW b, NEW k
      PROVE  <<b, k>> \in Newlines(html) <=>
               k = 0 /\ \E x, y \in Letters(html) : x[1] = b /\ y[1] < b
  <2>1. <<b, k>> \in Newlines(html) <=>
          \E x \in Letters(html) : (\E y \in Letters(html) : y[1] < x[1]) /\ <<b, k>> = <<x[1], 0>>
    BY DEF Newlines
  <2> QED BY <2>1
<1> QED BY <1>2, <1>3

Places(html) == Letters(html) \union Newlines(html)

(* A document has finitely many places.                                      *)
LEMMA PlacesFinite ==
  ASSUME NEW html \in Seq(Pieces)
  PROVE  /\ Places(html) \in SUBSET (Nat \X Nat) /\ IsFiniteSet(Places(html))
         /\ TextNodes(html) \in SUBSET Places(html) /\ IsFiniteSet(TextNodes(html))
<1>1. PICK M \in Nat : \A b \in DOMAIN html : Len(html[b].items) <= M
  BY Longest
<1> DEFINE Box == (0 .. Len(html)) \X (0 .. M)
<1>2. IsFiniteSet(Box)
  <2>1. Len(html) \in Nat
    BY LenProperties
  <2>2. IsFiniteSet(0 .. Len(html)) /\ IsFiniteSet(0 .. M)
    BY <2>1, FS_Interval
  <2> QED BY <2>2, FS_Product
<1>3. Letters(html) \in SUBSET Box
  <2> SUFFICES ASSUME NEW x \in Letters(html) PROVE x \in Box
    OBVIOUS
  <2>1. x = <<x[1], x[2]>> /\ x[1] \in DOMAIN html /\ x[2] \in 1 .. Len(html[x[1]].items)
    BY LetterPlaces
  <2>2. x[1] \in 1 .. Len(html) /\ Len(html) \in Nat /\ Len(html[x[1]].items) \in Nat
    BY <2>1, PieceFacts
  <2>3. Len(html[x[1]].items) <= M
    BY <1>1, <2>1
  <2>4. x[1] \in 0 .. Len(html) /\ x[2] \in 0 .. M
    BY <2>1, <2>2, <2>3
  <2> QED BY <2>1, <2>4
<1>4. Newlines(html) \in SUBSET Box
  <2> SUFFICES ASSUME NEW x \in Newlines(html) PROVE x \in Box
    OBVIOUS
  <2>1. x = <<x[1], 0>> /\ \E y \in Letters(html) : y[1] = x[1]
    BY NewlinePlaces
  <2>2. x[1] \in 0 .. Len(html) /\ 0 \in 0 .. M
    BY <1>3, <2>1
  <2> QED BY <2>1, <2>2
<1>5. Box \in SUBSET (Nat \X Nat)
  OBVIOUS
<1>6. Places(html) \in SUBSET Box /\ TextNodes(html) \in SUBSET Places(html)
  BY <1>3, <1>4, NodePlaces DEF Places
<1> HIDE DEF Box
<1> QED BY <1>2, <1>5, <1>6, FS_Subset

-----------------------------------------------------------------------------
(* What the search finds: the word at each place, from the left and apart,   *)
(* and no place of the word that those found do not reach.                   *)
Occurs(flat, word, i) ==
  i \in Nat /\ i + Len(word) <= Len(flat) /\ SubSeq(flat, i + 1, i + Len(word)) = word

Searched(s, flat, word, n) ==
  /\ s \in Seq(Nat)
  /\ \A p \in DOMAIN s : Occurs(flat, word, s[p]) /\ s[p] < n
  /\ \A p, q \in DOMAIN s : p < q => s[p] + Len(word) <= s[q]
  /\ \A i \in Nat : i < n /\ Occurs(flat, word, i) =>
       \E p \in DOMAIN s : s[p] <= i /\ i < s[p] + Len(word)

(* A step of the search goes on from the places before it.                   *)
LEMMA FoundOn ==
  ASSUME NEW flat, NEW word \in Seq(Letter), word # << >>, NEW s, NEW i \in Nat, Searched(s, flat, word, i)
  PROVE  Searched(FoundStep(flat, word, s, i), flat, word, i + 1)
<1> DEFINE m == Len(word)
           t == FoundStep(flat, word, s, i)
           apart == s = << >> \/ i >= Last(s) + m
           here == i + m <= Len(flat) /\ SubSeq(flat, i + 1, i + m) = word
<1>1. m \in Nat /\ m > 0
  BY EmptySeq
<1>2. s \in Seq(Nat) /\ Len(s) \in Nat /\ DOMAIN s = 1 .. Len(s)
  BY LenProperties DEF Searched
<1>3. \A p \in DOMAIN s : s[p] \in Nat /\ s[p] < i
  BY <1>2, ElementOfSeq DEF Searched
<1>4. \A p \in DOMAIN s : Last(s) \in Nat /\ (p = Len(s) \/ s[p] + m <= Last(s)) /\ Len(s) \in DOMAIN s
  <2> SUFFICES ASSUME NEW p \in DOMAIN s
               PROVE  Last(s) \in Nat /\ (p = Len(s) \/ s[p] + m <= Last(s)) /\ Len(s) \in DOMAIN s
    OBVIOUS
  <2>1. Len(s) \in DOMAIN s /\ Last(s) = s[Len(s)] /\ (p = Len(s) \/ p < Len(s))
    BY <1>2 DEF Last
  <2> QED BY <1>3, <2>1 DEF Searched
<1>5. Occurs(flat, word, i) <=> here
  BY DEF Occurs
<1>6. CASE apart /\ here
  <2>1. t = Append(s, i)
    BY <1>6 DEF FoundStep
  <2>2. t \in Seq(Nat) /\ DOMAIN t = 1 .. Len(s) + 1
    BY <1>2, <2>1, AppendProperties, LenProperties
  <2>3. t[Len(s) + 1] = i /\ \A p \in DOMAIN s : t[p] = s[p]
    BY <1>2, <2>1, AppendProperties
  <2>4. \A p \in DOMAIN t : p \in DOMAIN s \/ p = Len(s) + 1
    BY <1>2, <2>2
  <2>5. \A p \in DOMAIN t : Occurs(flat, word, t[p]) /\ t[p] < i + 1
    <3>1. \A p \in DOMAIN s : Occurs(flat, word, s[p]) /\ s[p] < i + 1
      BY <1>3 DEF Searched
    <3> QED BY <1>5, <1>6, <2>3, <2>4, <3>1
  <2>6. ASSUME NEW p \in DOMAIN t, NEW q \in DOMAIN t, p < q PROVE t[p] + m <= t[q]
    <3>1. p \in DOMAIN s
      BY <1>2, <2>2, <2>4, <2>6
    <3>2. CASE q \in DOMAIN s
      BY <2>3, <2>6, <3>1, <3>2 DEF Searched
    <3>3. CASE q = Len(s) + 1
      <4>1. s # << >>
        BY <1>2, <3>1
      <4>2. i >= Last(s) + m /\ Last(s) \in Nat /\ s[p] \in Nat /\ (p = Len(s) \/ s[p] + m <= Last(s))
        BY <1>3, <1>4, <1>6, <3>1, <4>1
      <4>3. p = Len(s) => s[p] = Last(s)
        BY DEF Last
      <4>4. s[p] + m <= i
        BY <1>1, <4>2, <4>3
      <4> QED BY <2>3, <3>1, <3>3, <4>4
    <3> QED BY <2>4, <3>2, <3>3
  <2>7. ASSUME NEW k \in Nat, k < i + 1, Occurs(flat, word, k)
               PROVE  \E p \in DOMAIN t : t[p] <= k /\ k < t[p] + m
    <3>1. CASE k < i
      <4>1. PICK p \in DOMAIN s : s[p] <= k /\ k < s[p] + m
        BY <2>7, <3>1 DEF Searched
      <4>2. p \in DOMAIN t
        BY <1>2, <2>2
      <4> QED BY <2>3, <4>1, <4>2
    <3>2. CASE k = i
      <4>1. Len(s) + 1 \in DOMAIN t
        BY <1>2, <2>2
      <4> QED BY <1>1, <2>3, <2>7, <3>2, <4>1
    <3> QED BY <2>7, <3>1, <3>2
  <2> QED BY <2>2, <2>5, <2>6, <2>7 DEF Searched
<1>7. CASE ~(apart /\ here)
  <2>1. t = s
    BY <1>7 DEF FoundStep
  <2>2. ASSUME NEW k \in Nat, k < i + 1, Occurs(flat, word, k) PROVE \E p \in DOMAIN s : s[p] <= k /\ k < s[p] + m
    <3>1. CASE k < i
      BY <2>2, <3>1 DEF Searched
    <3>2. CASE k = i
      <4>1. ~apart
        BY <1>5, <1>7, <2>2, <3>2
      <4>2. Len(s) \in DOMAIN s
        <5>1. Len(s) # 0
          BY <1>2, <4>1, EmptySeq
        <5> QED BY <1>2, <5>1
      <4>3. s[Len(s)] = Last(s) /\ Last(s) \in Nat /\ Last(s) < i
        BY <1>3, <4>2 DEF Last
      <4> QED BY <1>1, <3>2, <4>1, <4>2, <4>3
    <3> QED BY <2>2, <3>1, <3>2
  <2>3. \A p \in DOMAIN s : Occurs(flat, word, s[p]) /\ s[p] < i + 1
    BY <1>3 DEF Searched
  <2> QED BY <1>2, <2>1, <2>2, <2>3 DEF Searched
<1> QED BY <1>6, <1>7

(* The search of a text has looked at all of its places.                     *)
LEMMA FoundIs ==
  ASSUME NEW T, NEW flat \in Seq(T), NEW word \in Seq(Letter), word # << >>
  PROVE  Searched(Found(flat, word), flat, word, Len(flat))
<1> DEFINE N == Len(flat)
           L == [i \in DOMAIN flat |-> i - 1]
<1>1. N \in Nat /\ DOMAIN flat = 1 .. N /\ DOMAIN L = 1 .. N
  BY LenProperties
<1>2. \A n \in 1 .. N : L[n] = n - 1
  BY <1>1
<1>3. Found(flat, word) = FoundIn(flat, word, L)
  BY DEF Found, FoundIn, FoundStep
<1> HIDE DEF N, L
<1>4. PICK r : FoundSteps(r, N, L, flat, word)
  BY <1>1, FoundRun
<1> DEFINE S == {n \in Nat : Searched(r[n], flat, word, n)}
<1>5. 0 \in S
  <2>1. r[0] = << >>
    BY <1>4 DEF FoundSteps
  <2>2. Searched(<< >>, flat, word, 0)
    BY DEF Searched
  <2> QED BY <2>1, <2>2
<1>6. ASSUME NEW n \in 1 .. N, n - 1 \in S PROVE n \in S
  <2>1. r[n] = FoundStep(flat, word, r[n - 1], n - 1)
    BY <1>2, <1>4 DEF FoundSteps
  <2>2. Searched(r[n], flat, word, (n - 1) + 1)
    BY <1>6, <2>1, FoundOn
  <2> QED BY <2>2
<1>7. N \in S
  <2> HIDE DEF S
  <2>1. \A n \in 0 .. N : n \in S
    BY <1>1, <1>5, <1>6, InductionUpTo
  <2> QED BY <1>1, <2>1
<1> QED BY <1>3, <1>4, <1>7 DEF FoundSteps, N

(* In other words.                                                           *)
LEMMA FoundFacts ==
  ASSUME NEW T, NEW flat \in Seq(T), NEW word \in Seq(Letter)
  PROVE  LET s == Found(flat, word)
         IN  /\ s \in Seq(Nat) /\ Len(s) \in Nat /\ DOMAIN s = 1 .. Len(s)
             /\ word = << >> => s = << >>
             /\ \A p \in DOMAIN s : /\ s[p] \in Nat /\ Occurs(flat, word, s[p])
                                    /\ Len(word) \in Nat /\ Len(word) > 0
             /\ \A p, q \in DOMAIN s : p < q => s[p] + Len(word) <= s[q] /\ s[p] < s[q]
             /\ \A i : Occurs(flat, word, i) /\ word # << >> =>
                  \E p \in DOMAIN s : s[p] <= i /\ i < s[p] + Len(word)
<1> DEFINE s == Found(flat, word)
<1>1. CASE word = << >>
  <2>1. s = << >>
    BY <1>1 DEF Found
  <2>2. s \in Seq(Nat) /\ Len(s) = 0 /\ DOMAIN s = {} /\ 1 .. 0 = {}
    BY <2>1
  <2> QED BY <1>1, <2>1, <2>2
<1>2. CASE word # << >>
  <2>1. Searched(s, flat, word, Len(flat)) /\ Len(flat) \in Nat
    BY <1>2, FoundIs, LenProperties
  <2>2. Len(word) \in Nat /\ Len(word) > 0
    BY <1>2, EmptySeq
  <2>3. s \in Seq(Nat)
    BY <2>1 DEF Searched
  <2> HIDE DEF s
  <2>4. Len(s) \in Nat /\ DOMAIN s = 1 .. Len(s) /\ \A p \in DOMAIN s : s[p] \in Nat
    BY <2>3, LenProperties, ElementOfSeq
  <2>5. \A i : Occurs(flat, word, i) => i \in Nat /\ i < Len(flat)
    BY <2>1, <2>2 DEF Occurs
  <2>6. \A p, q \in DOMAIN s : p < q => s[p] + Len(word) <= s[q] /\ s[p] < s[q]
    BY <2>1, <2>2, <2>4 DEF Searched
  <2> QED BY <1>2, <2>1, <2>2, <2>3, <2>4, <2>5, <2>6 DEF Searched, s
<1> QED BY <1>1, <1>2

-----------------------------------------------------------------------------
(* The flat text of a document and the runs that lead back.                  *)
Offset(html, x) == Before(Places(html), x)
FlatOf(html) == extractDocText(html).flat
RunsOf(html) == extractDocText(html).runs
ReadAt(html, x) == IF x[2] = 0 THEN "\n" ELSE html[x[1]].items[x[2]].c
RunAt(html, x) ==
  [at |-> x, start |-> Offset(html, x), len |-> NodeEnd(html[x[1]].items, x[2]) - x[2] + 1]

(* A place of a letter reads as that letter.                                 *)
LEMMA LetterRead ==
  ASSUME NEW html \in Seq(Pieces), NEW x \in Letters(html)
  PROVE  ReadAt(html, x) = html[x[1]].items[x[2]].c /\ ReadAt(html, x) \in Letter
<1>1. /\ x = <<x[1], x[2]>> /\ x[1] \in DOMAIN html /\ x[2] \in 1 .. Len(html[x[1]].items)
      /\ html[x[1]].items[x[2]] # Break
  BY LetterPlaces
<1>2. html[x[1]].items[x[2]] \in Inlines
  BY <1>1, PieceFacts, ElementOfSeq
<1>3. html[x[1]].items[x[2]].c \in Letter
  BY <1>1, <1>2 DEF Inlines
<1> QED BY <1>1, <1>3 DEF ReadAt

(* The flat text has one character for every place, at the place's offset.   *)
LEMMA FlatFacts ==
  ASSUME NEW html \in Seq(Pieces)
  PROVE  /\ FlatOf(html) \in Seq(Letter \cup {"\n"})
         /\ Len(FlatOf(html)) = Cardinality(Places(html)) /\ Len(FlatOf(html)) \in Nat
         /\ \A x \in Places(html) :
              /\ Offset(html, x) + 1 \in 1 .. Len(FlatOf(html))
              /\ FlatOf(html)[Offset(html, x) + 1] = ReadAt(html, x)
         /\ \A n \in 1 .. Len(FlatOf(html)) :
              \E x \in Places(html) : Offset(html, x) = n - 1 /\ FlatOf(html)[n] = ReadAt(html, x)
         /\ RunsOf(html) = {RunAt(html, x) : x \in TextNodes(html)}
<1> DEFINE P == Places(html)
           C == Cardinality(P)
           nth == InOrder(P)
           flat == [n \in DOMAIN nth |-> ReadAt(html, nth[n])]
<1>1. P \in SUBSET (Nat \X Nat) /\ IsFiniteSet(P)
  BY PlacesFinite
<1>2. C \in Nat /\ DOMAIN nth = 1 .. C /\ \A n \in 1 .. C : nth[n] \in P /\ Before(P, nth[n]) = n - 1
  BY <1>1, InOrderRanks
<1>3. \A x \in P : Before(P, x) + 1 \in 1 .. C /\ nth[Before(P, x) + 1] = x
  BY <1>1, InOrderRanks
<1>4. FlatOf(html) = flat /\ RunsOf(html) = {RunAt(html, x) : x \in TextNodes(html)}
  BY DEF FlatOf, RunsOf, extractDocText, ReadAt, RunAt, Offset, Places
<1>5. \A x \in P : ReadAt(html, x) \in Letter \cup {"\n"}
  <2> SUFFICES ASSUME NEW x \in P PROVE ReadAt(html, x) \in Letter \cup {"\n"}
    OBVIOUS
  <2>1. CASE x \in Letters(html)
    BY <2>1, LetterRead
  <2>2. CASE x \in Newlines(html)
    <3>1. x = <<x[1], 0>>
      BY <2>2, NewlinePlaces
    <3>2. x[2] = 0
      BY <3>1
    <3> QED BY <3>2 DEF ReadAt
  <2> QED BY <2>1, <2>2 DEF Places
<1> HIDE DEF C, P, nth
<1>6. flat \in [1 .. C -> Letter \cup {"\n"}]
  BY <1>2, <1>5
<1>7. flat \in Seq(Letter \cup {"\n"}) /\ Len(flat) = C
  BY <1>2, <1>6
<1>8. \A x \in P : flat[Before(P, x) + 1] = ReadAt(html, x)
  BY <1>2, <1>3
<1>9. \A n \in 1 .. C : \E x \in P : Before(P, x) = n - 1 /\ flat[n] = ReadAt(html, x)
  BY <1>2
<1> HIDE DEF flat
<1> QED BY <1>2, <1>3, <1>4, <1>7, <1>8, <1>9 DEF Offset, C, P

(* Ranks of places, for a document.                                          *)
LEMMA OffsetFacts ==
  ASSUME NEW html \in Seq(Pieces)
  PROVE  /\ \A x \in Nat \X Nat : Offset(html, x) \in Nat
         /\ \A x, y \in Nat \X Nat : Earlier(x, y) => Offset(html, x) <= Offset(html, y)
         /\ \A x \in Places(html), y \in Nat \X Nat :
              Earlier(x, y) => Offset(html, x) + 1 <= Offset(html, y)
         /\ \A x, y \in Places(html) : Offset(html, x) = Offset(html, y) => x = y
         /\ \A x, y \in Places(html) : Offset(html, x) < Offset(html, y) => Earlier(x, y)
         /\ \A x \in Places(html) : Offset(html, x) < Len(FlatOf(html))
<1> DEFINE P == Places(html)
<1>1. P \in SUBSET (Nat \X Nat) /\ IsFiniteSet(P) /\ Len(FlatOf(html)) = Cardinality(P)
  BY PlacesFinite, FlatFacts
<1> HIDE DEF P
<1>2. /\ Cardinality(P) \in Nat
      /\ \A at \in Nat \X Nat : Before(P, at) \in 0 .. Cardinality(P)
      /\ \A x, y \in Nat \X Nat : Earlier(x, y) => Before(P, x) <= Before(P, y)
      /\ \A x \in P, y \in Nat \X Nat : Earlier(x, y) => Before(P, x) + 1 <= Before(P, y)
      /\ \A x \in P : Before(P, x) < Cardinality(P)
  BY <1>1, BeforeGrows
<1>3. /\ \A x, y \in P : Before(P, x) = Before(P, y) => x = y
      /\ \A x, y \in P : Before(P, x) < Before(P, y) => Earlier(x, y)
  BY <1>1, BeforeRanks
<1>4. \A x \in Nat \X Nat : Before(P, x) \in Nat
  BY <1>2
<1> QED BY <1>1, <1>2, <1>3, <1>4 DEF Offset, P

(* Every letter of a paragraph is in a text node that starts at it or before. *)
LEMMA NodeBefore ==
  ASSUME NEW items \in Seq(Inlines), NEW k \in 1 .. Len(items), items[k] # Break
  PROVE  \E j \in 1 .. k : /\ StartsNode(items, j)
                           /\ \A i \in 1 .. k : StartsNode(items, i) => i <= j
<1>1. Len(items) \in Nat
  BY LenProperties
<1> DEFINE T == {j \in 1 .. k : \A i \in j .. k : items[i] # Break}
<1>2. k \in T
  OBVIOUS
<1>3. PICK j \in T : \A i \in T : j <= i
  <2>1. T \in SUBSET Nat /\ T # {}
    BY <1>2
  <2> HIDE DEF T
  <2> QED BY <2>1, LeastNatural
<1>4. StartsNode(items, j)
  <2>1. j \in 1 .. k /\ \A i \in j .. k : items[i] # Break
    BY <1>3
  <2>2. items[j] # Break
    BY <2>1
  <2>3. ASSUME j # 1, items[j - 1] # Break PROVE FALSE
    <3>1. j - 1 \in 1 .. k /\ \A i \in j - 1 .. k : i = j - 1 \/ i \in j .. k
      BY <2>1, <2>3
    <3>2. j - 1 \in T
      BY <2>1, <2>3, <3>1
    <3> QED BY <1>3, <2>1, <3>2
  <2> QED BY <2>2, <2>3 DEF StartsNode
<1> DEFINE S == {i \in 1 .. k : StartsNode(items, i)}
<1>5. S \in SUBSET (1 .. k) /\ S # {} /\ k \in Nat
  BY <1>3, <1>4
<1> HIDE DEF S
<1>6. Max(S) \in S /\ \A y \in S : y <= Max(S)
  BY <1>5, PlacesHaveLast
<1> QED BY <1>6 DEF S

(* Where a text node ends.                                                   *)
LEMMA NodeEnds ==
  ASSUME NEW items \in Seq(Inlines), NEW k \in 1 .. Len(items)
  PROVE  LET e == NodeEnd(items, k)
         IN  /\ e \in k .. Len(items) /\ e \in Nat
             /\ e = Len(items) \/ items[e + 1] = Break \/ StartsNode(items, e + 1)
             /\ \A j \in k + 1 .. Len(items) : items[j] = Break \/ StartsNode(items, j) => e < j
<1> DEFINE S == {e \in k .. Len(items) :
                   e = Len(items) \/ items[e + 1] = Break \/ StartsNode(items, e + 1)}
<1>1. Len(items) \in Nat
  BY LenProperties
<1>2. S \in SUBSET Nat /\ Len(items) \in S
  BY <1>1
<1>3. NodeEnd(items, k) = Min(S)
  BY DEF NodeEnd
<1>4. Min(S) \in S /\ \A y \in S : Min(S) <= y
  <2> HIDE DEF S
  <2>1. \E x \in S : \A y \in S : x <= y
    BY <1>2, LeastNatural
  <2> QED BY <2>1 DEF Min
<1>5. ASSUME NEW j \in k + 1 .. Len(items), items[j] = Break \/ StartsNode(items, j) PROVE Min(S) < j
  <2>1. (j - 1) + 1 = j /\ j - 1 \in k .. Len(items)
    BY <1>1
  <2>2. j - 1 \in S
    BY <1>5, <2>1
  <2>3. Min(S) <= j - 1 /\ Min(S) \in Nat
    BY <1>2, <1>4, <2>2
  <2> QED BY <1>1, <2>3
<1>6. Min(S) \in Nat
  BY <1>2, <1>4
<1> QED BY <1>3, <1>4, <1>5, <1>6

-----------------------------------------------------------------------------
(* Where an offset of the flat text leads.                                   *)
LEMMA MinOfTwo ==
  ASSUME NEW a \in Int, NEW b \in Int
  PROVE  Min({a, b}) = IF a <= b THEN a ELSE b
<1> DEFINE c == IF a <= b THEN a ELSE b
<1>1. c \in {a, b} /\ \A y \in {a, b} : c <= y
  OBVIOUS
<1>2. \A x \in {a, b} : (\A y \in {a, b} : x <= y) => x = c
  OBVIOUS
<1> QED BY <1>1, <1>2 DEF Min

(* The text node that holds an offset, or that it is behind.                 *)
Holds(html, x, o) ==
  /\ x \in TextNodes(html) /\ Offset(html, x) <= o
  /\ \A y \in TextNodes(html) : Offset(html, y) <= o => Offset(html, y) <= Offset(html, x)

MappedAt(html, x, o) ==
  <<x[1], x[2] + Min({o - Offset(html, x), NodeEnd(html[x[1]].items, x[2]) - x[2] + 1})>>

(* An offset behind a text node is held by the last such node.               *)
LEMMA OffsetHeld ==
  ASSUME NEW html \in Seq(Pieces), NEW o \in Nat,
         \E x \in TextNodes(html) : Offset(html, x) <= o
  PROVE  \E x \in TextNodes(html) : Holds(html, x, o)
<1> DEFINE T == {o - Offset(html, x) : x \in {y \in TextNodes(html) : Offset(html, y) <= o}}
<1>1. \A x \in TextNodes(html) : Offset(html, x) \in Nat
  BY OffsetFacts, NodePlaces
<1>2. T \in SUBSET Nat /\ T # {}
  BY <1>1
<1>3. PICK d \in T : \A e \in T : d <= e
  <2> HIDE DEF T
  <2> QED BY <1>2, LeastNatural
<1>4. PICK x \in TextNodes(html) : Offset(html, x) <= o /\ d = o - Offset(html, x)
  BY <1>3
<1>5. ASSUME NEW y \in TextNodes(html), Offset(html, y) <= o PROVE Offset(html, y) <= Offset(html, x)
  <2>1. d <= o - Offset(html, y)
    BY <1>3, <1>5
  <2>2. Offset(html, x) \in Nat /\ Offset(html, y) \in Nat
    BY <1>1
  <2> QED BY <1>4, <2>1, <2>2
<1> QED BY <1>4, <1>5 DEF Holds

(* mapOffsetToDocPos finds the node that holds the offset.                   *)
LEMMA OffsetMapped ==
  ASSUME NEW html \in Seq(Pieces), NEW o \in Nat, NEW x, Holds(html, x, o)
  PROVE  mapOffsetToDocPos(RunsOf(html), o) = MappedAt(html, x, o)
<1> DEFINE Last1(r) == /\ r.start <= o
                       /\ \A s \in RunsOf(html) : s.start <= o => s.start <= r.start
           run == CHOOSE r \in RunsOf(html) : Last1(r)
<1>1. RunsOf(html) = {RunAt(html, y) : y \in TextNodes(html)}
  BY FlatFacts
<1>2. \A y \in TextNodes(html) :
        RunAt(html, y).at = y /\ RunAt(html, y).start = Offset(html, y)
        /\ RunAt(html, y).len = NodeEnd(html[y[1]].items, y[2]) - y[2] + 1
  BY DEF RunAt
<1>3. RunAt(html, x) \in RunsOf(html) /\ Last1(RunAt(html, x))
  BY <1>1, <1>2 DEF Holds
<1>4. run \in RunsOf(html) /\ Last1(run)
  <2> HIDE DEF Last1
  <2> QED BY <1>3
<1>5. PICK y \in TextNodes(html) : run = RunAt(html, y)
  BY <1>1, <1>4
<1>6. Offset(html, y) = Offset(html, x)
  <2>1. Offset(html, y) <= o /\ Offset(html, x) <= Offset(html, y)
    <3>1. run.start = Offset(html, y) /\ RunAt(html, x).start = Offset(html, x)
      <4> HIDE DEF run
      <4> QED BY <1>2, <1>5, <1>3 DEF Holds
    <3>2. run.start <= o /\ RunAt(html, x).start <= run.start
      <4> HIDE DEF run
      <4> QED BY <1>3, <1>4
    <3> HIDE DEF run
    <3> QED BY <3>1, <3>2
  <2>2. Offset(html, y) <= Offset(html, x)
    BY <2>1 DEF Holds
  <2>3. Offset(html, y) \in Nat /\ Offset(html, x) \in Nat
    BY OffsetFacts, NodePlaces DEF Holds
  <2> QED BY <2>1, <2>2, <2>3
<1>7. y = x
  <2>1. x \in Places(html) /\ y \in Places(html)
    BY PlacesFinite DEF Holds
  <2> QED BY <1>6, <2>1, OffsetFacts
<1>8. mapOffsetToDocPos(RunsOf(html), o) = <<run.at[1], run.at[2] + Min({o - run.start, run.len})>>
  <2> HIDE DEF run
  <2>1. run = CHOOSE r \in RunsOf(html) : /\ r.start <= o
                                        /\ \A s \in RunsOf(html) : s.start <= o => s.start <= r.start
    BY DEF run
  <2> QED BY <2>1 DEF mapOffsetToDocPos
<1>9. run.at = x /\ run.start = Offset(html, x)
      /\ run.len = NodeEnd(html[x[1]].items, x[2]) - x[2] + 1
  <2> HIDE DEF run
  <2> QED BY <1>2, <1>5, <1>7
<1> HIDE DEF run
<1> QED BY <1>8, <1>9 DEF MappedAt

(* A place between two items of a paragraph that is not empty.               *)
Between(html, at) ==
  /\ at = <<at[1], at[2]>> /\ at[1] \in DOMAIN html /\ html[at[1]].items # << >>
  /\ at[2] \in 1 .. Len(html[at[1]].items) + 1

(* A text node lies in a block with items and ends before the next one.      *)
LEMMA NodeFacts ==
  ASSUME NEW html \in Seq(Pieces), NEW x \in TextNodes(html)
  PROVE  LET items == html[x[1]].items
             e == NodeEnd(items, x[2])
         IN  /\ x = <<x[1], x[2]>> /\ x \in Nat \X Nat /\ x[1] \in DOMAIN html
             /\ items \in Seq(Inlines) /\ items # << >> /\ Len(items) \in Nat
             /\ x[2] \in 1 .. Len(items) /\ StartsNode(items, x[2])
             /\ e \in x[2] .. Len(items) /\ e \in Nat
             /\ \A j \in x[2] + 1 .. Len(items) : items[j] = Break \/ StartsNode(items, j) => e < j
<1> DEFINE items == html[x[1]].items
<1>1. x = <<x[1], x[2]>> /\ x \in Nat \X Nat
  BY NodePlaces
<1>2. x[1] \in DOMAIN html /\ x[2] \in 1 .. Len(items) /\ StartsNode(items, x[2])
  BY <1>1, NodePlaces
<1>3. items \in Seq(Inlines) /\ Len(items) \in Nat
  BY <1>2, PieceFacts
<1>4. items # << >>
  BY <1>2
<1> HIDE DEF items
<1>5. /\ NodeEnd(items, x[2]) \in x[2] .. Len(items) /\ NodeEnd(items, x[2]) \in Nat
      /\ \A j \in x[2] + 1 .. Len(items) :
           items[j] = Break \/ StartsNode(items, j) => NodeEnd(items, x[2]) < j
  BY <1>2, <1>3, NodeEnds
<1> QED BY <1>1, <1>2, <1>3, <1>4, <1>5 DEF items

(* What an offset is mapped to lies in the node that holds it, or right      *)
(* behind.                                                                   *)
LEMMA MappedBetween ==
  ASSUME NEW html \in Seq(Pieces), NEW o \in Nat, NEW x, Holds(html, x, o)
  PROVE  LET p == MappedAt(html, x, o)
         IN  /\ Between(html, p) /\ p[1] = x[1] /\ p[2] \in Nat
             /\ x[2] <= p[2] /\ p[2] <= NodeEnd(html[x[1]].items, x[2]) + 1
             /\ p[2] = IF o - Offset(html, x) <= NodeEnd(html[x[1]].items, x[2]) - x[2] + 1
                       THEN x[2] + (o - Offset(html, x)) ELSE NodeEnd(html[x[1]].items, x[2]) + 1
<1> DEFINE items == html[x[1]].items
           e == NodeEnd(items, x[2])
           p == MappedAt(html, x, o)
           a == o - Offset(html, x)
           b == e - x[2] + 1
<1>1. x \in TextNodes(html) /\ Offset(html, x) <= o
  BY DEF Holds
<1>2. /\ x \in Nat \X Nat /\ x[1] \in DOMAIN html /\ items # << >>
      /\ Len(items) \in Nat /\ x[2] \in 1 .. Len(items) /\ e \in x[2] .. Len(items) /\ e \in Nat
  BY <1>1, NodeFacts
<1>3. Offset(html, x) \in Nat
  BY <1>2, OffsetFacts
<1>4. p = <<x[1], x[2] + Min({a, b})>>
  BY DEF MappedAt
<1>5. a \in Nat /\ b \in Nat
  BY <1>1, <1>2, <1>3
<1>6. Min({a, b}) = IF a <= b THEN a ELSE b
  <2> HIDE DEF a, b
  <2> QED BY <1>5, MinOfTwo
<1>7. p[1] = x[1] /\ p[2] = x[2] + Min({a, b}) /\ p = <<p[1], p[2]>>
  <2> HIDE DEF p
  <2> QED BY <1>4
<1> HIDE DEF p, e, items
<1>8. p[2] \in 1 .. Len(items) + 1 /\ x[2] <= p[2] /\ p[2] <= e + 1
      /\ p[2] = IF a <= b THEN x[2] + a ELSE e + 1
  BY <1>2, <1>3, <1>5, <1>6, <1>7, SMTT(30)
<1>9. Between(html, p)
  BY <1>2, <1>7, <1>8 DEF Between, items
<1> QED BY <1>7, <1>8, <1>9 DEF p, e, items

(* A later offset leads no further back.                                     *)
LEMMA MapGoesOn ==
  ASSUME NEW html \in Seq(Pieces), NEW o \in Nat, NEW q \in Nat, o <= q,
         NEW x, NEW y, Holds(html, x, o), Holds(html, y, q)
  PROVE  /\ MappedAt(html, x, o)[1] <= MappedAt(html, y, q)[1]
         /\ MappedAt(html, x, o)[1] = MappedAt(html, y, q)[1]
              => MappedAt(html, x, o)[2] <= MappedAt(html, y, q)[2]
<1> DEFINE p == MappedAt(html, x, o)
           r == MappedAt(html, y, q)
<1>1. /\ x \in TextNodes(html) /\ x \in Nat \X Nat /\ x[1] \in Nat /\ x[2] \in Nat
      /\ y \in TextNodes(html) /\ y \in Nat \X Nat /\ y[1] \in Nat /\ y[2] \in Nat
  BY NodeFacts DEF Holds
<1>2. Offset(html, x) \in Nat /\ Offset(html, y) \in Nat
  BY <1>1, OffsetFacts
<1>3. Offset(html, x) <= o /\ Offset(html, y) <= q /\ Offset(html, x) <= Offset(html, y)
  <2>1. Offset(html, x) <= o /\ Offset(html, y) <= q
    BY DEF Holds
  <2>2. Offset(html, x) <= q
    BY <1>2, <2>1
  <2> QED BY <1>1, <2>1, <2>2 DEF Holds
<1>4. x \in Places(html) /\ y \in Places(html)
  BY <1>1, PlacesFinite
<1>5. p[1] = x[1] /\ r[1] = y[1] /\ p[2] \in Nat /\ r[2] \in Nat
  BY MappedBetween
<1>6. p[2] <= NodeEnd(html[x[1]].items, x[2]) + 1 /\ y[2] <= r[2]
  BY MappedBetween
<1>7. CASE x = y
  <2>1. p[2] = IF o - Offset(html, x) <= NodeEnd(html[x[1]].items, x[2]) - x[2] + 1
               THEN x[2] + (o - Offset(html, x)) ELSE NodeEnd(html[x[1]].items, x[2]) + 1
    BY MappedBetween
  <2>2. r[2] = IF q - Offset(html, x) <= NodeEnd(html[x[1]].items, x[2]) - x[2] + 1
               THEN x[2] + (q - Offset(html, x)) ELSE NodeEnd(html[x[1]].items, x[2]) + 1
    BY <1>7, MappedBetween
  <2>3. NodeEnd(html[x[1]].items, x[2]) \in Nat
    BY <1>1, NodeFacts
  <2> HIDE DEF p, r
  <2> QED BY <1>1, <1>2, <1>5, <1>7, <2>1, <2>2, <2>3, SMTT(30) DEF p, r
<1>8. CASE x # y
  <2>1. Earlier(x, y)
    <3>1. Offset(html, x) # Offset(html, y)
      BY <1>4, <1>8, OffsetFacts
    <3> QED BY <1>2, <1>3, <1>4, <3>1, OffsetFacts
  <2>2. CASE x[1] < y[1]
    BY <1>1, <1>5, <2>2
  <2>3. CASE x[1] = y[1] /\ x[2] < y[2]
    <3>1. y[2] \in 1 .. Len(html[x[1]].items) /\ StartsNode(html[x[1]].items, y[2])
      BY <1>1, <2>3, NodeFacts
    <3>2. y[2] \in x[2] + 1 .. Len(html[x[1]].items)
      BY <1>1, <2>3, <3>1
    <3>3. NodeEnd(html[x[1]].items, x[2]) < y[2] /\ NodeEnd(html[x[1]].items, x[2]) \in Nat
      BY <1>1, <3>1, <3>2, NodeFacts
    <3>4. p[2] <= r[2]
      <4> HIDE DEF p, r
      <4> QED BY <1>1, <1>5, <1>6, <3>3
    <3> QED BY <1>1, <1>5, <2>3, <3>4
  <2> QED BY <2>1, <2>2, <2>3 DEF Earlier
<1> QED BY <1>7, <1>8

-----------------------------------------------------------------------------
(* A word stands where its letters stand.                                    *)
LEMMA OccursRead ==
  ASSUME NEW T, NEW flat \in Seq(T), NEW word \in Seq(Letter), word # << >>, NEW i \in Nat
  PROVE  Occurs(flat, word, i) <=>
           \A j \in 1 .. Len(word) : i + j \in 1 .. Len(flat) /\ flat[i + j] = word[j]
<1> DEFINE m == Len(word)
           N == Len(flat)
           s == SubSeq(flat, i + 1, i + m)
<1>1. m \in Nat /\ m > 0 /\ N \in Nat
  BY EmptySeq, LenProperties
<1>2. ASSUME i + m <= N
      PROVE  s \in Seq(T) /\ Len(s) = m /\ \A j \in 1 .. m : s[j] = flat[i + j]
  <2> DEFINE a == i + 1
             z == i + m
  <2>1. a \in Int /\ z \in Int /\ \A k \in a .. z : flat[k] \in T
    <3>1. \A k \in a .. z : k \in 1 .. Len(flat)
      BY <1>1, <1>2
    <3> QED BY <1>1, <3>1, ElementOfSeq
  <2>2. z - a + 1 = m /\ a <= z /\ \A j \in 1 .. m : a + j - 1 = i + j
    BY <1>1
  <2> HIDE DEF a, z
  <2>3. /\ SubSeq(flat, a, z) \in Seq(T)
        /\ Len(SubSeq(flat, a, z)) = IF a <= z THEN z - a + 1 ELSE 0
        /\ \A j \in 1 .. z - a + 1 : SubSeq(flat, a, z)[j] = flat[a + j - 1]
    BY <2>1, SubSeqProperties
  <2>4. /\ SubSeq(flat, a, z) \in Seq(T) /\ Len(SubSeq(flat, a, z)) = m
        /\ \A j \in 1 .. m : SubSeq(flat, a, z)[j] = flat[i + j]
    BY <2>2, <2>3
  <2> QED BY <2>4 DEF a, z
<1>3. ASSUME Occurs(flat, word, i)
      PROVE  \A j \in 1 .. m : i + j \in 1 .. N /\ flat[i + j] = word[j]
  <2>1. i + m <= N /\ s = word
    BY <1>3 DEF Occurs
  <2> HIDE DEF s
  <2> QED BY <1>1, <1>2, <2>1
<1>4. ASSUME \A j \in 1 .. m : i + j \in 1 .. N /\ flat[i + j] = word[j]
      PROVE  Occurs(flat, word, i)
  <2>1. i + m <= N
    BY <1>1, <1>4
  <2>2. s = word
    <3>1. s \in Seq(T) /\ Len(s) = m /\ \A j \in 1 .. m : s[j] = word[j]
      BY <1>2, <1>4, <2>1
    <3> DEFINE U == T \cup Letter
    <3>2. s \in Seq(U) /\ word \in Seq(U)
      BY <3>1, SeqMonotonic
    <3> HIDE DEF s, U
    <3> QED BY <3>1, <3>2, SeqEqual
  <2> QED BY <2>1, <2>2 DEF Occurs
<1> QED BY <1>3, <1>4

-----------------------------------------------------------------------------
(* Matches.  Those of either view are in the order of the document, each in  *)
(* a paragraph that has text.                                                *)
FoundAt(html, word) == Found(FlatOf(html), word)

LegalMatches(html, ms) ==
  /\ Len(ms) \in Nat /\ DOMAIN ms = 1 .. Len(ms)
  /\ \A n \in DOMAIN ms : Between(html, ms[n].from) /\ ms[n].to[2] \in Nat \ {0}
  /\ \A p, q \in DOMAIN ms :
       p < q /\ ms[p].from[1] = ms[q].from[1] => ms[p].from[2] <= ms[q].from[2]

(* The matches are the finds of the flat text, mapped back.                  *)
LEMMA MatchesAre ==
  ASSUME NEW html, NEW word
  PROVE  computeMatches(html, word) =
           [n \in DOMAIN FoundAt(html, word) |->
              [from |-> mapOffsetToDocPos(RunsOf(html), FoundAt(html, word)[n]),
               to   |-> mapOffsetToDocPos(RunsOf(html), FoundAt(html, word)[n] + Len(word))]]
BY DEF computeMatches, FoundAt, RunsOf, FlatOf

(* A letter of the flat text is one of the document's, and in a text node.   *)
LEMMA LetterAt ==
  ASSUME NEW html \in Seq(Pieces), NEW n \in 1 .. Len(FlatOf(html)), FlatOf(html)[n] \in Letter
  PROVE  \E x \in Letters(html) : Offset(html, x) = n - 1 /\ FlatOf(html)[n] = ReadAt(html, x)
<1>1. PICK x \in Places(html) : Offset(html, x) = n - 1 /\ FlatOf(html)[n] = ReadAt(html, x)
  BY FlatFacts
<1>2. x \notin Newlines(html)
  <2>1. ASSUME x \in Newlines(html) PROVE FALSE
    <3>1. x = <<x[1], 0>>
      BY <2>1, NewlinePlaces
    <3>2. x[2] = 0
      BY <3>1
    <3> QED BY <1>1, <3>2, EditorAssumption DEF ReadAt
  <2> QED BY <2>1
<1> QED BY <1>1, <1>2 DEF Places

(* An offset at a letter or behind one is held.                              *)
LEMMA LetterHeld ==
  ASSUME NEW html \in Seq(Pieces), NEW x \in Letters(html), NEW o \in Nat, Offset(html, x) <= o
  PROVE  \E y : Holds(html, y, o)
<1>1. /\ x = <<x[1], x[2]>> /\ x \in Nat \X Nat /\ x[1] \in DOMAIN html
      /\ x[2] \in 1 .. Len(html[x[1]].items) /\ html[x[1]].items[x[2]] # Break
  BY LetterPlaces
<1> DEFINE items == html[x[1]].items
           b == x[1]
           k == x[2]
<1>2. items \in Seq(Inlines) /\ Len(items) \in Nat
  BY <1>1, PieceFacts
<1>3. PICK j \in 1 .. k : StartsNode(items, j)
  BY <1>1, <1>2, NodeBefore
<1>4. <<b, j>> \in TextNodes(html)
  BY <1>1, <1>2, <1>3, NodePlaces
<1>5. Offset(html, <<b, j>>) <= Offset(html, x)
  <2>1. <<b, j>> = x \/ Earlier(<<b, j>>, x)
    BY <1>1, <1>2, <1>3 DEF Earlier
  <2>2. <<b, j>> \in Nat \X Nat
    BY <1>4, NodePlaces
  <2>3. Offset(html, x) \in Nat
    BY <1>1, OffsetFacts
  <2> QED BY <1>1, <2>1, <2>2, <2>3, OffsetFacts
<1>6. Offset(html, <<b, j>>) <= o
  <2>1. Offset(html, <<b, j>>) \in Nat /\ Offset(html, x) \in Nat
    BY <1>1, <1>4, OffsetFacts, NodePlaces
  <2> QED BY <1>5, <2>1
<1> QED BY <1>4, <1>6, OffsetHeld

(* Both ends of a match are held.                                            *)
LEMMA MatchHeld ==
  ASSUME NEW html \in Seq(Pieces), NEW word \in Seq(Letter), NEW p \in DOMAIN FoundAt(html, word)
  PROVE  /\ FoundAt(html, word)[p] \in Nat /\ Len(word) \in Nat /\ Len(word) > 0
         /\ \E x : Holds(html, x, FoundAt(html, word)[p])
         /\ \E x : Holds(html, x, FoundAt(html, word)[p] + Len(word))
<1> DEFINE flat == FlatOf(html)
           s == FoundAt(html, word)
           m == Len(word)
<1>1. flat \in Seq(Letter \cup {"\n"})
  BY FlatFacts
<1>2. s[p] \in Nat /\ Occurs(flat, word, s[p]) /\ m \in Nat /\ m > 0
  <2> HIDE DEF flat
  <2> QED BY <1>1, FoundFacts DEF FoundAt, flat
<1>3. word # << >> /\ word[1] \in Letter /\ 1 \in 1 .. m
  BY <1>2, ElementOfSeq
<1>4. s[p] + 1 \in 1 .. Len(flat) /\ flat[s[p] + 1] \in Letter
  <2> HIDE DEF flat, s
  <2> QED BY <1>1, <1>2, <1>3, OccursRead
<1>5. PICK x \in Letters(html) : Offset(html, x) = s[p]
  <2> DEFINE n == s[p] + 1
  <2>1. n \in 1 .. Len(FlatOf(html)) /\ FlatOf(html)[n] \in Letter
    BY <1>4
  <2> HIDE DEF n
  <2>2. \E x \in Letters(html) : Offset(html, x) = n - 1
    BY <2>1, LetterAt
  <2>3. n - 1 = s[p]
    BY <1>2 DEF n
  <2> QED BY <2>2, <2>3
<1> HIDE DEF s, m
<1>6. Offset(html, x) <= s[p] /\ Offset(html, x) <= s[p] + m /\ s[p] + m \in Nat
  BY <1>2, <1>5
<1> QED BY <1>2, <1>6, LetterHeld DEF s, m

(* Matches lie in paragraphs, in the order of the document.                  *)
LEMMA MatchesLegal ==
  ASSUME NEW html \in Seq(Pieces), NEW word \in Seq(Letter)
  PROVE  LegalMatches(html, computeMatches(html, word))
<1> DEFINE s == FoundAt(html, word)
           ms == computeMatches(html, word)
           m == Len(word)
<1>1. /\ Len(s) \in Nat /\ DOMAIN s = 1 .. Len(s)
      /\ \A p, q \in DOMAIN s : p < q => s[p] < s[q]
  BY FlatFacts, FoundFacts DEF FoundAt
<1>2. DOMAIN ms = DOMAIN s
  BY MatchesAre
<1>3. Len(ms) \in Nat /\ DOMAIN ms = 1 .. Len(ms)
  <2>1. ms = [n \in 1 .. Len(s) |-> ms[n]]
    BY <1>1, MatchesAre
  <2> HIDE DEF ms, s
  <2>2. Len(ms) = Len(s)
    BY <1>1, <2>1
  <2> QED BY <1>1, <1>2, <2>2
<1>4. ASSUME NEW n \in DOMAIN s
      PROVE  \E x : /\ Holds(html, x, s[n]) /\ s[n] \in Nat
                    /\ ms[n].from = MappedAt(html, x, s[n])
  <2>1. PICK x : Holds(html, x, s[n]) /\ s[n] \in Nat
    BY MatchHeld
  <2>2. ms[n].from = mapOffsetToDocPos(RunsOf(html), s[n])
    BY MatchesAre
  <2> QED BY <2>1, <2>2, OffsetMapped
<1>5. ASSUME NEW n \in DOMAIN s
      PROVE  \E x : /\ Holds(html, x, s[n] + m) /\ s[n] + m \in Nat
                    /\ ms[n].to = MappedAt(html, x, s[n] + m)
  <2>1. PICK x : Holds(html, x, s[n] + m)
    BY MatchHeld
  <2>2. s[n] + m \in Nat
    BY MatchHeld
  <2>3. ms[n].to = mapOffsetToDocPos(RunsOf(html), s[n] + m)
    BY MatchesAre
  <2> QED BY <2>1, <2>2, <2>3, OffsetMapped
<1> HIDE DEF s, ms, m
<1>6. ASSUME NEW n \in DOMAIN s PROVE Between(html, ms[n].from) /\ ms[n].to[2] \in Nat \ {0}
  <2>1. Between(html, ms[n].from)
    BY <1>4, MappedBetween
  <2>2. PICK x : /\ Holds(html, x, s[n] + m) /\ s[n] + m \in Nat
                 /\ ms[n].to = MappedAt(html, x, s[n] + m)
    BY <1>5
  <2>3. Between(html, ms[n].to) /\ ms[n].to[2] \in Nat
    BY <2>2, MappedBetween
  <2>4. ms[n].to[2] # 0
    <3>1. ms[n].to[2] \in 1 .. Len(html[ms[n].to[1]].items) + 1
      BY <2>3 DEF Between
    <3> QED BY <3>1
  <2> QED BY <2>1, <2>3, <2>4
<1>7. ASSUME NEW p \in DOMAIN s, NEW q \in DOMAIN s, p < q, ms[p].from[1] = ms[q].from[1]
      PROVE  ms[p].from[2] <= ms[q].from[2]
  <2>1. PICK x : Holds(html, x, s[p]) /\ s[p] \in Nat /\ ms[p].from = MappedAt(html, x, s[p])
    BY <1>4
  <2>2. PICK y : Holds(html, y, s[q]) /\ s[q] \in Nat /\ ms[q].from = MappedAt(html, y, s[q])
    BY <1>4
  <2>3. s[p] <= s[q]
    BY <1>1, <1>7, <2>1, <2>2
  <2> QED BY <1>7, <2>1, <2>2, <2>3, MapGoesOn
<1> QED BY <1>2, <1>3, <1>6, <1>7 DEF LegalMatches, ms

(* The text of a node consists of letters of its paragraph.                  *)
LEMMA NodeRead ==
  ASSUME NEW html \in Seq(Pieces), NEW x \in TextNodes(html)
  PROVE  /\ NodeText(html, x) \in Seq(Letter)
         /\ Len(NodeText(html, x)) = NodeEnd(html[x[1]].items, x[2]) - x[2] + 1
         /\ \A k \in x[2] .. NodeEnd(html[x[1]].items, x[2]) : <<x[1], k>> \in Letters(html)
<1> DEFINE items == html[x[1]].items
           e == NodeEnd(items, x[2])
<1>1. /\ x[1] \in DOMAIN html /\ items \in Seq(Inlines) /\ Len(items) \in Nat
      /\ x[2] \in 1 .. Len(items) /\ StartsNode(items, x[2])
      /\ e \in x[2] .. Len(items) /\ e \in Nat
      /\ \A j \in x[2] + 1 .. Len(items) : items[j] = Break \/ StartsNode(items, j) => e < j
  BY NodeFacts
<1>2. ASSUME NEW k \in x[2] .. e
      PROVE  k \in 1 .. Len(items) /\ items[k] # Break /\ items[k].c \in Letter
  <2> HIDE DEF items, e
  <2>1. k \in 1 .. Len(items) /\ (k = x[2] \/ k \in x[2] + 1 .. Len(items))
    BY <1>1
  <2>2. items[k] # Break
    <3>1. CASE k = x[2]
      BY <1>1, <3>1 DEF StartsNode
    <3>2. CASE k \in x[2] + 1 .. Len(items)
      <4>1. ~(e < k)
        BY <1>1, <2>1
      <4> QED BY <1>1, <3>2, <4>1
    <3> QED BY <2>1, <3>1, <3>2
  <2>3. items[k] \in Inlines
    BY <1>1, <2>1, ElementOfSeq
  <2> QED BY <2>1, <2>2, <2>3 DEF Inlines
<1>3. \A k \in x[2] .. e : <<x[1], k>> \in Letters(html)
  BY <1>1, <1>2, LetterPlaces
<1> DEFINE n == e - x[2] + 1
           text == [k \in 1 .. n |-> items[x[2] + k - 1].c]
<1>4. NodeText(html, x) = text
  BY DEF NodeText
<1>5. n \in Nat /\ \A k \in 1 .. n : x[2] + k - 1 \in x[2] .. e
  <2> HIDE DEF items, e
  <2> QED BY <1>1, SMTT(30)
<1>6. \A k \in 1 .. n : items[x[2] + k - 1].c \in Letter
  <2> HIDE DEF items, e, n
  <2> QED BY <1>2, <1>5
<1>7. text \in Seq(Letter) /\ Len(text) = n
  <2> HIDE DEF items, e, n
  <2>1. text \in [1 .. n -> Letter]
    BY <1>6
  <2> QED BY <1>5, <2>1
<1> QED BY <1>3, <1>4, <1>7

(* So do the matches of the source view.                                     *)
LEMMA SourceMatchesLegal ==
  ASSUME NEW html \in Seq(Pieces), NEW word \in Seq(Letter)
  PROVE  LegalMatches(html, SourceMatches(html, word))
<1> DEFINE Hits(x) == {<<x[1], x[2] + o>> : o \in Range(Found(NodeText(html, x), word))}
           Q == UNION {Hits(x) : x \in TextNodes(html)}
           found == InOrder(Q)
           ms == SourceMatches(html, word)
<1>1. Q \in SUBSET Letters(html)
  <2> SUFFICES ASSUME NEW q \in Q PROVE q \in Letters(html)
    OBVIOUS
  <2>1. PICK x \in TextNodes(html) : q \in Hits(x)
    OBVIOUS
  <2> DEFINE s == Found(NodeText(html, x), word)
             e == NodeEnd(html[x[1]].items, x[2])
  <2>2. PICK p \in DOMAIN s : q = <<x[1], x[2] + s[p]>>
    BY <2>1 DEF Range
  <2>3. NodeText(html, x) \in Seq(Letter) /\ Len(NodeText(html, x)) = e - x[2] + 1
        /\ \A k \in x[2] .. e : <<x[1], k>> \in Letters(html)
    BY NodeRead
  <2>4. s[p] \in Nat /\ Occurs(NodeText(html, x), word, s[p]) /\ Len(word) \in Nat /\ Len(word) > 0
    BY <2>3, FoundFacts
  <2>5. x[2] \in Nat /\ e \in Nat
    BY NodeFacts
  <2> HIDE DEF e, s
  <2>6. x[2] + s[p] \in x[2] .. e
    BY <2>3, <2>4, <2>5, SMTT(30) DEF Occurs
  <2> QED BY <2>2, <2>3, <2>6
<1>2. Q \in SUBSET (Nat \X Nat) /\ IsFiniteSet(Q)
  <2> HIDE DEF Q
  <2>1. Q \in SUBSET Places(html)
    BY <1>1 DEF Places
  <2> QED BY <2>1, PlacesFinite, FS_Subset
<1>3. ms = [n \in DOMAIN found |-> [from |-> found[n], to |-> <<found[n][1], found[n][2] + Len(word)>>]]
  BY DEF SourceMatches
<1> HIDE DEF Q
<1>4. /\ Cardinality(Q) \in Nat /\ DOMAIN found = 1 .. Cardinality(Q)
      /\ \A n \in 1 .. Cardinality(Q) : found[n] \in Q /\ Before(Q, found[n]) = n - 1
  BY <1>2, InOrderRanks
<1> HIDE DEF found, ms
<1>5. DOMAIN ms = 1 .. Cardinality(Q) /\ Len(ms) = Cardinality(Q)
  BY <1>3, <1>4
<1>6. ASSUME NEW n \in DOMAIN ms PROVE Between(html, ms[n].from) /\ ms[n].to[2] \in Nat \ {0}
  <2>1. found[n] \in Letters(html) /\ ms[n].from = found[n] /\ ms[n].to[2] = found[n][2] + Len(word)
    BY <1>1, <1>3, <1>4, <1>5
  <2>2. found[n] = <<found[n][1], found[n][2]>> /\ found[n][1] \in DOMAIN html
        /\ found[n][2] \in 1 .. Len(html[found[n][1]].items)
    BY <2>1, LetterPlaces
  <2>3. Len(html[found[n][1]].items) \in Nat /\ Len(word) \in Nat
    BY <2>2, PieceFacts, LenProperties
  <2>4. html[found[n][1]].items # << >> /\ found[n][2] \in 1 .. Len(html[found[n][1]].items) + 1
    BY <2>2, <2>3
  <2>5. found[n][2] + Len(word) \in Nat \ {0}
    BY <2>2, <2>3
  <2> QED BY <2>1, <2>2, <2>4, <2>5 DEF Between
<1>7. ASSUME NEW p \in DOMAIN ms, NEW q \in DOMAIN ms, p < q, ms[p].from[1] = ms[q].from[1]
      PROVE  ms[p].from[2] <= ms[q].from[2]
  <2>1. found[p] \in Q /\ found[q] \in Q /\ ms[p].from = found[p] /\ ms[q].from = found[q]
        /\ Before(Q, found[p]) < Before(Q, found[q])
    BY <1>3, <1>4, <1>5, <1>7
  <2>2. Earlier(found[p], found[q])
    BY <1>2, <2>1, BeforeRanks
  <2>3. found[p][1] \in Nat /\ found[q][1] \in Nat /\ found[p][2] \in Nat /\ found[q][2] \in Nat
    BY <1>2, <2>1
  <2> QED BY <1>7, <2>1, <2>2, <2>3 DEF Earlier
<1> QED BY <1>4, <1>5, <1>6, <1>7 DEF LegalMatches, ms

-----------------------------------------------------------------------------
(* Replacing.                                                                *)
LEMMA TypedLetters ==
  ASSUME NEW letters \in Seq(Letter), NEW bold \in BOOLEAN
  PROVE  /\ Typed(letters, bold) \in Seq(Inlines) /\ Len(Typed(letters, bold)) = Len(letters)
         /\ \A k \in 1 .. Len(letters) : Typed(letters, bold)[k] = [c |-> letters[k], bold |-> bold]
<1>1. Len(letters) \in Nat /\ DOMAIN letters = 1 .. Len(letters)
      /\ \A k \in 1 .. Len(letters) : letters[k] \in Letter
  BY LenProperties, ElementOfSeq
<1>2. Typed(letters, bold) = [k \in 1 .. Len(letters) |-> [c |-> letters[k], bold |-> bold]]
  BY <1>1 DEF Typed
<1>3. \A k \in 1 .. Len(letters) : [c |-> letters[k], bold |-> bold] \in Inlines
  BY <1>1 DEF Inlines
<1>4. Typed(letters, bold) \in [1 .. Len(letters) -> Inlines]
  BY <1>2, <1>3
<1> HIDE DEF Inlines
<1> DEFINE t == Typed(letters, bold)
<1>5. t \in [1 .. Len(letters) -> Inlines] /\ Len(letters) \in Nat
  BY <1>1, <1>4
<1>6. \A k \in 1 .. Len(letters) : t[k] = [c |-> letters[k], bold |-> bold]
  BY <1>2
<1> HIDE DEF t
<1>7. t \in Seq(Inlines) /\ Len(t) = Len(letters)
  BY <1>5
<1> QED BY <1>6, <1>7 DEF t

(* A part of a sequence from some place on.                                  *)
LEMMA PartFrom ==
  ASSUME NEW B, NEW s \in Seq(B), NEW a \in Nat \ {0}
  PROVE  /\ SubSeq(s, a, Len(s)) \in Seq(B)
         /\ Len(SubSeq(s, a, Len(s))) = IF a <= Len(s) THEN Len(s) - a + 1 ELSE 0
         /\ \A i \in 1 .. Len(s) - a + 1 : SubSeq(s, a, Len(s))[i] = s[a + i - 1]
<1>1. Len(s) \in Nat /\ \A i \in a .. Len(s) : s[i] \in B
  BY LenProperties, ElementOfSeq
<1> QED BY <1>1, SubSeqProperties

(* A part of a sequence up to some place.                                    *)
LEMMA PartUpto ==
  ASSUME NEW B, NEW s \in Seq(B), NEW a \in Nat, a <= Len(s)
  PROVE  /\ SubSeq(s, 1, a) \in Seq(B) /\ Len(SubSeq(s, 1, a)) = a
         /\ \A i \in 1 .. a : SubSeq(s, 1, a)[i] = s[i]
<1>1. Len(s) \in Nat /\ \A i \in 1 .. a : s[i] \in B
  BY LenProperties, ElementOfSeq
<1> DEFINE b == 1
<1>2. b \in Int /\ a \in Int /\ \A i \in b .. a : s[i] \in B
  BY <1>1
<1> HIDE DEF b
<1>3. /\ SubSeq(s, b, a) \in Seq(B) /\ Len(SubSeq(s, b, a)) = IF b <= a THEN a - b + 1 ELSE 0
      /\ \A i \in 1 .. a - b + 1 : SubSeq(s, b, a)[i] = s[b + i - 1]
  BY <1>2, SubSeqProperties
<1>4. a - b + 1 = a /\ (IF b <= a THEN a - b + 1 ELSE 0) = a /\ \A i \in 1 .. a : b + i - 1 = i
  BY DEF b
<1>5. /\ SubSeq(s, b, a) \in Seq(B) /\ Len(SubSeq(s, b, a)) = a
      /\ \A i \in 1 .. a : SubSeq(s, b, a)[i] = s[i]
  BY <1>3, <1>4
<1> QED BY <1>5 DEF b

Joined(s, t) == s \o t
Part(s, a, e) == SubSeq(s, a, e)

(* One match replaced: its paragraph gets the new letters, the others stay.  *)
LEMMA Inserted ==
  ASSUME NEW h \in Seq(Pieces), NEW match, NEW letters \in Seq(Letter),
         match.from[1] \in DOMAIN h, h[match.from[1]].kind = "p",
         match.from[2] \in Nat \ {0}, match.from[2] - 1 <= Len(h[match.from[1]].items),
         match.to[2] \in Nat \ {0}
  PROVE  LET b == match.from[1]
             new == insertText(h, match, letters)
         IN  /\ new \in Seq(Pieces) /\ Len(new) = Len(h) /\ DOMAIN new = DOMAIN h
             /\ \A c \in DOMAIN h : c # b => new[c] = h[c]
             /\ new[b].kind = "p" /\ match.from[2] - 1 <= Len(new[b].items)
             /\ \E bold \in BOOLEAN :
                  new[b].items = Joined(Joined(Part(h[b].items, 1, match.from[2] - 1), Typed(letters, bold)),
                                        Part(h[b].items, match.to[2], Len(h[b].items)))
<1> DEFINE b == match.from[1]
           items == h[b].items
           a == match.from[2] - 1
           bold == match.from[2] \in DOMAIN items /\ items[match.from[2]].bold
           after == SubSeq(items, match.to[2], Len(items))
           put == SubSeq(items, 1, a) \o Typed(letters, bold) \o after
           new == [h EXCEPT ![b].items = put]
<1>1. insertText(h, match, letters) = new
  BY DEF insertText
<1>2. items \in Seq(Inlines) /\ Len(items) \in Nat /\ h[b] \in Pieces /\ b \in 1 .. Len(h)
  BY PieceFacts
<1>3. a \in Nat /\ a <= Len(items) /\ bold \in BOOLEAN
  <2> HIDE DEF items
  <2> QED BY DEF items
<1> HIDE DEF a, bold
<1>4. SubSeq(items, 1, a) \in Seq(Inlines) /\ Len(SubSeq(items, 1, a)) = a
  <2> HIDE DEF items
  <2> QED BY <1>2, <1>3, PartUpto
<1>5. after \in Seq(Inlines) /\ Len(after) \in Nat
  <2> HIDE DEF items
  <2> QED BY <1>2, PartFrom, LenProperties
<1>6. Typed(letters, bold) \in Seq(Inlines) /\ Len(Typed(letters, bold)) \in Nat
  BY <1>3, TypedLetters, LenProperties
<1>7. put \in Seq(Inlines) /\ a <= Len(put)
  <2> HIDE DEF items, after
  <2> DEFINE front == SubSeq(items, 1, a) \o Typed(letters, bold)
  <2>1. front \in Seq(Inlines) /\ Len(front) = a + Len(Typed(letters, bold))
    BY <1>4, <1>6, ConcatProperties
  <2> HIDE DEF front
  <2>2. front \o after \in Seq(Inlines) /\ Len(front \o after) = Len(front) + Len(after)
    BY <1>5, <2>1, ConcatProperties
  <2>3. put = front \o after
    BY DEF front
  <2> HIDE DEF put
  <2> QED BY <1>3, <1>5, <1>6, <2>1, <2>2, <2>3
<1>8. h[b] \in [kind : {"p"}, items : Seq(Inlines)]
  <2>1. h[b] # Photo
    BY DEF Photo
  <2> QED BY <1>2, <2>1 DEF Pieces
<1> DEFINE piece == [h[b] EXCEPT !.items = put]
<1>9. new = [h EXCEPT ![b] = piece]
  OBVIOUS
<1> HIDE DEF put
<1>10. piece \in Pieces /\ piece.kind = "p" /\ piece.items = put
  BY <1>7, <1>8 DEF Pieces
<1> HIDE DEF piece, new
<1>11. /\ new \in Seq(Pieces) /\ Len(new) = Len(h) /\ DOMAIN new = DOMAIN h
       /\ \A c \in DOMAIN h : new[c] = IF c = b THEN piece ELSE h[c]
  <2>1. /\ new \in Seq(Pieces) /\ Len(new) = Len(h)
        /\ \A c \in 1 .. Len(h) : new[c] = IF c = b THEN piece ELSE h[c]
    BY <1>2, <1>9, <1>10, ExceptSeq
  <2>2. DOMAIN h = 1 .. Len(h) /\ DOMAIN new = 1 .. Len(new)
    BY <2>1, LenProperties
  <2> QED BY <2>1, <2>2
<1>12. new[b].kind = "p" /\ new[b].items = put
  BY <1>10, <1>11
<1>13. \E x \in BOOLEAN :
         put = Joined(Joined(Part(items, 1, match.from[2] - 1), Typed(letters, x)),
                      Part(items, match.to[2], Len(items)))
  BY <1>3 DEF put, after, a, Joined, Part
<1> QED BY <1>1, <1>7, <1>11, <1>12, <1>13 DEF a

(* What the replacement of the last n matches leaves fits the others.        *)
Fits(html, ms, h, n) ==
  /\ h \in Seq(Pieces) /\ DOMAIN h = DOMAIN html
  /\ \A p \in 1 .. Len(ms) : h[ms[p].from[1]].kind = "p"
  /\ \A p \in 1 .. Len(ms) : p <= Len(ms) - n => ms[p].from[2] - 1 <= Len(h[ms[p].from[1]].items)

(* Matches are replaced last to first, so those to come keep their places.   *)
LEMMA ReplaceFits ==
  ASSUME NEW html \in Seq(Pieces), NEW ms, LegalMatches(html, ms), NEW letters \in Seq(Letter),
         NEW r, ReplacedSteps(r, Len(ms), Reverse(ms), html, letters)
  PROVE  \A n \in 0 .. Len(ms) : Fits(html, ms, r[n], n)
<1> DEFINE N == Len(ms)
           L == Reverse(ms)
<1>1. N \in Nat /\ DOMAIN ms = 1 .. N
  BY DEF LegalMatches
<1>2. DOMAIN L = 1 .. N /\ \A n \in 1 .. N : L[n] = ms[N - n + 1]
  BY DEF Reverse
<1>3. ReplacedSteps(r, N, L, html, letters)
  OBVIOUS
<1> HIDE DEF N, L
<1> DEFINE FitsAt(h, n) ==
             /\ h \in Seq(Pieces) /\ DOMAIN h = DOMAIN html
             /\ \A p \in 1 .. N : h[ms[p].from[1]].kind = "p"
             /\ \A p \in 1 .. N : p <= N - n => ms[p].from[2] - 1 <= Len(h[ms[p].from[1]].items)
           S == {n \in Nat : FitsAt(r[n], n)}
<1>4. \A p \in 1 .. N : /\ ms[p].from[1] \in DOMAIN html /\ ms[p].from[2] \in Nat \ {0}
                        /\ ms[p].from[2] - 1 <= Len(html[ms[p].from[1]].items)
                        /\ ms[p].to[2] \in Nat \ {0} /\ html[ms[p].from[1]].kind = "p"
  <2> SUFFICES ASSUME NEW p \in 1 .. N
               PROVE  /\ ms[p].from[1] \in DOMAIN html /\ ms[p].from[2] \in Nat \ {0}
                      /\ ms[p].from[2] - 1 <= Len(html[ms[p].from[1]].items)
                      /\ ms[p].to[2] \in Nat \ {0} /\ html[ms[p].from[1]].kind = "p"
    OBVIOUS
  <2>1. Between(html, ms[p].from) /\ ms[p].to[2] \in Nat \ {0}
    BY <1>1 DEF LegalMatches
  <2>2. Len(html[ms[p].from[1]].items) \in Nat /\ html[ms[p].from[1]].kind = "p"
    BY <2>1, PieceFacts DEF Between
  <2>3. /\ ms[p].from[1] \in DOMAIN html /\ ms[p].from[2] \in Nat \ {0}
        /\ ms[p].from[2] - 1 <= Len(html[ms[p].from[1]].items)
    BY ONLY <2>1, <2>2, SMTT(30) DEF Between
  <2> QED BY ONLY <2>1, <2>2, <2>3
<1>5. 0 \in S
  <2>1. r[0] = html
    BY <1>3 DEF ReplacedSteps
  <2> QED BY <1>4, <2>1
<1>6. ASSUME NEW n \in 1 .. N, n - 1 \in S PROVE n \in S
  <2> DEFINE h == r[n - 1]
             k == N - n + 1
             b == ms[k].from[1]
             new == insertText(h, ms[k], letters)
  <2>1. r[n] = new
    BY <1>2, <1>3 DEF ReplacedSteps
  <2>2. FitsAt(h, n - 1)
    BY <1>6
  <2>3. k \in 1 .. N /\ k <= N - (n - 1)
    BY <1>1
  <2> HIDE DEF h, k
  <2>4. /\ b \in DOMAIN h /\ h[b].kind = "p" /\ ms[k].from[2] \in Nat \ {0}
        /\ ms[k].from[2] - 1 <= Len(h[b].items) /\ ms[k].to[2] \in Nat \ {0}
    BY <1>4, <2>2, <2>3
  <2>5. /\ new \in Seq(Pieces) /\ Len(new) = Len(h) /\ DOMAIN new = DOMAIN h
        /\ \A c \in DOMAIN h : c # b => new[c] = h[c]
        /\ new[b].kind = "p" /\ ms[k].from[2] - 1 <= Len(new[b].items)
    <3>1. h \in Seq(Pieces)
      BY <2>2
    <3> DEFINE match == ms[k]
    <3>2. /\ match.from[1] \in DOMAIN h /\ h[match.from[1]].kind = "p"
          /\ match.from[2] \in Nat \ {0} /\ match.from[2] - 1 <= Len(h[match.from[1]].items)
          /\ match.to[2] \in Nat \ {0}
      BY <2>4
    <3> HIDE DEF match, FitsAt
    <3>3. LET c == match.from[1]
              new1 == insertText(h, match, letters)
          IN  /\ new1 \in Seq(Pieces) /\ Len(new1) = Len(h) /\ DOMAIN new1 = DOMAIN h
              /\ \A d \in DOMAIN h : d # c => new1[d] = h[d]
              /\ new1[c].kind = "p" /\ match.from[2] - 1 <= Len(new1[c].items)
      BY <3>1, <3>2, Inserted
    <3> QED BY <3>3 DEF match
  <2> HIDE DEF new
  <2>6. ASSUME NEW p \in 1 .. N PROVE new[ms[p].from[1]].kind = "p"
    <3>1. ms[p].from[1] \in DOMAIN h
      BY <1>4, <2>2
    <3> QED BY <2>2, <2>5, <3>1
  <2>7. ASSUME NEW p \in 1 .. N, p <= N - n
        PROVE  ms[p].from[2] - 1 <= Len(new[ms[p].from[1]].items)
    <3>1. p <= N - (n - 1) /\ p < k
      BY <1>1, <2>7 DEF k
    <3>2. ms[p].from[1] \in DOMAIN h
      BY <1>4, <2>2
    <3>3. CASE ms[p].from[1] # b
      BY <2>2, <2>5, <3>1, <3>2, <3>3
    <3>4. CASE ms[p].from[1] = b
      <4>1. ms[p].from[2] <= ms[k].from[2]
        BY <1>1, <2>3, <3>1, <3>4 DEF LegalMatches
      <4>2. ms[p].from[2] \in Nat /\ ms[k].from[2] \in Nat /\ Len(new[b].items) \in Nat
        <5>1. b \in DOMAIN new
          BY <2>4, <2>5
        <5> QED BY <1>4, <2>3, <2>5, <5>1, PieceFacts
      <4>3. ms[k].from[2] - 1 <= Len(new[b].items)
        BY <2>5
      <4> DEFINE x == ms[p].from[2]
                 y == ms[k].from[2]
                 l == Len(new[b].items)
      <4>4. x \in Nat /\ y \in Nat /\ l \in Nat /\ x <= y /\ y - 1 <= l
        BY <4>1, <4>2, <4>3
      <4>5. x - 1 <= l
        <5> HIDE DEF x, y, l
        <5> QED BY <4>4
      <4> QED BY <3>4, <4>5
    <3> QED BY <3>3, <3>4
  <2>8. FitsAt(new, n)
    BY <2>2, <2>5, <2>6, <2>7
  <2> HIDE DEF FitsAt
  <2> QED BY <2>1, <2>8
<1>7. \A n \in 0 .. N : n \in S
  <2> HIDE DEF S
  <2> QED BY <1>1, <1>5, <1>6, InductionUpTo
<1> QED BY <1>7 DEF Fits, N

(* What is replaced from the last match on is a document.                    *)
LEMMA ReplaceTyped ==
  ASSUME NEW html \in Seq(Pieces), NEW ms, LegalMatches(html, ms), NEW letters \in Seq(Letter)
  PROVE  /\ searchReplaceAll(html, ms, letters) \in Seq(Pieces)
         /\ \E r : /\ ReplacedSteps(r, Len(ms), Reverse(ms), html, letters)
                  /\ r[Len(ms)] = searchReplaceAll(html, ms, letters)
<1> DEFINE N == Len(ms)
           L == Reverse(ms)
<1>1. N \in Nat /\ DOMAIN L = 1 .. N
  BY DEF LegalMatches, Reverse
<1>2. searchReplaceAll(html, ms, letters) = ReplacedIn(html, letters, L)
  BY DEF searchReplaceAll, ReplacedIn
<1>3. PICK r : ReplacedSteps(r, N, L, html, letters)
  <2> HIDE DEF N, L
  <2> QED BY <1>1, ReplacedRun
<1>4. r[N] = searchReplaceAll(html, ms, letters)
  BY <1>2, <1>3 DEF ReplacedSteps
<1>5. Fits(html, ms, r[N], N)
  <2>1. N \in 0 .. N
    BY <1>1
  <2> QED BY <1>3, <2>1, ReplaceFits
<1> QED BY <1>3, <1>4, <1>5 DEF Fits

(* One match replaced.                                                       *)
LEMMA InsertTyped ==
  ASSUME NEW html \in Seq(Pieces), NEW ms, LegalMatches(html, ms), NEW n \in DOMAIN ms,
         NEW letters \in Seq(Letter)
  PROVE  insertText(html, ms[n], letters) \in Seq(Pieces)
<1>1. Between(html, ms[n].from) /\ ms[n].to[2] \in Nat \ {0}
  BY DEF LegalMatches
<1>2. Len(html[ms[n].from[1]].items) \in Nat /\ html[ms[n].from[1]].kind = "p"
  BY <1>1, PieceFacts DEF Between
<1>3. /\ ms[n].from[1] \in DOMAIN html /\ ms[n].from[2] \in Nat \ {0}
      /\ ms[n].from[2] - 1 <= Len(html[ms[n].from[1]].items)
  BY <1>1, <1>2 DEF Between
<1> QED BY <1>1, <1>2, <1>3, Inserted

-----------------------------------------------------------------------------
(* Empty paragraphs at the end.                                              *)
LEMMA WholeLonger ==
  ASSUME NEW html \in Seq(Pieces)
  PROVE  /\ Append(html, Para(<< >>)) \in Seq(Pieces)
         /\ Whole(Append(html, Para(<< >>))) = Whole(html)
<1> DEFINE e == Para(<< >>)
           t == Append(html, e)
           N == Len(html)
           m == Min(Ends(html))
<1>1. e \in Pieces
  BY DEF Pieces, Para
<1>2. N \in Nat /\ DOMAIN html = 1 .. N
  BY LenProperties
<1>3. t \in Seq(Pieces) /\ Len(t) = N + 1 /\ t[N + 1] = e /\ \A k \in 1 .. N : t[k] = html[k]
  <2> HIDE DEF e
  <2> QED BY <1>1, AppendProperties
<1> HIDE DEF t
<1>4. N \in Ends(html) /\ Ends(html) \in SUBSET Nat
  BY <1>2 DEF Ends
<1>5. m \in Ends(html) /\ \A y \in Ends(html) : m <= y
  <2>1. \E x \in Ends(html) : \A y \in Ends(html) : x <= y
    BY <1>4, LeastNatural
  <2> QED BY <2>1 DEF Min
<1>6. m \in Nat /\ m <= N
  BY <1>4, <1>5
<1>7. Ends(t) = Ends(html) \cup {N + 1}
  <2>1. ASSUME NEW n \in Ends(t) PROVE n \in Ends(html) \cup {N + 1}
    <3>1. n \in 0 .. N + 1 /\ \A k \in n + 1 .. N + 1 : IsEmptyPara(t[k])
      BY <1>3, <2>1 DEF Ends
    <3>2. CASE n = N + 1
      BY <3>2
    <3>3. CASE n # N + 1
      <4>1. n \in 0 .. N /\ \A k \in n + 1 .. N : k \in 1 .. N /\ k \in n + 1 .. N + 1
        BY <1>2, <3>1, <3>3
      <4>2. \A k \in n + 1 .. N : IsEmptyPara(html[k])
        BY <1>3, <3>1, <4>1
      <4> QED BY <4>1, <4>2 DEF Ends
    <3> QED BY <3>2, <3>3
  <2>2. ASSUME NEW n \in Ends(html) PROVE n \in Ends(t)
    <3>1. n \in 0 .. N /\ \A k \in n + 1 .. N : IsEmptyPara(html[k])
      BY <2>2 DEF Ends
    <3>2. ASSUME NEW k \in n + 1 .. N + 1 PROVE IsEmptyPara(t[k])
      <4>1. k = N + 1 \/ (k \in 1 .. N /\ k \in n + 1 .. N)
        BY <1>2, <3>1
      <4> QED BY <1>3, <3>1, <4>1 DEF IsEmptyPara
    <3> QED BY <1>2, <1>3, <3>1, <3>2 DEF Ends
  <2>3. N + 1 \in Ends(t)
    <3>1. N + 1 \in 0 .. Len(t) /\ \A k \in (N + 1) + 1 .. Len(t) : FALSE
      BY <1>2, <1>3
    <3> QED BY <3>1 DEF Ends
  <2> QED BY <2>1, <2>2, <2>3
<1> HIDE DEF m
<1>8. Min(Ends(t)) = m
  <2> DEFINE S == Ends(t)
  <2>1. m \in S /\ \A y \in S : m <= y
    BY <1>2, <1>5, <1>6, <1>7
  <2>2. S \in SUBSET Nat
    BY <1>2, <1>4, <1>7
  <2>3. \A x \in S : (\A y \in S : x <= y) => x = m
    <3> SUFFICES ASSUME NEW x \in S, \A y \in S : x <= y PROVE x = m
      OBVIOUS
    <3>1. x <= m /\ m <= x /\ x \in Nat
      BY <2>1, <2>2
    <3> QED BY <1>6, <3>1
  <2> HIDE DEF S
  <2> QED BY <2>1, <2>3 DEF Min, S
<1>9. SubSeq(t, 1, m) = SubSeq(html, 1, m)
  <2>1. SubSeq(html, 1, m) \in Seq(Pieces) /\ Len(SubSeq(html, 1, m)) = m
        /\ \A i \in 1 .. m : SubSeq(html, 1, m)[i] = html[i]
    BY <1>6, PartUpto
  <2>2. SubSeq(t, 1, m) \in Seq(Pieces) /\ Len(SubSeq(t, 1, m)) = m
        /\ \A i \in 1 .. m : SubSeq(t, 1, m)[i] = t[i]
    <3>1. m <= Len(t)
      BY <1>2, <1>3, <1>6
    <3> QED BY <1>3, <1>6, <3>1, PartUpto
  <2>3. \A i \in 1 .. m : SubSeq(t, 1, m)[i] = SubSeq(html, 1, m)[i]
    <3>1. \A i \in 1 .. m : i \in 1 .. N
      BY <1>2, <1>6
    <3> QED BY <1>3, <2>1, <2>2, <3>1
  <2> QED BY <2>1, <2>2, <2>3, SeqEqual
<1> QED BY <1>3, <1>8, <1>9 DEF Whole, m, t

(* TipTap's document is the pasted one, up to empty paragraphs at the end.   *)
LEMMA DocumentOf ==
  ASSUME NEW html \in Seq(Pieces)
  PROVE  AsDocument(html) \in Seq(Pieces) /\ Whole(AsDocument(html)) = Whole(html)
BY WholeLonger DEF AsDocument

(* So is what a copy makes of it.                                            *)
LEMMA CopyOf ==
  ASSUME NEW html \in Seq(Pieces)
  PROVE  finalizeCopyHtml(html) \in Seq(Pieces) /\ Whole(finalizeCopyHtml(html)) = Whole(html)
<1>1. CASE html # << >> /\ IsEmptyPara(Last(html))
  <2> DEFINE N == Len(html)
             front == Front(html)
             e == Para(<< >>)
             t == Append(front, e)
  <2>1. N \in Nat /\ N # 0
    BY <1>1, EmptySeq
  <2>2. N - 1 \in Nat /\ N - 1 <= Len(html) /\ front = SubSeq(html, 1, N - 1)
    BY <2>1 DEF Front
  <2>3. front \in Seq(Pieces) /\ Len(front) = N - 1 /\ \A i \in 1 .. N - 1 : front[i] = html[i]
    <3> DEFINE a == N - 1
    <3>1. a \in Nat /\ a <= Len(html) /\ front = SubSeq(html, 1, a)
      BY <2>2
    <3> HIDE DEF a, front
    <3>2. front \in Seq(Pieces) /\ Len(front) = a /\ \A i \in 1 .. a : front[i] = html[i]
      BY <3>1, PartUpto
    <3> QED BY <3>2 DEF a
  <2> HIDE DEF front
  <2>4. e \in Pieces /\ html[N] = e
    BY <1>1 DEF Pieces, Para, IsEmptyPara, Last
  <2>5. t \in Seq(Pieces) /\ Len(t) = N /\ t[N] = e /\ \A i \in 1 .. N - 1 : t[i] = front[i]
    <3> HIDE DEF e
    <3>1. t \in Seq(Pieces) /\ Len(t) = Len(front) + 1 /\ t[Len(front) + 1] = e
          /\ \A i \in 1 .. Len(front) : t[i] = front[i]
      BY <2>3, <2>4, AppendProperties
    <3>2. Len(front) + 1 = N
      BY <2>1, <2>3
    <3> QED BY <2>3, <3>1, <3>2
  <2> HIDE DEF e, t
  <2>6. t = html
    <3>1. \A i \in 1 .. N : i = N \/ i \in 1 .. N - 1
      BY <2>1
    <3>2. \A i \in 1 .. N : t[i] = html[i]
      BY <2>3, <2>4, <2>5, <3>1
    <3> QED BY <2>5, <3>2, SeqEqual
  <2>7. Whole(t) = Whole(front)
    BY <2>3, WholeLonger DEF t, e
  <2>8. finalizeCopyHtml(html) = front
    BY <1>1 DEF finalizeCopyHtml, front
  <2> QED BY <2>3, <2>6, <2>7, <2>8
<1>2. CASE ~(html # << >> /\ IsEmptyPara(Last(html)))
  BY <1>2 DEF finalizeCopyHtml
<1> QED BY <1>1, <1>2

-----------------------------------------------------------------------------
(* The invariant: what is shown is the document of the user, up to empty     *)
(* paragraphs at its end, and the search is that of the last query in it.    *)
Fresh(p, html, word) ==
  /\ p = [word |-> word, matches |-> computeMatches(html, word), index |-> p.index]
  /\ p.index \in Nat
  /\ IF p.matches = << >> THEN p.index = 0 ELSE p.index \in DOMAIN p.matches

EditorInv ==
  /\ view \in {"paste", "wysiwyg", "source"}
  /\ wysiwyg \in Seq(Pieces) /\ source \in Seq(Pieces) /\ ours \in Seq(Pieces)
  /\ lastQuery.search \in Word /\ lastQuery.replace \in Replacing
  /\ view = "wysiwyg" => /\ Whole(wysiwyg) = Whole(ours)
                         /\ Fresh(plugin, wysiwyg, lastQuery.search) /\ counter = CountOf(plugin)
  /\ view = "source" => /\ Whole(source) = Whole(ours) /\ sourceWord = lastQuery.search
                        /\ counter.count = Len(SourceMatches(source, sourceWord))

(* What is searched and what replaces it are letters.                        *)
LEMMA QueryLetters ==
  /\ \A word \in Word : word \in Seq(Letter)
  /\ \A letters \in Replacing : letters \in Seq(Letter)
  /\ << >> \in Seq(Pieces) /\ << >> \in Word /\ << >> \in Replacing
BY EditorAssumption

(* Matches are a list, empty for the empty word.                             *)
LEMMA MatchesList ==
  ASSUME NEW html \in Seq(Pieces), NEW word \in Seq(Letter)
  PROVE  LET ms == computeMatches(html, word)
         IN  /\ Len(ms) \in Nat /\ DOMAIN ms = 1 .. Len(ms)
             /\ ms # << >> => Len(ms) > 0
             /\ word = << >> => ms = << >>
<1> DEFINE ms == computeMatches(html, word)
           S == {ms[n] : n \in DOMAIN ms}
<1>1. Len(ms) \in Nat /\ DOMAIN ms = 1 .. Len(ms)
  BY MatchesLegal DEF LegalMatches
<1>2. ms = [n \in 1 .. Len(ms) |-> ms[n]]
  <2>1. ms = [n \in DOMAIN ms |-> ms[n]]
    BY MatchesAre
  <2> HIDE DEF ms
  <2> QED BY <1>1, <2>1
<1>3. DOMAIN ms = DOMAIN FoundAt(html, word)
  BY MatchesAre
<1>4. word = << >> => DOMAIN FoundAt(html, word) = {}
  <2>1. word = << >> => FoundAt(html, word) = << >>
    BY DEF FoundAt, Found
  <2> HIDE DEF ms
  <2> QED BY <2>1
<1> HIDE DEF ms
<1>5. ms \in [1 .. Len(ms) -> S]
  BY <1>1, <1>2
<1>6. ms \in Seq(S)
  BY <1>1, <1>5
<1> HIDE DEF S
<1>7. ms # << >> => Len(ms) \in Nat \ {0}
  BY <1>6, EmptySeq
<1>8. DOMAIN ms = {} => Len(ms) = 0
  BY <1>1
<1> QED BY <1>1, <1>3, <1>4, <1>7, <1>8 DEF ms

(* A search set anew is about the document.                                  *)
LEMMA SetQueryFresh ==
  ASSUME NEW html \in Seq(Pieces), NEW word \in Seq(Letter)
  PROVE  Fresh(SetQuery(html, word), html, word)
<1> DEFINE ms == computeMatches(html, word)
<1>1. Len(ms) \in Nat /\ DOMAIN ms = 1 .. Len(ms) /\ (ms # << >> => Len(ms) > 0)
  BY MatchesList
<1>2. SetQuery(html, word) = [word |-> word, matches |-> ms, index |-> IF ms = << >> THEN 0 ELSE 1]
  BY DEF SetQuery
<1> HIDE DEF ms
<1> QED BY <1>1, <1>2 DEF Fresh, ms

(* So is one that searched again after a change.                             *)
LEMMA RescanFresh ==
  ASSUME NEW old \in Seq(Pieces), NEW html \in Seq(Pieces), NEW word \in Seq(Letter),
         NEW search, Fresh(search, old, word)
  PROVE  Fresh(Rescan(html, search), html, word)
<1> DEFINE ms == computeMatches(html, word)
           a == Max({search.index, 1})
           z == IF ms = << >> THEN 0 ELSE Min({a, Len(ms)})
<1>1. Len(ms) \in Nat /\ DOMAIN ms = 1 .. Len(ms) /\ (ms # << >> => Len(ms) > 0)
      /\ (word = << >> => ms = << >>)
  BY MatchesList
<1>2. search.word = word /\ search.index \in Nat
      /\ search = [word |-> word, matches |-> search.matches, index |-> search.index]
  BY DEF Fresh
<1>3. CASE word = << >>
  <2>1. Rescan(html, search) = search
    BY <1>2, <1>3 DEF Rescan
  <2>2. computeMatches(old, word) = << >>
    BY <1>3, MatchesList
  <2> QED BY <1>1, <1>3, <2>1, <2>2 DEF Fresh
<1>4. CASE word # << >>
  <2>1. Rescan(html, search) = [word |-> word, matches |-> ms, index |-> z]
    BY <1>2, <1>4 DEF Rescan
  <2>2. a \in Nat /\ a >= 1
    <3>1. a \in {search.index, 1} /\ \A y \in {search.index, 1} : a >= y
      <4>1. \E x \in {search.index, 1} : \A y \in {search.index, 1} : x >= y
        BY <1>2
      <4> QED BY <4>1 DEF Max
    <3> HIDE DEF a
    <3> QED BY <1>2, <3>1
  <2>3. ms # << >> => z \in 1 .. Len(ms)
    <3> HIDE DEF a, ms
    <3>1. Min({a, Len(ms)}) = IF a <= Len(ms) THEN a ELSE Len(ms)
      BY <1>1, <2>2, MinOfTwo, SMTT(30)
    <3> QED BY <1>1, <2>2, <3>1
  <2>4. ms = << >> => z = 0
    OBVIOUS
  <2> HIDE DEF ms, z
  <2> QED BY <1>1, <2>1, <2>3, <2>4 DEF Fresh, ms
<1> QED BY <1>3, <1>4

(* What the steps that open a view, or change the document, lead to.         *)
LEMMA WysiwygOpened ==
  ASSUME NEW html \in Seq(Pieces), OpenWysiwyg(html), lastQuery'.search = lastQuery.search,
         lastQuery'.replace = lastQuery.replace, ours' \in Seq(Pieces), Whole(html) = Whole(ours'),
         EditorInv
  PROVE  EditorInv'
<1>1. AsDocument(html) \in Seq(Pieces) /\ Whole(AsDocument(html)) = Whole(ours')
  BY DocumentOf
<1>2. lastQuery.search \in Seq(Letter) /\ lastQuery.search \in Word /\ lastQuery.replace \in Replacing
  BY QueryLetters DEF EditorInv
<1>3. Fresh(plugin', wysiwyg', lastQuery'.search)
  BY <1>1, <1>2, SetQueryFresh DEF OpenWysiwyg
<1>4. view' = "wysiwyg" /\ wysiwyg' = AsDocument(html) /\ source' = << >> /\ counter' = CountOf(plugin')
  BY DEF OpenWysiwyg, NoDoc
<1> QED BY <1>1, <1>2, <1>3, <1>4, QueryLetters DEF EditorInv

(* Pasted HTML is shown as it is.                                            *)
LEMMA LoadHtmlInv == ASSUME EditorInv, NEW html \in Pasted, LoadHtml(html) PROVE EditorInv'
<1>1. html \in Seq(Pieces)
  BY EditorAssumption
<1> QED BY <1>1, WysiwygOpened DEF LoadHtml

(* The source view counts its matches.                                       *)
LEMMA SourceCounted ==
  ASSUME NEW html, NEW word
  PROVE  SourceCount(html, word).count = Len(SourceMatches(html, word))
BY DEF SourceCount

(* The other view shows what a copy would give.                              *)
LEMMA ToggleInv == ASSUME EditorInv, toggleSourceMode PROVE EditorInv'
<1>1. CASE view = "source"
  BY <1>1, WysiwygOpened DEF toggleSourceMode, EditorInv
<1>2. CASE view # "source"
  <2>1. view = "wysiwyg" /\ OpenSource(buildCopyHtml) /\ buildCopyHtml = finalizeCopyHtml(wysiwyg)
    BY <1>2 DEF toggleSourceMode, EditorInv, buildCopyHtml, Live
  <2>2. buildCopyHtml \in Seq(Pieces) /\ Whole(buildCopyHtml) = Whole(ours)
    BY <2>1, CopyOf DEF EditorInv
  <2>3. UNCHANGED <<lastQuery, ours>>
    BY DEF toggleSourceMode
  <2>4. /\ view' = "source" /\ source' = buildCopyHtml /\ sourceWord' = lastQuery.search
        /\ counter' = SourceCount(buildCopyHtml, lastQuery.search) /\ wysiwyg' = << >>
    BY <2>1 DEF OpenSource, NoDoc
  <2> QED BY <2>2, <2>3, <2>4, SourceCounted, QueryLetters DEF EditorInv
<1> QED BY <1>1, <1>2

(* Without a view nothing is shown.                                          *)
LEMMA ResetInv == EditorInv /\ (reset \/ Leave) => EditorInv'
BY QueryLetters DEF EditorInv, reset, Leave, NoDoc, NoQuery

(* A change is seen, counted and kept.                                       *)
LEMMA ChangeInv ==
  ASSUME EditorInv, view # "paste", NEW html \in Seq(Pieces), Change(html)
  PROVE  EditorInv'
<1>1. ours' = html /\ UNCHANGED <<view, sourceWord, lastQuery>>
  BY DEF Change
<1>2. CASE view = "source"
  BY <1>1, <1>2, SourceCounted DEF EditorInv, Change
<1>3. CASE view = "wysiwyg"
  <2>1. wysiwyg' = html /\ source' = source /\ plugin' = Rescan(html, plugin) /\ counter' = CountOf(plugin')
    BY <1>3 DEF Change
  <2>2. Fresh(plugin', wysiwyg', lastQuery'.search)
    BY <1>1, <1>3, <2>1, RescanFresh, QueryLetters DEF EditorInv
  <2> QED BY <1>1, <1>3, <2>1, <2>2 DEF EditorInv
<1> QED BY <1>2, <1>3 DEF EditorInv

(* Typing, deleting and formatting give documents.                           *)
LEMMA EditedTyped ==
  ASSUME NEW html \in Seq(Pieces), html = Live, NEW b \in DOMAIN html, NEW new \in Edited(b)
  PROVE  new \in Seq(Pieces)
<1> DEFINE items == html[b].items
           Put(list) == [html EXCEPT ![b].items = list]
<1>1. /\ b \in 1 .. Len(html) /\ Len(html) \in Nat /\ html[b] \in Pieces
      /\ items \in Seq(Inlines) /\ Len(items) \in Nat
      /\ items # << >> => html[b].kind = "p"
  BY PieceFacts
<1>2. ASSUME NEW list \in Seq(Inlines), html[b] # Photo PROVE Put(list) \in Seq(Pieces)
  <2> DEFINE piece == [html[b] EXCEPT !.items = list]
  <2>1. Put(list) = [html EXCEPT ![b] = piece]
    OBVIOUS
  <2>2. piece \in Pieces
    BY <1>1, <1>2 DEF Pieces
  <2> HIDE DEF piece, Put
  <2> QED BY <1>1, <2>1, <2>2, ExceptSeq
<1>3. ASSUME html[b] # Photo, new = Put(Typed(<<"a">>, FALSE) \o items) PROVE new \in Seq(Pieces)
  <2>1. <<"a">> \in Seq(Letter)
    BY EditorAssumption
  <2>2. Typed(<<"a">>, FALSE) \in Seq(Inlines)
    BY <2>1, TypedLetters
  <2>3. Typed(<<"a">>, FALSE) \o items \in Seq(Inlines)
    <3> HIDE DEF items
    <3> QED BY <1>1, <2>2, ConcatProperties
  <2> HIDE DEF Put, items
  <2> QED BY <1>2, <1>3, <2>3
<1>4. ASSUME html[b] # Photo, new = Put(InsertAt(items, Min({2, Len(items) + 1}), Break))
      PROVE  new \in Seq(Pieces)
  <2> DEFINE k == Min({2, Len(items) + 1})
             front == SubSeq(items, 1, k - 1)
             after == SubSeq(items, k, Len(items))
  <2>1. k \in Nat \ {0} /\ k - 1 \in Nat /\ k - 1 <= Len(items)
    <3> DEFINE n == Len(items) + 1
    <3>1. n \in Int /\ 2 \in Int
      BY <1>1
    <3>2. Min({2, n}) = IF 2 <= n THEN 2 ELSE n
      <4> HIDE DEF n
      <4> QED BY <3>1, MinOfTwo
    <3> QED BY <1>1, <3>2
  <2> HIDE DEF k, items
  <2>2. front \in Seq(Inlines) /\ after \in Seq(Inlines)
    <3>1. front \in Seq(Inlines)
      <4> DEFINE a == k - 1
      <4>1. a \in Nat /\ a <= Len(items)
        BY <2>1
      <4> HIDE DEF a
      <4>2. SubSeq(items, 1, a) \in Seq(Inlines)
        BY <1>1, <4>1, PartUpto
      <4> QED BY <4>2 DEF a
    <3> QED BY <1>1, <2>1, <3>1, PartFrom
  <2>3. <<Break>> \in Seq(Inlines)
    BY DEF Inlines
  <2> HIDE DEF front, after
  <2>4. front \o <<Break>> \in Seq(Inlines)
    BY <2>2, <2>3, ConcatProperties
  <2>5. (front \o <<Break>>) \o after \in Seq(Inlines)
    <3> DEFINE first == front \o <<Break>>
    <3>1. first \in Seq(Inlines)
      BY <2>4
    <3> HIDE DEF first
    <3>2. first \o after \in Seq(Inlines)
      BY <2>2, <3>1, ConcatProperties
    <3> QED BY <3>2 DEF first
  <2>6. InsertAt(items, k, Break) = (front \o <<Break>>) \o after
    BY DEF InsertAt, front, after
  <2>7. new = Put(InsertAt(items, k, Break))
    BY <1>4 DEF k, items
  <2>8. InsertAt(items, k, Break) \in Seq(Inlines)
    BY <2>5, <2>6
  <2> HIDE DEF Put
  <2> QED BY <1>2, <1>4, <2>7, <2>8
<1>5. RemoveAt(html, b) \in Seq(Pieces)
  <2> DEFINE a == b - 1
             z == b + 1
             front == SubSeq(html, 1, a)
             after == SubSeq(html, z, Len(html))
  <2>1. a \in Nat /\ a <= Len(html) /\ z \in Nat \ {0}
    BY <1>1
  <2> HIDE DEF a, z
  <2>2. front \in Seq(Pieces) /\ after \in Seq(Pieces)
    BY <2>1, PartUpto, PartFrom
  <2> HIDE DEF front, after
  <2>3. front \o after \in Seq(Pieces)
    BY <2>2, ConcatProperties
  <2>4. RemoveAt(html, b) = front \o after
    BY DEF RemoveAt, front, after, a, z
  <2> QED BY <2>3, <2>4
<1>6. AsDocument(RemoveAt(html, b)) \in Seq(Pieces)
  BY <1>5, DocumentOf
<1>7. ASSUME items # << >>, items[1] # Break, new = [html EXCEPT ![b].items[1].bold = ~@]
      PROVE  new \in Seq(Pieces)
  <2> DEFINE item == [items[1] EXCEPT !.bold = ~@]
             list == [items EXCEPT ![1] = item]
  <2>1. 1 \in 1 .. Len(items) /\ items[1] \in Inlines
    <3> HIDE DEF items
    <3>1. Len(items) # 0
      BY <1>1, <1>7, EmptySeq
    <3> QED BY <1>1, <3>1, ElementOfSeq
  <2>2. items[1] \in [c : Letter, bold : BOOLEAN]
    BY <1>7, <2>1 DEF Inlines
  <2>3. item \in Inlines
    <3> HIDE DEF items
    <3> QED BY <2>2 DEF Inlines
  <2>4. list \in Seq(Inlines)
    <3> HIDE DEF items, item
    <3> QED BY <1>1, <2>1, <2>3, ExceptSeq
  <2>5. new = Put(list)
    BY <1>7
  <2>6. html[b] # Photo
    BY <1>7 DEF Photo
  <2> HIDE DEF Put, list
  <2> QED BY <1>2, <2>4, <2>5, <2>6
<1>8. \/ html[b] # Photo /\ new = Put(Typed(<<"a">>, FALSE) \o items)
      \/ html[b] # Photo /\ new = Put(InsertAt(items, Min({2, Len(items) + 1}), Break))
      \/ new = RemoveAt(html, b) \/ new = AsDocument(RemoveAt(html, b))
      \/ items # << >> /\ items[1] # Break /\ new = [html EXCEPT ![b].items[1].bold = ~@]
  BY DEF Edited
<1> HIDE DEF items, Put
<1> QED BY <1>3, <1>4, <1>5, <1>6, <1>7, <1>8

(* Typing, deleting and formatting.                                          *)
LEMMA WriteInv == ASSUME EditorInv, Write PROVE EditorInv'
<1>1. view # "paste" /\ Live \in Seq(Pieces)
  BY DEF Write, Live, EditorInv
<1>2. PICK b \in DOMAIN Live : \E html \in Edited(b) : Change(html)
  BY DEF Write
<1>3. PICK html \in Edited(b) : Change(html)
  BY <1>2
<1>4. html \in Seq(Pieces)
  <2> DEFINE live == Live
  <2>1. live \in Seq(Pieces) /\ live = Live /\ b \in DOMAIN live
    BY <1>1
  <2> HIDE DEF live
  <2> QED BY <2>1, EditedTyped
<1> QED BY <1>1, <1>3, <1>4, ChangeInv

(* The form for a picture.                                                   *)
LEMMA PictureInv == ASSUME EditorInv, openImageForm \/ confirmInsertImage PROVE EditorInv'
<1>1. CASE openImageForm
  BY <1>1 DEF openImageForm, EditorInv
<1>2. CASE confirmInsertImage /\ (view = "source" \/ edits = MaxEdits)
  BY <1>2 DEF confirmInsertImage, EditorInv
<1>3. CASE confirmInsertImage /\ ~(view = "source" \/ edits = MaxEdits)
  <2>1. view = "wysiwyg" /\ UNCHANGED <<view, source, sourceWord, lastQuery>>
    BY <1>3 DEF confirmInsertImage, EditorInv
  <2>2. PICK b \in DOMAIN wysiwyg :
          LET html == AsDocument(InsertAt(wysiwyg, b, Photo))
          IN  /\ wysiwyg' = html /\ ours' = html
              /\ plugin' = Rescan(html, plugin) /\ counter' = CountOf(plugin')
    BY <1>3 DEF confirmInsertImage
  <2> DEFINE put == InsertAt(wysiwyg, b, Photo)
             a == b - 1
             front == SubSeq(wysiwyg, 1, a)
             after == SubSeq(wysiwyg, b, Len(wysiwyg))
  <2>3. wysiwyg \in Seq(Pieces) /\ b \in 1 .. Len(wysiwyg) /\ Len(wysiwyg) \in Nat
    BY LenProperties DEF EditorInv
  <2>4. a \in Nat /\ a <= Len(wysiwyg) /\ b \in Nat \ {0}
    BY <2>3
  <2> HIDE DEF a
  <2>5. front \in Seq(Pieces) /\ after \in Seq(Pieces) /\ <<Photo>> \in Seq(Pieces)
    BY <2>3, <2>4, PartUpto, PartFrom DEF Pieces
  <2> HIDE DEF front, after
  <2>6. front \o <<Photo>> \in Seq(Pieces)
    BY <2>5, ConcatProperties
  <2>7. (front \o <<Photo>>) \o after \in Seq(Pieces)
    <3> DEFINE first == front \o <<Photo>>
    <3>1. first \in Seq(Pieces)
      BY <2>6
    <3> HIDE DEF first
    <3>2. first \o after \in Seq(Pieces)
      BY <2>5, <3>1, ConcatProperties
    <3> QED BY <3>2 DEF first
  <2>8. put = (front \o <<Photo>>) \o after
    BY DEF InsertAt, front, after, a
  <2> DEFINE html == AsDocument(put)
  <2>9. html \in Seq(Pieces)
    BY <2>7, <2>8, DocumentOf
  <2>10. /\ wysiwyg' = html /\ ours' = html
         /\ plugin' = Rescan(html, plugin) /\ counter' = CountOf(plugin')
    BY <2>2
  <2> HIDE DEF html
  <2>11. Fresh(plugin', wysiwyg', lastQuery'.search)
    BY <2>1, <2>3, <2>9, <2>10, RescanFresh, QueryLetters DEF EditorInv
  <2> QED BY <2>1, <2>9, <2>10, <2>11 DEF EditorInv
<1> QED BY <1>1, <1>2, <1>3

(* A query that is sent, or kept back.                                       *)
LEMMA QueryInv ==
  ASSUME EditorInv, NEW search \in Word \union {Invalid}, NEW replace \in Replacing,
         onFindReplaceQueryChange(search, replace)
  PROVE  EditorInv'
<1>1. CASE search = Invalid
  BY <1>1 DEF onFindReplaceQueryChange, EditorInv
<1>2. CASE search # Invalid
  <2>1. search \in Word /\ search \in Seq(Letter)
    BY <1>2, QueryLetters
  <2>2. /\ view # "paste" /\ lastQuery'.search = search /\ lastQuery'.replace = replace
        /\ UNCHANGED <<view, wysiwyg, source, ours>>
    BY <1>2 DEF onFindReplaceQueryChange
  <2>3. CASE view = "source"
    <3>1. sourceWord' = search /\ counter' = SourceCount(source, search)
      BY <1>2, <2>3 DEF onFindReplaceQueryChange
    <3> QED BY <2>1, <2>2, <2>3, <3>1, SourceCounted DEF EditorInv
  <2>4. CASE view # "source"
    <3>1. plugin' = SetQuery(wysiwyg, search) /\ counter' = CountOf(plugin')
      BY <1>2, <2>4 DEF onFindReplaceQueryChange
    <3>2. Fresh(plugin', wysiwyg, search)
      BY <2>1, <3>1, SetQueryFresh DEF EditorInv
    <3> QED BY <2>1, <2>2, <2>4, <3>1, <3>2 DEF EditorInv
  <2> QED BY <2>3, <2>4
<1> QED BY <1>1, <1>2

(* The next match and the one before.                                        *)
LEMMA FindInv ==
  ASSUME EditorInv, NEW steps \in {1, Len(plugin.matches) - 1}, onFind(steps)
  PROVE  EditorInv'
<1> DEFINE ms == plugin.matches
           i == ((plugin.index - 1 + steps) % Len(ms)) + 1
<1>1. view = "wysiwyg" /\ ms # << >> /\ Fresh(plugin, wysiwyg, lastQuery.search)
  BY DEF onFind, EditorInv
<1>2. Len(ms) \in Nat /\ Len(ms) > 0 /\ DOMAIN ms = 1 .. Len(ms)
  <2>1. ms = computeMatches(wysiwyg, lastQuery.search)
    BY <1>1 DEF Fresh
  <2> HIDE DEF ms
  <2> QED BY <1>1, <2>1, MatchesList, QueryLetters DEF EditorInv
<1>3. plugin.index \in 1 .. Len(ms)
  BY <1>1, <1>2 DEF Fresh
<1>4. i \in 1 .. Len(ms)
  <2> DEFINE n == Len(ms)
             k == plugin.index - 1 + steps
  <2>1. n \in Nat /\ n > 0 /\ k \in Nat
    BY <1>2, <1>3
  <2> HIDE DEF n, k
  <2>2. k % n \in 0 .. n - 1
    BY <2>1
  <2>3. (k % n) + 1 \in 1 .. n
    BY <2>1, <2>2
  <2> QED BY <2>3 DEF n, k
<1>5. plugin' = [plugin EXCEPT !.index = i] /\ counter' = CountOf(plugin')
      /\ UNCHANGED <<view, wysiwyg, source, lastQuery, ours>>
  BY DEF onFind
<1> HIDE DEF i, ms
<1>6. Fresh(plugin', wysiwyg, lastQuery.search)
  BY <1>1, <1>2, <1>4, <1>5 DEF Fresh, ms
<1> QED BY <1>1, <1>5, <1>6 DEF EditorInv

(* The document as the search plugin rewrote it.                             *)
LEMMA RewriteInv ==
  ASSUME EditorInv, view = "wysiwyg", NEW html \in Seq(Pieces), Rewrite(html)
  PROVE  EditorInv'
<1>1. plugin.word = lastQuery.search /\ lastQuery.search \in Seq(Letter)
  BY QueryLetters DEF EditorInv, Fresh
<1>2. /\ ours' = html /\ wysiwyg' = html /\ plugin' = SetQuery(html, plugin.word)
      /\ counter' = CountOf(plugin') /\ UNCHANGED <<view, source, sourceWord, lastQuery>>
  BY DEF Rewrite
<1>3. Fresh(plugin', html, lastQuery.search)
  BY <1>1, <1>2, SetQueryFresh
<1> QED BY <1>2, <1>3 DEF EditorInv

(* A replacement, of one match or of all.                                    *)
LEMMA ReplaceInv == ASSUME EditorInv, onReplaceOne \/ onReplaceAll PROVE EditorInv'
<1>1. /\ wysiwyg \in Seq(Pieces) /\ source \in Seq(Pieces)
      /\ lastQuery.search \in Seq(Letter) /\ lastQuery.replace \in Seq(Letter)
  BY QueryLetters DEF EditorInv
<1>2. CASE view = "wysiwyg"
  <2> DEFINE ms == plugin.matches
  <2>1. Fresh(plugin, wysiwyg, lastQuery.search)
    BY <1>2 DEF EditorInv
  <2>2. LegalMatches(wysiwyg, ms)
    <3>1. ms = computeMatches(wysiwyg, lastQuery.search)
      BY <2>1 DEF Fresh
    <3> QED BY <1>1, <3>1, MatchesLegal
  <2>3. CASE onReplaceOne
    <3>1. plugin.index # 0 /\ Rewrite(insertText(wysiwyg, ms[plugin.index], lastQuery.replace))
      BY <1>2, <2>3 DEF onReplaceOne
    <3>2. plugin.index \in DOMAIN ms
      BY <2>1, <3>1 DEF Fresh
    <3> HIDE DEF ms
    <3>3. insertText(wysiwyg, ms[plugin.index], lastQuery.replace) \in Seq(Pieces)
      BY <1>1, <2>2, <3>2, InsertTyped
    <3> QED BY <1>2, <3>1, <3>3, RewriteInv
  <2>4. CASE onReplaceAll
    <3>1. Rewrite(searchReplaceAll(wysiwyg, ms, lastQuery.replace))
      BY <1>2, <2>4 DEF onReplaceAll
    <3>2. searchReplaceAll(wysiwyg, ms, lastQuery.replace) \in Seq(Pieces)
      BY <1>1, <2>2, ReplaceTyped
    <3> QED BY <1>2, <3>1, <3>2, RewriteInv
  <2> QED BY <2>3, <2>4
<1>3. CASE view = "source"
  <2> DEFINE ms == SourceMatches(source, sourceWord)
  <2>1. LegalMatches(source, ms)
    BY <1>1, <1>3, SourceMatchesLegal DEF EditorInv
  <2>2. CASE onReplaceOne
    <3>1. PICK match \in Range(ms) : Change(insertText(source, match, lastQuery.replace))
      BY <1>3, <2>2 DEF onReplaceOne
    <3>2. PICK n \in DOMAIN ms : match = ms[n]
      BY <3>1 DEF Range
    <3> HIDE DEF ms
    <3>3. insertText(source, match, lastQuery.replace) \in Seq(Pieces)
      BY <1>1, <2>1, <3>2, InsertTyped
    <3> QED BY <1>3, <3>1, <3>3, ChangeInv
  <2>3. CASE onReplaceAll
    <3>1. Change(searchReplaceAll(source, ms, lastQuery.replace))
      BY <1>3, <2>3 DEF onReplaceAll
    <3> HIDE DEF ms
    <3>2. searchReplaceAll(source, ms, lastQuery.replace) \in Seq(Pieces)
      BY <1>1, <2>1, ReplaceTyped
    <3> QED BY <1>3, <3>1, <3>2, ChangeInv
  <2> QED BY <2>2, <2>3
<1>4. view = "wysiwyg" \/ view = "source"
  BY DEF onReplaceOne, onReplaceAll
<1> QED BY <1>2, <1>3, <1>4

(* At first there is no document.                                            *)
LEMMA EditorInvInitially == EditorInit => EditorInv
BY QueryLetters DEF EditorInit, EditorInv, NoDoc, NoQuery

(* One lemma for every handler of the editor.                                *)
LEMMA EditorStep == EditorInv /\ [EditorNext]_editorVars => EditorInv'
<1> SUFFICES ASSUME EditorInv, [EditorNext]_editorVars PROVE EditorInv'
  OBVIOUS
<1>1. CASE \E html \in Pasted : LoadHtml(html)
  BY <1>1, LoadHtmlInv
<1>2. CASE reset \/ Leave
  BY <1>2, ResetInv
<1>3. CASE toggleSourceMode
  BY <1>3, ToggleInv
<1>4. CASE Write
  BY <1>4, WriteInv
<1>5. CASE openImageForm \/ confirmInsertImage
  BY <1>5, PictureInv
<1>6. CASE \E search \in Word \union {Invalid}, replace \in Replacing :
             onFindReplaceQueryChange(search, replace)
  BY <1>6, QueryInv
<1>7. CASE \E steps \in {1, Len(plugin.matches) - 1} : onFind(steps)
  BY <1>7, FindInv
<1>8. CASE onReplaceOne \/ onReplaceAll
  BY <1>8, ReplaceInv
<1>9. CASE copy \/ copyAnyway
  BY <1>9 DEF copy, copyAnyway, EditorInv
<1>10. CASE UNCHANGED editorVars
  BY <1>10 DEF editorVars, EditorInv
<1> QED BY <1>1, <1>2, <1>3, <1>4, <1>5, <1>6, <1>7, <1>8, <1>9, <1>10 DEF EditorNext

(* The strengthening holds in every state of the editor: the view shown is   *)
(* the document the user last saw, and its search is about it.               *)
THEOREM EditorInvariance == EditorSpec => []EditorInv
<1>1. EditorInit => EditorInv
  BY EditorInvInitially
<1>2. EditorInv /\ [EditorNext]_editorVars => EditorInv'
  BY EditorStep
<1> QED BY <1>1, <1>2, PTL DEF EditorSpec

-----------------------------------------------------------------------------
(* A document without line breaks: in the flat text every paragraph with     *)
(* letters has a row of its own, set off by newlines.                        *)
Plain(html) == \A b \in DOMAIN html : Break \notin Range(html[b].items)
Start(html, b) == Offset(html, <<b, 1>>)
Width(html, b) == Len(html[b].items)
Row(html, b) == LettersOf(html[b].items)

(* The letters of a paragraph stand side by side.                            *)
LEMMA RowOffset ==
  ASSUME NEW html \in Seq(Pieces), Plain(html), NEW b \in DOMAIN html
  PROVE  /\ Width(html, b) \in Nat /\ b \in Nat /\ Start(html, b) \in Nat
         /\ \A k \in 1 .. Width(html, b) : <<b, k>> \in Letters(html) /\ <<b, k>> \in Places(html)
         /\ \A k \in 0 .. Width(html, b) : Offset(html, <<b, k + 1>>) = Start(html, b) + k
<1> DEFINE N == Width(html, b)
           items == html[b].items
           P == Places(html)
           S == {k \in Nat : Offset(html, <<b, k + 1>>) = Start(html, b) + k}
<1>1. b \in Nat /\ N \in Nat /\ items \in Seq(Inlines) /\ DOMAIN items = 1 .. N
  <2>1. b \in 1 .. Len(html) /\ Len(html) \in Nat
    BY PieceFacts
  <2> QED BY <2>1, PieceFacts DEF Width
<1>2. Start(html, b) \in Nat
  BY <1>1, OffsetFacts DEF Start
<1>3. ASSUME NEW k \in 1 .. N PROVE <<b, k>> \in Letters(html) /\ <<b, k>> \in P
  <2>1. items[k] # Break
    BY <1>1 DEF Plain, Range
  <2>2. <<b, k>> \in Letters(html)
    BY <2>1, LetterPlaces DEF Width
  <2> QED BY <2>2 DEF Places
<1>4. 0 \in S
  BY <1>2 DEF Start
<1>5. ASSUME NEW k \in 1 .. N, k - 1 \in S PROVE k \in S
  <2> DEFINE x == <<b, k>>
             y == <<b, k + 1>>
  <2>1. x \in P /\ x \in Nat \X Nat /\ y \in Nat \X Nat /\ P \in SUBSET (Nat \X Nat) /\ IsFiniteSet(P)
    BY <1>1, <1>3, PlacesFinite
  <2>2. Ahead(P, y) = Ahead(P, x) \cup {x}
    <3>1. ASSUME NEW z \in P PROVE Earlier(z, y) <=> Earlier(z, x) \/ z = x
      <4>1. z = <<z[1], z[2]>> /\ z[1] \in Nat /\ z[2] \in Nat
        BY <2>1
      <4>2. z = x <=> z[1] = b /\ z[2] = k
        BY <4>1
      <4>3. z[2] < k + 1 <=> z[2] < k \/ z[2] = k
        BY <4>1
      <4> QED BY <4>2, <4>3 DEF Earlier
    <3> HIDE DEF P, x, y
    <3> QED BY <2>1, <3>1 DEF Ahead
  <2>3. x \notin Ahead(P, x)
    BY <2>1, EarlierOrders DEF Ahead
  <2>4. IsFiniteSet(Ahead(P, x)) /\ Cardinality(Ahead(P, x)) \in Nat
    <3>1. Ahead(P, x) \in SUBSET P
      BY DEF Ahead
    <3> QED BY <2>1, <3>1, FS_Subset, FS_CardinalityType
  <2>5. Cardinality(Ahead(P, y)) = Cardinality(Ahead(P, x)) + 1
    <3> HIDE DEF P, x, y
    <3> QED BY <2>2, <2>3, <2>4, FS_AddElement
  <2>6. Offset(html, x) = Cardinality(Ahead(P, x)) /\ Offset(html, y) = Cardinality(Ahead(P, y))
    BY DEF Offset, Before, Ahead
  <2>7. Offset(html, x) = Start(html, b) + (k - 1)
    <3>1. (k - 1) + 1 = k
      OBVIOUS
    <3> QED BY <1>5, <3>1
  <2>8. Offset(html, y) = Start(html, b) + k
    <3> HIDE DEF x, y
    <3> QED BY <1>2, <2>4, <2>5, <2>6, <2>7
  <2> QED BY <2>8
<1>6. \A k \in 0 .. N : k \in S
  <2> HIDE DEF S
  <2> QED BY <1>1, <1>4, <1>5, InductionUpTo
<1> QED BY <1>1, <1>2, <1>3, <1>6

(* Rows come one after the other, with a newline between.                    *)
LEMMA RowApart ==
  ASSUME NEW html \in Seq(Pieces), Plain(html), NEW b \in DOMAIN html, Width(html, b) > 0,
         NEW x \in Letters(html)
  PROVE  /\ Offset(html, x) \in Nat
         /\ x[1] < b => Offset(html, x) < Start(html, b)
         /\ x[1] = b => /\ x[2] \in 1 .. Width(html, b)
                        /\ Offset(html, x) = Start(html, b) + x[2] - 1
         /\ x[1] > b => Offset(html, x) > Start(html, b) + Width(html, b)
         /\ x[1] < b \/ x[1] = b \/ x[1] > b
<1> DEFINE N == Width(html, b)
<1>1. /\ N \in Nat /\ b \in Nat /\ Start(html, b) \in Nat
      /\ \A k \in 1 .. N : <<b, k>> \in Letters(html) /\ <<b, k>> \in Places(html)
      /\ \A k \in 0 .. N : Offset(html, <<b, k + 1>>) = Start(html, b) + k
  BY RowOffset
<1>2. /\ x = <<x[1], x[2]>> /\ x \in Nat \X Nat /\ x[1] \in Nat /\ x[2] \in Nat /\ x \in Places(html)
      /\ x[2] \in 1 .. Len(html[x[1]].items)
  BY LetterPlaces DEF Places
<1>3. Offset(html, x) \in Nat
  BY <1>2, OffsetFacts
<1>4. ASSUME x[1] < b PROVE Offset(html, x) < Start(html, b)
  <2>1. Earlier(x, <<b, 1>>) /\ <<b, 1>> \in Nat \X Nat
    BY <1>1, <1>4 DEF Earlier
  <2>2. Offset(html, x) + 1 <= Offset(html, <<b, 1>>)
    BY <1>2, <2>1, OffsetFacts
  <2> QED BY <1>1, <1>3, <2>2 DEF Start
<1>5. ASSUME x[1] = b PROVE x[2] \in 1 .. N /\ Offset(html, x) = Start(html, b) + x[2] - 1
  <2>1. x[2] \in 1 .. N /\ x = <<b, x[2]>>
    BY <1>2, <1>5 DEF Width
  <2> DEFINE k == x[2] - 1
  <2>2. k \in 0 .. N /\ x = <<b, k + 1>>
    <3>1. x[2] = k + 1
      BY <1>2
    <3>2. k \in 0 .. N
      BY <1>1, <2>1
    <3> QED BY <2>1, <3>1, <3>2
  <2>3. Offset(html, x) = Start(html, b) + k
    <3> HIDE DEF k
    <3> QED BY <1>1, <2>2
  <2> QED BY <1>1, <1>2, <2>1, <2>3
<1>6. ASSUME x[1] > b PROVE Offset(html, x) > Start(html, b) + N
  <2> DEFINE y == <<x[1], 0>>
             z == <<b, N + 1>>
  <2>1. <<b, 1>> \in Letters(html)
    BY <1>1
  <2>2. y \in Newlines(html)
    <3>1. \E u, v \in Letters(html) : u[1] = x[1] /\ v[1] < x[1]
      <4>1. <<b, 1>>[1] < x[1]
        BY <1>1, <1>2, <1>6
      <4> QED BY <2>1, <4>1
    <3> QED BY <3>1, NewlinePlaces
  <2>3. y \in Places(html) /\ y \in Nat \X Nat /\ z \in Nat \X Nat
    BY <1>1, <1>2, <2>2 DEF Places
  <2>4. Earlier(y, x)
    <3>1. 0 < x[2]
      BY <1>2
    <3> QED BY <3>1 DEF Earlier
  <2>5. Earlier(z, y)
    BY <1>1, <1>2, <1>6 DEF Earlier
  <2>6. Offset(html, y) + 1 <= Offset(html, x)
    BY <1>2, <2>3, <2>4, OffsetFacts
  <2>7. Offset(html, z) <= Offset(html, y) /\ Offset(html, y) \in Nat
    BY <2>3, <2>5, OffsetFacts
  <2>8. Offset(html, z) = Start(html, b) + N
    <3>1. N \in 0 .. N
      BY <1>1
    <3> QED BY <1>1, <3>1
  <2> QED BY <1>1, <1>3, <2>6, <2>7, <2>8
<1>7. x[1] < b \/ x[1] = b \/ x[1] > b
  BY <1>1, <1>2
<1> QED BY <1>3, <1>4, <1>5, <1>6, <1>7

(* The letters of a row are the paragraph's.                                 *)
LEMMA RowRead ==
  ASSUME NEW html \in Seq(Pieces), Plain(html), NEW b \in DOMAIN html
  PROVE  /\ Row(html, b) \in Seq(Letter) /\ Len(Row(html, b)) = Width(html, b)
         /\ \A k \in 1 .. Width(html, b) :
              /\ Start(html, b) + k \in 1 .. Len(FlatOf(html))
              /\ FlatOf(html)[Start(html, b) + k] = Row(html, b)[k]
<1> DEFINE N == Width(html, b)
           items == html[b].items
<1>1. /\ N \in Nat /\ b \in Nat /\ Start(html, b) \in Nat
      /\ \A k \in 1 .. N : <<b, k>> \in Letters(html) /\ <<b, k>> \in Places(html)
      /\ \A k \in 0 .. N : Offset(html, <<b, k + 1>>) = Start(html, b) + k
  BY RowOffset
<1>2. items \in Seq(Inlines) /\ DOMAIN items = 1 .. N
  BY PieceFacts DEF Width
<1>3. Row(html, b) = [k \in 1 .. N |-> items[k].c]
  BY <1>2 DEF Row, LettersOf
<1>4. ASSUME NEW k \in 1 .. N
      PROVE  /\ items[k].c \in Letter
             /\ Start(html, b) + k \in 1 .. Len(FlatOf(html))
             /\ FlatOf(html)[Start(html, b) + k] = items[k].c
  <2> DEFINE x == <<b, k>>
  <2>1. x \in Letters(html) /\ x \in Places(html)
    BY <1>1
  <2>2. ReadAt(html, x) = items[k].c /\ ReadAt(html, x) \in Letter
    BY <2>1, LetterRead
  <2>3. Offset(html, x) + 1 \in 1 .. Len(FlatOf(html)) /\ FlatOf(html)[Offset(html, x) + 1] = ReadAt(html, x)
    BY <2>1, FlatFacts
  <2> DEFINE i == k - 1
  <2>4. i \in 0 .. N /\ i + 1 = k
    BY <1>1
  <2>5. Offset(html, x) = Start(html, b) + i
    <3> HIDE DEF i
    <3> QED BY <1>1, <2>4
  <2>6. Offset(html, x) + 1 = Start(html, b) + k
    BY <1>1, <2>5
  <2> QED BY <2>2, <2>3, <2>6
<1>5. Row(html, b) \in [1 .. N -> Letter]
  BY <1>3, <1>4
<1>6. Row(html, b) \in Seq(Letter) /\ Len(Row(html, b)) = N
  <2> DEFINE s == Row(html, b)
  <2>1. s \in [1 .. N -> Letter] /\ N \in Nat
    BY <1>1, <1>5
  <2> HIDE DEF s, N
  <2>2. s \in Seq(Letter) /\ Len(s) = N
    BY <2>1
  <2> QED BY <2>2 DEF s
<1> QED BY <1>3, <1>4, <1>6

(* Two places of letters are not the same.                                   *)
LEMMA RowUnique ==
  ASSUME NEW html \in Seq(Pieces), Plain(html), NEW b \in DOMAIN html, NEW c \in DOMAIN html,
         NEW o \in Nat, NEW q \in Nat, o < Width(html, b), q < Width(html, c)
  PROVE  /\ Start(html, b) + o = Start(html, c) + q => b = c /\ o = q
         /\ Start(html, b) + o < Start(html, c) + q /\ b # c =>
              /\ b < c /\ Start(html, b) + Width(html, b) <= Start(html, c)
<1> DEFINE x == <<b, o + 1>>
           y == <<c, q + 1>>
<1>1. /\ Width(html, b) \in Nat /\ b \in Nat /\ Start(html, b) \in Nat
      /\ \A k \in 1 .. Width(html, b) : <<b, k>> \in Places(html)
      /\ \A k \in 0 .. Width(html, b) : Offset(html, <<b, k + 1>>) = Start(html, b) + k
  BY RowOffset
<1>2. /\ Width(html, c) \in Nat /\ c \in Nat /\ Start(html, c) \in Nat
      /\ \A k \in 1 .. Width(html, c) : <<c, k>> \in Places(html)
      /\ \A k \in 0 .. Width(html, c) : Offset(html, <<c, k + 1>>) = Start(html, c) + k
  BY RowOffset
<1>3. /\ o \in 0 .. Width(html, b) /\ o + 1 \in 1 .. Width(html, b)
      /\ q \in 0 .. Width(html, c) /\ q + 1 \in 1 .. Width(html, c)
  BY <1>1, <1>2
<1>4. x \in Places(html) /\ Offset(html, x) = Start(html, b) + o
  BY <1>1, <1>3
<1>5. y \in Places(html) /\ Offset(html, y) = Start(html, c) + q
  BY <1>2, <1>3
<1>6. ASSUME Start(html, b) + o = Start(html, c) + q PROVE b = c /\ o = q
  <2>1. x = y
    BY <1>4, <1>5, <1>6, OffsetFacts
  <2> QED BY <2>1
<1>7. ASSUME Start(html, b) + o < Start(html, c) + q, b # c
      PROVE  b < c /\ Start(html, b) + Width(html, b) <= Start(html, c)
  <2>1. Earlier(x, y)
    BY <1>4, <1>5, <1>7, OffsetFacts
  <2>2. b < c
    BY <1>7, <2>1 DEF Earlier
  <2> DEFINE z == <<b, Width(html, b) + 1>>
             s == <<c, 1>>
  <2>3. Offset(html, z) = Start(html, b) + Width(html, b)
    <3>1. Width(html, b) \in 0 .. Width(html, b)
      BY <1>1
    <3> QED BY <1>1, <3>1
  <2>4. Earlier(z, s) /\ z \in Nat \X Nat /\ s \in Nat \X Nat
    BY <1>1, <1>2, <2>2 DEF Earlier
  <2>5. Offset(html, z) <= Offset(html, s)
    BY <2>4, OffsetFacts
  <2> QED BY <2>2, <2>3, <2>5 DEF Start
<1> QED BY <1>6, <1>7

(* A word is found within one row: no letter of it is a newline.             *)
LEMMA OccursInRow ==
  ASSUME NEW html \in Seq(Pieces), Plain(html), NEW word \in Seq(Letter), word # << >>,
         NEW i \in Nat, Occurs(FlatOf(html), word, i)
  PROVE  \E b \in DOMAIN html, o \in Nat :
           i = Start(html, b) + o /\ o + Len(word) <= Width(html, b) /\ o < Width(html, b)
<1> DEFINE flat == FlatOf(html)
           m == Len(word)
<1>1. m \in Nat /\ m > 0 /\ flat \in Seq(Letter \cup {"\n"}) /\ Len(flat) \in Nat
  BY EmptySeq, FlatFacts
<1>2. \A j \in 1 .. m : i + j \in 1 .. Len(flat) /\ flat[i + j] \in Letter
  <2>1. \A j \in 1 .. m : i + j \in 1 .. Len(flat) /\ flat[i + j] = word[j]
    <3> HIDE DEF flat
    <3> QED BY <1>1, OccursRead DEF flat
  <2> QED BY <2>1, ElementOfSeq
<1>3. \A j \in 1 .. m : \E x \in Letters(html) : Offset(html, x) = i + j - 1
  <2> SUFFICES ASSUME NEW j \in 1 .. m PROVE \E x \in Letters(html) : Offset(html, x) = i + j - 1
    OBVIOUS
  <2> DEFINE n == i + j
  <2>1. n \in 1 .. Len(flat) /\ flat[n] \in Letter
    BY <1>2
  <2> HIDE DEF n
  <2>2. \E x \in Letters(html) : Offset(html, x) = n - 1
    BY <2>1, LetterAt
  <2> QED BY <2>2 DEF n
<1>4. PICK x \in Letters(html) : Offset(html, x) = i
  <2>1. 1 \in 1 .. m /\ i + 1 - 1 = i
    BY <1>1
  <2> QED BY <1>3, <2>1
<1> DEFINE b == x[1]
           o == x[2] - 1
           N == Width(html, b)
<1>5. b \in DOMAIN html /\ x[2] \in 1 .. N
  BY LetterPlaces DEF Width
<1>6. N \in Nat /\ N > 0 /\ Start(html, b) \in Nat
  BY <1>5, RowOffset
<1>7. i = Start(html, b) + o /\ o \in Nat /\ o < N
  BY <1>4, <1>5, <1>6, RowApart
<1>8. o + m <= N
  <2> SUFFICES ASSUME o + m > N PROVE FALSE
    BY <1>1, <1>6, <1>7
  <2> DEFINE j == N - o + 1
  <2>1. j \in 1 .. m /\ i + j - 1 = Start(html, b) + N
    BY <1>1, <1>6, <1>7, SMTT(30)
  <2>2. PICK y \in Letters(html) : Offset(html, y) = Start(html, b) + N
    BY <1>3, <2>1
  <2>3. /\ y[1] < b => Offset(html, y) < Start(html, b)
        /\ y[1] = b => y[2] \in 1 .. N /\ Offset(html, y) = Start(html, b) + y[2] - 1
        /\ y[1] > b => Offset(html, y) > Start(html, b) + N
        /\ y[1] < b \/ y[1] = b \/ y[1] > b
    <3> HIDE DEF b, N
    <3> QED BY <1>5, <1>6, RowApart DEF N
  <2> HIDE DEF b, N
  <2> QED BY <1>6, <2>2, <2>3
<1> QED BY <1>5, <1>7, <1>8

(* What a row holds, the flat text holds there, and the other way round.     *)
LEMMA RowOccurs ==
  ASSUME NEW html \in Seq(Pieces), Plain(html), NEW word \in Seq(Letter), word # << >>,
         NEW b \in DOMAIN html, NEW o \in Nat, o < Width(html, b)
  PROVE  Occurs(FlatOf(html), word, Start(html, b) + o) <=> Occurs(Row(html, b), word, o)
<1> DEFINE flat == FlatOf(html)
           row == Row(html, b)
           m == Len(word)
           N == Width(html, b)
           s == Start(html, b)
<1>1. m \in Nat /\ m > 0 /\ flat \in Seq(Letter \cup {"\n"}) /\ Len(flat) \in Nat
  BY EmptySeq, FlatFacts
<1>2. row \in Seq(Letter) /\ Len(row) = N /\ N \in Nat /\ s \in Nat
      /\ \A k \in 1 .. N : s + k \in 1 .. Len(flat) /\ flat[s + k] = row[k]
  BY RowRead, RowOffset
<1>3. Occurs(row, word, o) <=> \A j \in 1 .. m : o + j \in 1 .. N /\ row[o + j] = word[j]
  <2> HIDE DEF row
  <2> QED BY <1>2, OccursRead
<1>4. Occurs(flat, word, s + o) <=>
        \A j \in 1 .. m : (s + o) + j \in 1 .. Len(flat) /\ flat[(s + o) + j] = word[j]
  <2> DEFINE i == s + o
  <2>1. i \in Nat
    BY <1>2
  <2> HIDE DEF flat, i
  <2>2. Occurs(flat, word, i) <=> \A j \in 1 .. m : i + j \in 1 .. Len(flat) /\ flat[i + j] = word[j]
    BY <1>1, <2>1, OccursRead
  <2> QED BY <2>2 DEF i
<1>5. ASSUME NEW j \in 1 .. m, o + j \in 1 .. N
      PROVE  (s + o) + j \in 1 .. Len(flat) /\ flat[(s + o) + j] = row[o + j]
  <2>1. (s + o) + j = s + (o + j)
    BY <1>2
  <2> HIDE DEF flat, row, s, N
  <2> QED BY <1>2, <1>5, <2>1
<1>6. ASSUME Occurs(flat, word, s + o) PROVE \A j \in 1 .. m : o + j \in 1 .. N
  <2>1. s + o \in Nat
    BY <1>2
  <2>2. PICK c \in DOMAIN html, q \in Nat :
          s + o = Start(html, c) + q /\ q + m <= Width(html, c) /\ q < Width(html, c)
    <3> DEFINE i == s + o
    <3>1. i \in Nat /\ Occurs(FlatOf(html), word, i)
      BY <1>6, <2>1
    <3> HIDE DEF i
    <3> QED BY <3>1, OccursInRow DEF i
  <2>3. c = b /\ q = o
    BY <2>2, RowUnique
  <2>4. o + m <= N
    BY <2>2, <2>3
  <2> HIDE DEF N
  <2> QED BY <1>1, <1>2, <2>4
<1> QED BY <1>3, <1>4, <1>5, <1>6

(* A place is found when the word occurs there and no find reaches into it.  *)
LEMMA FoundIff ==
  ASSUME NEW T, NEW flat \in Seq(T), NEW word \in Seq(Letter), word # << >>, NEW i \in Nat
  PROVE  LET s == Found(flat, word)
         IN  (\E p \in DOMAIN s : s[p] = i) <=>
               /\ Occurs(flat, word, i)
               /\ \A p \in DOMAIN s : s[p] < i => s[p] + Len(word) <= i
<1> DEFINE s == Found(flat, word)
           m == Len(word)
<1>1. /\ s \in Seq(Nat) /\ DOMAIN s = 1 .. Len(s) /\ Len(s) \in Nat /\ m \in Nat
      /\ \A p \in DOMAIN s : s[p] \in Nat /\ Occurs(flat, word, s[p])
      /\ \A p, q \in DOMAIN s : p < q => s[p] + m <= s[q] /\ s[p] < s[q]
      /\ \A j : Occurs(flat, word, j) => \E p \in DOMAIN s : s[p] <= j /\ j < s[p] + m
  <2>1. m \in Nat
    BY LenProperties
  <2> QED BY <2>1, FoundFacts
<1> HIDE DEF s
<1>2. ASSUME NEW p \in DOMAIN s, s[p] = i
      PROVE  Occurs(flat, word, i) /\ \A q \in DOMAIN s : s[q] < i => s[q] + m <= i
  <2>1. Occurs(flat, word, i)
    BY <1>1, <1>2
  <2>2. ASSUME NEW q \in DOMAIN s, s[q] < i PROVE s[q] + m <= i
    <3>1. q < p
      <4>1. q < p \/ q = p \/ p < q
        BY <1>1
      <4>2. s[q] \in Nat /\ s[p] \in Nat /\ s[q] < s[p]
        BY <1>1, <1>2, <2>2
      <4>3. p < q => s[p] < s[q]
        BY <1>1
      <4> QED BY <4>1, <4>2, <4>3
    <3> QED BY <1>1, <1>2, <3>1
  <2> QED BY <2>1, <2>2
<1>3. ASSUME Occurs(flat, word, i), \A q \in DOMAIN s : s[q] < i => s[q] + m <= i
      PROVE  \E p \in DOMAIN s : s[p] = i
  <2>1. PICK p \in DOMAIN s : s[p] <= i /\ i < s[p] + m
    BY <1>1, <1>3
  <2>2. s[p] = i
    <3> DEFINE a == s[p]
    <3>1. a \in Nat /\ (a < i => a + m <= i) /\ a <= i /\ i < a + m /\ m \in Nat
      BY <1>1, <1>3, <2>1
    <3> HIDE DEF a
    <3>2. a = i
      BY <3>1
    <3> QED BY <3>2 DEF a
  <2> QED BY <2>2
<1> QED BY <1>2, <1>3 DEF s

(* The search of the flat text finds in a row what a search of the row finds. *)
LEMMA FoundLocal ==
  ASSUME NEW html \in Seq(Pieces), Plain(html), NEW word \in Seq(Letter), word # << >>,
         NEW b \in DOMAIN html, NEW o \in Nat, o < Width(html, b)
  PROVE  (\E p \in DOMAIN FoundAt(html, word) : FoundAt(html, word)[p] = Start(html, b) + o)
           <=> \E q \in DOMAIN Found(Row(html, b), word) : Found(Row(html, b), word)[q] = o
<1> DEFINE flat == FlatOf(html)
           row == Row(html, b)
           F == FoundAt(html, word)
           f == Found(row, word)
           m == Len(word)
           N == Width(html, b)
           s == Start(html, b)
           There(k) == \E p \in DOMAIN F : F[p] = s + k
           Here(k) == \E q \in DOMAIN f : f[q] = k
           S == {n \in Nat : \A k \in Nat : k < n /\ k < N => (There(k) <=> Here(k))}
<1>1. m \in Nat /\ m > 0 /\ flat \in Seq(Letter \cup {"\n"})
  BY EmptySeq, FlatFacts
<1>2. row \in Seq(Letter) /\ N \in Nat /\ s \in Nat
  BY RowRead, RowOffset
<1>3. \A p \in DOMAIN F : F[p] \in Nat /\ Occurs(flat, word, F[p])
  BY <1>1, FoundFacts DEF FoundAt
<1>4. \A q \in DOMAIN f : f[q] \in Nat
  <2> HIDE DEF row
  <2> QED BY <1>2, FoundFacts
<1>5. ASSUME NEW k \in Nat
      PROVE  /\ There(k) <=> /\ Occurs(flat, word, s + k)
                             /\ \A p \in DOMAIN F : F[p] < s + k => F[p] + m <= s + k
             /\ Here(k) <=> /\ Occurs(row, word, k)
                            /\ \A q \in DOMAIN f : f[q] < k => f[q] + m <= k
  <2>1. Here(k) <=> Occurs(row, word, k) /\ \A q \in DOMAIN f : f[q] < k => f[q] + m <= k
    <3> HIDE DEF row
    <3> QED BY <1>2, FoundIff
  <2> DEFINE i == s + k
  <2>2. i \in Nat
    BY <1>2
  <2> HIDE DEF i
  <2>3. (\E p \in DOMAIN F : F[p] = i) <=>
          Occurs(flat, word, i) /\ \A p \in DOMAIN F : F[p] < i => F[p] + m <= i
    <3> DEFINE z == FlatOf(html)
    <3>1. z \in Seq(Letter \cup {"\n"}) /\ F = Found(z, word)
      BY <1>1 DEF FoundAt
    <3> HIDE DEF z, F
    <3>2. (\E p \in DOMAIN F : F[p] = i) <=>
            Occurs(z, word, i) /\ \A p \in DOMAIN F : F[p] < i => F[p] + m <= i
      BY <2>2, <3>1, FoundIff
    <3> QED BY <3>2 DEF z
  <2> QED BY <2>1, <2>3 DEF i
<1> HIDE DEF F, f, row, flat, s, N
<1>6. ASSUME NEW k \in Nat, k \in S, k < N PROVE There(k) <=> Here(k)
  <2>1. Occurs(flat, word, s + k) <=> Occurs(row, word, k)
    BY <1>6, RowOccurs DEF N, row, s, flat
  <2>2. (\A p \in DOMAIN F : F[p] < s + k => F[p] + m <= s + k)
          <=> \A q \in DOMAIN f : f[q] < k => f[q] + m <= k
    <3>1. ASSUME \A p \in DOMAIN F : F[p] < s + k => F[p] + m <= s + k,
                 NEW q \in DOMAIN f, f[q] < k
          PROVE  f[q] + m <= k
      <4>1. f[q] \in Nat /\ Here(f[q])
        BY <1>4
      <4>2. PICK p \in DOMAIN F : F[p] = s + f[q]
        <5>1. There(f[q])
          BY <1>2, <1>6, <3>1, <4>1
        <5> QED BY <5>1
      <4> QED BY <1>1, <1>2, <3>1, <4>1, <4>2, SMTT(30)
    <3>2. ASSUME \A q \in DOMAIN f : f[q] < k => f[q] + m <= k,
                 NEW p \in DOMAIN F, F[p] < s + k
          PROVE  F[p] + m <= s + k
      <4>1. PICK c \in DOMAIN html, j \in Nat :
              F[p] = Start(html, c) + j /\ j + m <= Width(html, c) /\ j < Width(html, c)
        <5> DEFINE i == F[p]
        <5>1. i \in Nat /\ Occurs(FlatOf(html), word, i)
          BY <1>3 DEF flat
        <5> HIDE DEF i
        <5> QED BY <5>1, OccursInRow DEF i
      <4>2. CASE c = b
        <5>1. j < k /\ j < N
          BY <1>2, <3>2, <4>1, <4>2 DEF s, N
        <5>2. There(j)
          BY <4>1, <4>2 DEF s
        <5>3. PICK q \in DOMAIN f : f[q] = j
          BY <1>6, <5>1, <5>2
        <5>4. j + m <= k
          BY <1>6, <3>2, <5>1, <5>3
        <5>5. F[p] = s + j
          BY <4>1, <4>2 DEF s
        <5> QED BY <1>1, <1>2, <5>4, <5>5
      <4>3. CASE c # b
        <5>1. Start(html, c) + Width(html, c) <= Start(html, b)
          <6>1. Start(html, c) + j < Start(html, b) + k /\ k < Width(html, b)
            BY <1>6, <3>2, <4>1 DEF s, N
          <6> QED BY <4>1, <4>3, <6>1, RowUnique
        <5>2. Start(html, c) \in Nat /\ Width(html, c) \in Nat
          BY RowOffset
        <5> QED BY <1>1, <1>2, <4>1, <5>1, <5>2, SMTT(30) DEF s
      <4> QED BY <4>2, <4>3
    <3> QED BY <3>1, <3>2
  <2> QED BY <1>5, <2>1, <2>2
<1>7. 0 \in S
  OBVIOUS
<1>8. ASSUME NEW n \in 1 .. N, n - 1 \in S PROVE n \in S
  <2> SUFFICES ASSUME NEW k \in Nat, k < n, k < N PROVE There(k) <=> Here(k)
    BY <1>8
  <2>1. CASE k < n - 1
    BY <1>8, <2>1
  <2>2. CASE k = n - 1
    BY <1>6, <1>8, <2>2
  <2> QED BY <1>2, <2>1, <2>2
<1>9. N \in S
  <2> HIDE DEF S
  <2>1. \A n \in 0 .. N : n \in S
    BY <1>2, <1>7, <1>8, InductionUpTo
  <2> QED BY <1>2, <2>1
<1>10. There(o) <=> Here(o)
  <2>1. o < N
    BY DEF N
  <2> QED BY <1>9, <2>1
<1> QED BY <1>10 DEF F, f, row, s

(* An offset in a row leads back to the place it stands for.                 *)
LEMMA RowMapped ==
  ASSUME NEW html \in Seq(Pieces), Plain(html), NEW b \in DOMAIN html, Width(html, b) > 0,
         NEW j \in 0 .. Width(html, b)
  PROVE  mapOffsetToDocPos(RunsOf(html), Start(html, b) + j) = <<b, j + 1>>
<1> DEFINE N == Width(html, b)
           items == html[b].items
           s == Start(html, b)
           o == s + j
           k == IF j + 1 <= N THEN j + 1 ELSE N
<1>1. /\ N \in Nat /\ b \in Nat /\ s \in Nat /\ items \in Seq(Inlines) /\ Len(items) = N
      /\ \A n \in 0 .. N : Offset(html, <<b, n + 1>>) = s + n
      /\ \A n \in 1 .. N : <<b, n>> \in Letters(html)
  BY RowOffset, PieceFacts DEF Width
<1>2. k \in 1 .. N /\ o \in Nat /\ j \in Nat
  BY <1>1
<1>3. \A n \in 1 .. N : items[n] # Break
  BY <1>1, LetterPlaces
<1>4. PICK i \in 1 .. k : StartsNode(items, i) /\ \A n \in 1 .. k : StartsNode(items, n) => n <= i
  <2>1. items[k] # Break /\ k \in 1 .. Len(items)
    BY <1>1, <1>2, <1>3
  <2> HIDE DEF k, items
  <2> QED BY <1>1, <2>1, NodeBefore
<1> DEFINE x == <<b, i>>
           e == NodeEnd(items, i)
<1>5. x \in TextNodes(html) /\ i \in 1 .. N
  <2>1. i \in 1 .. N
    BY <1>1, <1>2
  <2> QED BY <1>1, <1>4, <2>1, NodePlaces
<1>6. Offset(html, x) = s + (i - 1)
  <2> DEFINE n == i - 1
  <2>1. n \in 0 .. N /\ i = n + 1
    BY <1>1, <1>5
  <2> HIDE DEF n
  <2>2. Offset(html, <<b, n + 1>>) = s + n
    BY <1>1, <2>1
  <2> QED BY <2>1, <2>2 DEF n
<1>7. ASSUME NEW y \in TextNodes(html), Offset(html, y) <= o PROVE Offset(html, y) <= Offset(html, x)
  <2>1. y \in Letters(html) /\ y = <<y[1], y[2]>> /\ y[1] \in Nat /\ y[2] \in Nat
    BY NodePlaces
  <2>2. /\ Offset(html, y) \in Nat
        /\ y[1] < b => Offset(html, y) < s
        /\ y[1] = b => y[2] \in 1 .. N /\ Offset(html, y) = s + y[2] - 1
        /\ y[1] > b => Offset(html, y) > s + N
        /\ y[1] < b \/ y[1] = b \/ y[1] > b
    BY <2>1, RowApart
  <2>3. CASE y[1] < b
    BY <1>1, <1>5, <1>6, <2>2, <2>3
  <2>4. CASE y[1] > b
    BY <1>1, <1>7, <2>2, <2>4
  <2>5. CASE y[1] = b
    <3>1. StartsNode(items, y[2])
      BY <2>1, <2>5, NodePlaces
    <3>2. y[2] \in 1 .. k
      <4> HIDE DEF N, s
      <4> QED BY <1>1, <1>2, <1>7, <2>1, <2>2, <2>5, SMTT(30)
    <3>3. y[2] <= i
      BY <1>4, <3>1, <3>2
    <3> HIDE DEF N, s
    <3> QED BY <1>1, <1>5, <1>6, <2>1, <2>2, <2>5, <3>3
  <2> QED BY <2>2, <2>3, <2>4, <2>5
<1>8. Holds(html, x, o)
  <2>1. Offset(html, x) <= o
    BY <1>1, <1>2, <1>4, <1>6
  <2> QED BY <1>5, <1>7, <2>1 DEF Holds
<1>9. mapOffsetToDocPos(RunsOf(html), o) = MappedAt(html, x, o)
  <2> HIDE DEF o, x
  <2> QED BY <1>2, <1>8, OffsetMapped
<1>10. e \in i .. N /\ e \in Nat /\ (e = N \/ items[e + 1] = Break \/ StartsNode(items, e + 1))
  <2>1. i \in 1 .. Len(items)
    BY <1>1, <1>5
  <2> HIDE DEF items
  <2> QED BY <1>1, <2>1, NodeEnds
<1>11. j <= e
  <2>1. CASE e = N
    BY <1>1, <2>1
  <2>2. CASE e # N
    <3>1. e + 1 \in 1 .. N /\ items[e + 1] # Break
      <4>1. e + 1 \in 1 .. N
        BY <1>1, <1>5, <1>10, <2>2
      <4> QED BY <1>3, <4>1
    <3>2. StartsNode(items, e + 1)
      BY <1>10, <2>2, <3>1
    <3>3. ~(e + 1 \in 1 .. k)
      BY <1>4, <1>5, <1>10, <3>2
    <3> HIDE DEF e
    <3> QED BY <1>1, <1>2, <1>10, <3>1, <3>3
  <2> QED BY <2>1, <2>2
<1>12. MappedAt(html, x, o) = <<b, j + 1>>
  <2> DEFINE p == MappedAt(html, x, o)
  <2>1. /\ Between(html, p) /\ p[1] = x[1]
        /\ p[2] = IF o - Offset(html, x) <= NodeEnd(html[x[1]].items, x[2]) - x[2] + 1
                  THEN x[2] + (o - Offset(html, x)) ELSE NodeEnd(html[x[1]].items, x[2]) + 1
    <3> HIDE DEF x, o
    <3> QED BY <1>2, <1>8, MappedBetween
  <2>2. NodeEnd(html[x[1]].items, x[2]) = e /\ x[1] = b /\ x[2] = i
    OBVIOUS
  <2>3. o - Offset(html, x) = j + 1 - i
    BY <1>1, <1>2, <1>5, <1>6
  <2>4. p[2] = IF j + 1 - i <= e - i + 1 THEN i + (j + 1 - i) ELSE e + 1
    <3> HIDE DEF p, e, x, o
    <3> QED BY <2>1, <2>2, <2>3
  <2>5. p[2] = j + 1
    <3> HIDE DEF p, e
    <3> QED BY <1>2, <1>5, <1>10, <1>11, <2>4
  <2>6. p = <<p[1], p[2]>>
    BY <2>1 DEF Between
  <2> HIDE DEF p
  <2> QED BY <2>1, <2>2, <2>5, <2>6 DEF p
<1> QED BY <1>9, <1>12

(* So a match is where its letters are.                                      *)
LEMMA MatchInRow ==
  ASSUME NEW html \in Seq(Pieces), Plain(html), NEW word \in Seq(Letter),
         NEW p \in DOMAIN computeMatches(html, word)
  PROVE  /\ p \in DOMAIN FoundAt(html, word) /\ word # << >>
         /\ \E b \in DOMAIN html, o \in Nat :
              /\ FoundAt(html, word)[p] = Start(html, b) + o
              /\ o + Len(word) <= Width(html, b) /\ o < Width(html, b)
              /\ computeMatches(html, word)[p] = [from |-> <<b, o + 1>>, to |-> <<b, o + Len(word) + 1>>]
<1> DEFINE F == FoundAt(html, word)
           m == Len(word)
<1>1. /\ p \in DOMAIN F
      /\ computeMatches(html, word)[p] =
           [from |-> mapOffsetToDocPos(RunsOf(html), F[p]), to |-> mapOffsetToDocPos(RunsOf(html), F[p] + m)]
  BY MatchesAre
<1>2. word # << >> /\ F[p] \in Nat /\ m \in Nat /\ m > 0
  <2>1. m \in Nat /\ m > 0 /\ F[p] \in Nat
    BY <1>1, MatchHeld
  <2> QED BY <2>1
<1>3. Occurs(FlatOf(html), word, F[p])
  BY <1>1, FlatFacts, FoundFacts DEF FoundAt
<1>4. PICK b \in DOMAIN html, o \in Nat :
        F[p] = Start(html, b) + o /\ o + m <= Width(html, b) /\ o < Width(html, b)
  <2> DEFINE i == F[p]
  <2>1. i \in Nat /\ Occurs(FlatOf(html), word, i)
    BY <1>2, <1>3
  <2> HIDE DEF i
  <2> QED BY <1>2, <2>1, OccursInRow DEF i
<1>5. Width(html, b) \in Nat /\ Width(html, b) > 0 /\ Start(html, b) \in Nat
  BY <1>4, RowOffset
<1>6. mapOffsetToDocPos(RunsOf(html), F[p]) = <<b, o + 1>>
  <2>1. o \in 0 .. Width(html, b)
    BY <1>4, <1>5
  <2> QED BY <1>4, <1>5, <2>1, RowMapped
<1>7. mapOffsetToDocPos(RunsOf(html), F[p] + m) = <<b, o + m + 1>>
  <2> DEFINE j == o + m
  <2>1. j \in 0 .. Width(html, b)
    BY <1>2, <1>4, <1>5
  <2>2. F[p] + m = Start(html, b) + j
    BY <1>2, <1>4, <1>5
  <2> HIDE DEF j
  <2>3. mapOffsetToDocPos(RunsOf(html), Start(html, b) + j) = <<b, j + 1>>
    BY <1>5, <2>1, RowMapped
  <2> QED BY <2>2, <2>3 DEF j
<1> QED BY <1>1, <1>2, <1>4, <1>6, <1>7

-----------------------------------------------------------------------------
(* What stands in items, breaks too.                                         *)
Marks == Letter \cup {"br"}

(* Items are read one by one.                                                *)
LEMMA LettersRead ==
  ASSUME NEW s \in Seq(Inlines)
  PROVE  /\ LettersOf(s) \in Seq(Marks) /\ Len(LettersOf(s)) = Len(s)
         /\ \A k \in 1 .. Len(s) : LettersOf(s)[k] = s[k].c
<1> DEFINE t == LettersOf(s)
           n == Len(s)
<1>1. n \in Nat /\ DOMAIN s = 1 .. n /\ \A k \in 1 .. n : s[k] \in Inlines
  BY LenProperties, ElementOfSeq
<1>2. t = [k \in 1 .. n |-> s[k].c]
  BY <1>1 DEF LettersOf
<1>3. \A x \in Inlines : x.c \in Marks
  BY DEF Inlines, Marks, Break
<1>4. t \in [1 .. n -> Marks]
  BY <1>1, <1>2, <1>3
<1>5. \A k \in 1 .. n : t[k] = s[k].c
  BY <1>2
<1> HIDE DEF t, n
<1>6. t \in Seq(Marks) /\ Len(t) = n
  BY <1>1, <1>4
<1> QED BY <1>5, <1>6 DEF t, n

(* Reading goes through joining and cutting.                                 *)
LEMMA LettersJoined ==
  ASSUME NEW s \in Seq(Inlines), NEW t \in Seq(Inlines)
  PROVE  LettersOf(s \o t) = LettersOf(s) \o LettersOf(t)
<1> DEFINE u == s \o t
           x == LettersOf(s)
           y == LettersOf(t)
           z == LettersOf(u)
<1>1. /\ u \in Seq(Inlines) /\ Len(u) = Len(s) + Len(t)
      /\ \A i \in 1 .. Len(s) + Len(t) : u[i] = IF i <= Len(s) THEN s[i] ELSE t[i - Len(s)]
  BY ConcatProperties
<1> HIDE DEF u
<1>2. Len(s) \in Nat /\ Len(t) \in Nat
  BY LenProperties
<1>3. /\ x \in Seq(Marks) /\ Len(x) = Len(s) /\ \A k \in 1 .. Len(s) : x[k] = s[k].c
      /\ y \in Seq(Marks) /\ Len(y) = Len(t) /\ \A k \in 1 .. Len(t) : y[k] = t[k].c
      /\ z \in Seq(Marks) /\ Len(z) = Len(u) /\ \A k \in 1 .. Len(u) : z[k] = u[k].c
  <2>1. x \in Seq(Marks) /\ Len(x) = Len(s) /\ \A k \in 1 .. Len(s) : x[k] = s[k].c
    BY LettersRead
  <2>2. y \in Seq(Marks) /\ Len(y) = Len(t) /\ \A k \in 1 .. Len(t) : y[k] = t[k].c
    BY LettersRead
  <2>3. z \in Seq(Marks) /\ Len(z) = Len(u) /\ \A k \in 1 .. Len(u) : z[k] = u[k].c
    BY <1>1, LettersRead
  <2> QED BY <2>1, <2>2, <2>3
<1> HIDE DEF x, y, z
<1>4. /\ x \o y \in Seq(Marks) /\ Len(x \o y) = Len(x) + Len(y)
      /\ \A i \in 1 .. Len(x) + Len(y) : (x \o y)[i] = IF i <= Len(x) THEN x[i] ELSE y[i - Len(x)]
  <2>1. x \in Seq(Marks) /\ y \in Seq(Marks)
    BY <1>3
  <2> QED BY <2>1, ConcatProperties
<1>5. ASSUME NEW i \in 1 .. Len(z) PROVE z[i] = (x \o y)[i]
  <2>1. CASE i <= Len(s)
    <3>1. i \in 1 .. Len(s) /\ i \in 1 .. Len(s) + Len(t)
      BY <1>1, <1>2, <1>3, <2>1
    <3>2. z[i] = s[i].c
      BY <1>1, <1>3, <2>1, <3>1
    <3>3. (x \o y)[i] = x[i]
      BY <1>3, <1>4, <2>1, <3>1
    <3> QED BY <1>3, <3>1, <3>2, <3>3
  <2>2. CASE ~(i <= Len(s))
    <3>1. i - Len(s) \in 1 .. Len(t) /\ i \in 1 .. Len(s) + Len(t)
      BY <1>1, <1>2, <1>3, <2>2
    <3>2. z[i] = t[i - Len(s)].c
      BY <1>1, <1>3, <2>2, <3>1
    <3>3. (x \o y)[i] = y[i - Len(s)]
      BY <1>3, <1>4, <2>2, <3>1
    <3> QED BY <1>3, <3>1, <3>2, <3>3
  <2> QED BY <2>1, <2>2
<1>6. Len(z) = Len(x \o y)
  BY <1>1, <1>3, <1>4
<1>7. z = x \o y
  BY <1>3, <1>4, <1>5, <1>6, SeqEqual
<1> QED BY <1>7 DEF x, y, z, u

(* A part of the items reads as that part of the text.                       *)
LEMMA LettersCut ==
  ASSUME NEW s \in Seq(Inlines), NEW a \in Nat \ {0}, NEW n \in Nat, n <= Len(s)
  PROVE  SubSeq(s, a, n) \in Seq(Inlines) /\ LettersOf(SubSeq(s, a, n)) = SubSeq(LettersOf(s), a, n)
<1> DEFINE t == LettersOf(s)
           x == SubSeq(s, a, n)
           y == SubSeq(t, a, n)
           z == LettersOf(x)
<1>1. Len(s) \in Nat /\ \A i \in a .. n : i \in 1 .. Len(s)
  BY LenProperties
<1>2. t \in Seq(Marks) /\ Len(t) = Len(s) /\ \A k \in 1 .. Len(s) : t[k] = s[k].c
  BY LettersRead
<1> HIDE DEF t
<1>3. /\ x \in Seq(Inlines) /\ Len(x) = IF a <= n THEN n - a + 1 ELSE 0
      /\ \A i \in 1 .. n - a + 1 : x[i] = s[a + i - 1]
  <2>1. \A i \in a .. n : s[i] \in Inlines
    BY <1>1, ElementOfSeq
  <2> QED BY <2>1, SubSeqProperties
<1>4. /\ y \in Seq(Marks) /\ Len(y) = IF a <= n THEN n - a + 1 ELSE 0
      /\ \A i \in 1 .. n - a + 1 : y[i] = t[a + i - 1]
  <2>1. \A i \in a .. n : t[i] \in Marks
    BY <1>1, <1>2, ElementOfSeq
  <2> QED BY <2>1, SubSeqProperties
<1> HIDE DEF x, y
<1>5. z \in Seq(Marks) /\ Len(z) = Len(x) /\ \A k \in 1 .. Len(x) : z[k] = x[k].c
  BY <1>3, LettersRead
<1> HIDE DEF z
<1>6. ASSUME NEW i \in 1 .. Len(z) PROVE z[i] = y[i]
  <2>1. i \in 1 .. n - a + 1 /\ a + i - 1 \in 1 .. Len(s)
    BY <1>1, <1>3, <1>5
  <2> QED BY <1>2, <1>3, <1>4, <1>5, <2>1
<1>7. z = y
  BY <1>3, <1>4, <1>5, <1>6, SeqEqual
<1> QED BY <1>3, <1>7 DEF x, y, z, t

(* What is typed reads as it was typed.                                      *)
LEMMA LettersTyped ==
  ASSUME NEW letters \in Seq(Letter), NEW bold \in BOOLEAN
  PROVE  letters \in Seq(Marks) /\ LettersOf(Typed(letters, bold)) = letters
<1> DEFINE t == Typed(letters, bold)
           x == LettersOf(t)
<1>1. t \in Seq(Inlines) /\ Len(t) = Len(letters)
      /\ \A k \in 1 .. Len(letters) : t[k] = [c |-> letters[k], bold |-> bold]
  BY TypedLetters
<1> HIDE DEF t
<1>2. x \in Seq(Marks) /\ Len(x) = Len(t) /\ \A k \in 1 .. Len(t) : x[k] = t[k].c
  BY <1>1, LettersRead
<1> HIDE DEF x
<1>3. letters \in Seq(Marks)
  <2>1. Letter \in SUBSET Marks
    BY DEF Marks
  <2> QED BY <2>1
<1>4. \A k \in 1 .. Len(x) : x[k] = letters[k]
  <2> SUFFICES ASSUME NEW k \in 1 .. Len(x) PROVE x[k] = letters[k]
    OBVIOUS
  <2>1. k \in 1 .. Len(letters) /\ k \in 1 .. Len(t)
    BY <1>1, <1>2
  <2>2. x[k] = t[k].c /\ t[k] = [c |-> letters[k], bold |-> bold]
    BY <1>1, <1>2, <2>1
  <2> QED BY <2>2
<1>5. x = letters
  BY <1>1, <1>2, <1>3, <1>4, SeqEqual
<1> QED BY <1>3, <1>5 DEF x, t

(* What a paragraph reads as after a match in it was replaced.               *)
LEMMA InsertedLetters ==
  ASSUME NEW items \in Seq(Inlines), NEW letters \in Seq(Letter), NEW bold \in BOOLEAN,
         NEW a \in Nat, a <= Len(items), NEW e \in Nat
  PROVE  LettersOf(Joined(Joined(Part(items, 1, a), Typed(letters, bold)),
                          Part(items, e + 1, Len(items))))
           = Joined(Joined(Part(LettersOf(items), 1, a), letters),
                    Part(LettersOf(items), e + 1, Len(LettersOf(items))))
<1> DEFINE n == Len(items)
           o == 1
           x == SubSeq(items, o, a)
           y == Typed(letters, bold)
           z == SubSeq(items, e + 1, n)
           R == LettersOf(items)
<1>1. n \in Nat /\ Len(R) = n /\ o \in Nat \ {0} /\ e + 1 \in Nat \ {0}
  BY LenProperties, LettersRead
<1> HIDE DEF o
<1>2. x \in Seq(Inlines) /\ LettersOf(x) = SubSeq(R, o, a)
  BY <1>1, LettersCut
<1>3. z \in Seq(Inlines) /\ LettersOf(z) = SubSeq(R, e + 1, n)
  <2> DEFINE d == e + 1
  <2> HIDE DEF d
  <2>1. d \in Nat \ {0} /\ n \in Nat /\ n <= Len(items)
    BY <1>1 DEF d
  <2>2. SubSeq(items, d, n) \in Seq(Inlines) /\ LettersOf(SubSeq(items, d, n)) = SubSeq(R, d, n)
    BY <2>1, LettersCut
  <2> QED BY <2>2 DEF d
<1>4. y \in Seq(Inlines) /\ LettersOf(y) = letters
  BY TypedLetters, LettersTyped
<1> HIDE DEF x, y, z
<1>5. x \o y \in Seq(Inlines) /\ LettersOf(x \o y) = LettersOf(x) \o LettersOf(y)
  BY <1>2, <1>4, ConcatProperties, LettersJoined
<1> DEFINE u == x \o y
<1> HIDE DEF u
<1>6. LettersOf(u \o z) = LettersOf(u) \o LettersOf(z)
  <2>1. u \in Seq(Inlines)
    BY <1>5 DEF u
  <2> QED BY <1>3, <2>1, LettersJoined
<1>7. LettersOf((x \o y) \o z) = (SubSeq(R, o, a) \o letters) \o SubSeq(R, e + 1, n)
  BY <1>2, <1>3, <1>4, <1>5, <1>6 DEF u
<1> QED BY <1>1, <1>7 DEF x, y, z, o, Joined, Part

(* Lists are joined in any grouping.                                         *)
LEMMA JoiningGroups ==
  /\ \A B : \A s, t \in Seq(B) : Joined(s, t) \in Seq(B)
  /\ \A B : \A r, s, t \in Seq(B) : Joined(Joined(r, s), t) = Joined(r, Joined(s, t))
<1>1. \A B : \A s, t \in Seq(B) : s \o t \in Seq(B)
  BY ConcatProperties
<1>2. \A B : \A r, s, t \in Seq(B) : (r \o s) \o t = r \o (s \o t)
  BY ConcatAssociative
<1> QED BY <1>1, <1>2 DEF Joined

(* Four lists at once.                                                       *)
LEMMA JoinedFour ==
  ASSUME NEW B, NEW t \in Seq(B), NEW v \in Seq(B), NEW u \in Seq(B), NEW rest \in Seq(B)
  PROVE  /\ Joined(v, Joined(u, rest)) \in Seq(B)
         /\ Joined(Joined(t, v), Joined(u, rest)) = Joined(t, Joined(v, Joined(u, rest)))
         /\ Joined(Joined(Joined(t, v), u), rest) = Joined(t, Joined(v, Joined(u, rest)))
<1> DEFINE tv == Joined(t, v)
           ur == Joined(u, rest)
<1>1. tv \in Seq(B) /\ ur \in Seq(B) /\ Joined(v, ur) \in Seq(B)
  BY JoiningGroups
<1>2. Joined(tv, ur) = Joined(t, Joined(v, ur))
  BY <1>1, JoiningGroups
<1>3. Joined(Joined(tv, u), rest) = Joined(tv, ur)
  BY <1>1, JoiningGroups
<1> QED BY <1>1, <1>2, <1>3

(* What is cut from a joined list in front of the joint.                     *)
LEMMA JoinedCut ==
  ASSUME NEW B, NEW h \in Seq(B), NEW t \in Seq(B), NEW a \in Nat, NEW e \in Nat, NEW s \in Nat,
         a <= e, e <= s, s <= Len(h)
  PROVE  LET g == Joined(Part(h, 1, s), t)
         IN  /\ Part(g, 1, a) = Part(h, 1, a)
             /\ Part(g, e + 1, Len(g)) = Joined(Part(h, e + 1, s), t)
BY FrontOfJoined DEF Joined, Part

(* A part of a list is a list.                                               *)
LEMMA PartTyped ==
  ASSUME NEW B, NEW h \in Seq(B), NEW a \in Nat, NEW e \in Nat, a <= e, e <= Len(h)
  PROVE  Part(h, a + 1, e) \in Seq(B) /\ Part(h, 1, e) \in Seq(B) /\ Len(h) \in Nat
<1>1. Len(h) \in Nat
  BY LenProperties
<1> QED BY <1>1, PartsJoin, PartUpto DEF Part

(* Replacing what stands before a rest that is done, and telling the text    *)
(* again up to the same place, come to the same.                             *)
Spliced(B, row, rest, new, told, x, a, e, c) ==
  LET read == Joined(Part(row, 1, c), rest)
      next == Joined(new, Joined(Part(row, e + 1, c), rest))
      upto == Joined(told, Part(row, x + 1, a))
  IN  /\ next \in Seq(B) /\ Joined(upto, new) \in Seq(B)
      /\ Joined(Joined(Part(read, 1, a), new), Part(read, e + 1, Len(read)))
           = Joined(Part(row, 1, a), next)
      /\ Joined(Joined(Joined(upto, new), Part(row, e + 1, c)), rest) = Joined(upto, next)

(* For every such list.                                                      *)
LEMMA SpliceStep ==
  ASSUME NEW B, NEW row \in Seq(B), NEW rest \in Seq(B), NEW new \in Seq(B), NEW told \in Seq(B),
         NEW x \in Nat, NEW a \in Nat, NEW e \in Nat, NEW c \in Nat,
         x <= a, a <= e, e <= c, c <= Len(row)
  PROVE  Spliced(B, row, rest, new, told, x, a, e, c)
<1> DEFINE read == Joined(Part(row, 1, c), rest)
           u == Part(row, e + 1, c)
           v == Part(row, 1, a)
           w == Part(row, x + 1, a)
           next == Joined(new, Joined(u, rest))
           upto == Joined(told, w)
<1>1. Part(read, 1, a) = v /\ Part(read, e + 1, Len(read)) = Joined(u, rest)
  BY JoinedCut, SMTT(30)
<1>2. Len(row) \in Nat
  BY LenProperties
<1>3. u \in Seq(B)
  BY <1>2, PartTyped
<1>4. v \in Seq(B) /\ w \in Seq(B)
  <2>1. a <= Len(row)
    BY <1>2
  <2> QED BY <1>2, <2>1, PartTyped
<1> HIDE DEF u, v, w, read
<1>5. upto \in Seq(B)
  BY <1>4, JoiningGroups
<1> HIDE DEF upto
<1>6. Joined(upto, new) \in Seq(B)
  BY <1>5, JoiningGroups
<1>7. next \in Seq(B) /\ Joined(Joined(v, new), Joined(u, rest)) = Joined(v, next)
  BY <1>3, <1>4, JoinedFour
<1>8. Joined(Joined(Joined(upto, new), u), rest) = Joined(upto, next)
  BY <1>3, <1>5, JoinedFour
<1> QED BY <1>1, <1>6, <1>7, <1>8 DEF Spliced, read, u, v, w, upto

-----------------------------------------------------------------------------
(* The text of a paragraph between its finds: up to the next one, from the   *)
(* last one on.                                                              *)
Cut(f, n, j) == IF j = Len(f) THEN n ELSE f[j + 1]
Past(f, m, j) == IF j = 0 THEN 0 ELSE f[j] + m

(* The finds of a text lie apart, so what is between them is a part of it.   *)
LEMMA FoundPlaces ==
  ASSUME NEW row \in Seq(Letter), NEW word \in Seq(Letter), word # << >>
  PROVE  LET f == Found(row, word)
             N == Len(row)
             m == Len(word)
         IN  /\ Len(f) \in Nat /\ DOMAIN f = 1 .. Len(f) /\ N \in Nat /\ m \in Nat /\ m > 0
             /\ \A j \in 1 .. Len(f) : f[j] \in Nat /\ f[j] + m <= N
             /\ \A i, j \in 1 .. Len(f) : i < j => f[i] + m <= f[j]
             /\ \A j \in 0 .. Len(f) : /\ Past(f, m, j) \in Nat /\ Cut(f, N, j) \in Nat
                                       /\ Past(f, m, j) <= Cut(f, N, j) /\ Cut(f, N, j) <= N
             /\ \A j \in 1 .. Len(f) : /\ Past(f, m, j - 1) \in Nat /\ Past(f, m, j - 1) <= f[j]
                                       /\ Cut(f, N, j - 1) = f[j] /\ Past(f, m, j) = f[j] + m
<1> DEFINE f == Found(row, word)
           N == Len(row)
           m == Len(word)
           J == Len(f)
<1>1. /\ f \in Seq(Nat) /\ J \in Nat /\ DOMAIN f = 1 .. J
      /\ \A j \in DOMAIN f : f[j] \in Nat /\ Occurs(row, word, f[j])
      /\ \A i, j \in DOMAIN f : i < j => f[i] + m <= f[j]
  BY FoundFacts
<1>2. N \in Nat /\ m \in Nat /\ m > 0
  BY LenProperties, EmptySeq
<1> HIDE DEF f
<1>3. \A j \in 1 .. J : f[j] \in Nat /\ f[j] + m <= N
  BY <1>1 DEF Occurs
<1>4. \A i, j \in 1 .. J : i < j => f[i] + m <= f[j]
  BY <1>1
<1> HIDE DEF m, N, J
<1>5. ASSUME NEW j \in 0 .. J
      PROVE  /\ Past(f, m, j) \in Nat /\ (j = 0 => Past(f, m, j) = 0)
             /\ j # 0 => j \in 1 .. J /\ Past(f, m, j) = f[j] + m
  BY <1>1, <1>2, <1>3 DEF Past
<1>6. ASSUME NEW j \in 0 .. J
      PROVE  /\ Cut(f, N, j) \in Nat /\ (j = J => Cut(f, N, j) = N)
             /\ j # J => j + 1 \in 1 .. J /\ Cut(f, N, j) = f[j + 1]
  <2>1. Cut(f, N, j) = IF j = J THEN N ELSE f[j + 1]
    BY DEF Cut, J
  <2>2. j # J => j + 1 \in 1 .. J
    BY <1>1
  <2> QED BY <1>2, <1>3, <2>1, <2>2
<1>7. ASSUME NEW j \in 0 .. J PROVE Past(f, m, j) <= Cut(f, N, j) /\ Cut(f, N, j) <= N
  <2>1. CASE j = J
    <3>1. Cut(f, N, j) = N
      BY <1>6, <2>1
    <3>2. Past(f, m, j) <= N
      BY <1>2, <1>3, <1>5
    <3> QED BY <1>2, <3>1, <3>2
  <2>2. CASE j # J
    <3>1. j + 1 \in 1 .. J /\ Cut(f, N, j) = f[j + 1]
      BY <1>6, <2>2
    <3>2. f[j + 1] \in Nat /\ f[j + 1] <= N
      BY <1>2, <1>3, <3>1
    <3>3. Past(f, m, j) <= f[j + 1]
      <4>1. CASE j = 0
        BY <1>5, <3>2, <4>1
      <4>2. CASE j # 0
        <5>1. j \in 1 .. J /\ j < j + 1 /\ Past(f, m, j) = f[j] + m
          BY <1>1, <1>5, <4>2
        <5> QED BY <1>4, <3>1, <5>1
      <4> QED BY <4>1, <4>2
    <3> QED BY <3>1, <3>2, <3>3
  <2> QED BY <2>1, <2>2
<1>8. ASSUME NEW j \in 1 .. J
      PROVE  /\ Past(f, m, j - 1) \in Nat /\ Past(f, m, j - 1) <= f[j]
             /\ Cut(f, N, j - 1) = f[j] /\ Past(f, m, j) = f[j] + m
  <2>1. j - 1 \in 0 .. J /\ j - 1 # J /\ (j - 1) + 1 = j /\ j \in 0 .. J /\ j # 0
    BY <1>1
  <2>2. Cut(f, N, j - 1) = f[j]
    BY <1>6, <2>1
  <2>3. Past(f, m, j - 1) \in Nat /\ Past(f, m, j - 1) <= Cut(f, N, j - 1)
    BY <1>5, <1>7, <2>1
  <2>4. Past(f, m, j) = f[j] + m
    BY <1>5, <2>1
  <2> QED BY <2>2, <2>3, <2>4
<1>9. \A j \in 0 .. J : /\ Past(f, m, j) \in Nat /\ Cut(f, N, j) \in Nat
                       /\ Past(f, m, j) <= Cut(f, N, j) /\ Cut(f, N, j) <= N
  BY <1>5, <1>6, <1>7
<1> QED BY <1>1, <1>2, <1>3, <1>4, <1>8, <1>9 DEF f, m, N, J

(* A list cut at its ends, and joined with nothing, is itself.               *)
LEMMA WholeList ==
  ASSUME NEW B, NEW s \in Seq(B)
  PROVE  /\ << >> \in Seq(B) /\ Len(s) \in Nat
         /\ Part(s, 1, Len(s)) = s /\ Joined(<< >>, s) = s /\ Joined(s, << >>) = s
<1> DEFINE N == Len(s)
<1>1. N \in Nat /\ << >> \in Seq(B)
  BY LenProperties, EmptySeq
<1>2. SubSeq(s, 1, N) = s
  <2> DEFINE t == SubSeq(s, 1, N)
  <2>1. t \in Seq(B) /\ Len(t) = N /\ \A i \in 1 .. N : t[i] = s[i]
    BY <1>1, PartUpto
  <2> HIDE DEF t
  <2>2. t = s
    BY <2>1, SeqEqual
  <2> QED BY <2>2 DEF t
<1>3. << >> \o s = s /\ s \o << >> = s
  BY ConcatEmptySeq
<1> QED BY <1>1, <1>2, <1>3 DEF Part, Joined

(* The text with the word replaced, told find by find.                       *)
ToldSteps(q, row, f, m, letters) ==
  /\ q[0] = << >>
  /\ \A n \in 0 .. Len(f) : q[n] \in Seq(Marks)
  /\ \A n \in 1 .. Len(f) :
       q[n] = Joined(Joined(q[n - 1], Part(row, Past(f, m, n - 1) + 1, f[n])), letters)

(* TextReplaced is what the last step tells, and what follows the last find. *)
LEMMA ToldRun ==
  ASSUME NEW row \in Seq(Letter), NEW word \in Seq(Letter), word # << >>, NEW letters \in Seq(Letter)
  PROVE  LET f == Found(row, word)
         IN  \E q : /\ ToldSteps(q, row, f, Len(word), letters)
                    /\ TextReplaced(row, word, letters) =
                         Joined(q[Len(f)], Part(row, Past(f, Len(word), Len(f)) + 1, Len(row)))
<1> DEFINE f == Found(row, word)
           N == Len(row)
           m == Len(word)
           J == Len(f)
           L == [n \in DOMAIN f |-> n]
<1>1. /\ J \in Nat /\ DOMAIN f = 1 .. J /\ N \in Nat /\ m \in Nat /\ m > 0
      /\ \A j \in 1 .. J : f[j] \in Nat /\ f[j] + m <= N
      /\ \A j \in 1 .. J : /\ Past(f, m, j - 1) \in Nat /\ Past(f, m, j - 1) <= f[j]
                           /\ Past(f, m, j) = f[j] + m
  BY FoundPlaces
<1>2. DOMAIN L = 1 .. J /\ \A n \in 1 .. J : L[n] = n
  BY <1>1
<1>3. TextReplaced(row, word, letters) =
        IF f = << >> THEN row
        ELSE RetoldIn(row, f, m, letters, L) \o SubSeq(row, Last(f) + m + 1, N)
  BY DEF TextReplaced, RetoldIn, RetoldStep
<1> HIDE DEF f, L, J, N, m
<1>4. PICK q : RetoldSteps(q, J, L, row, f, m, letters)
  BY <1>1, <1>2, RetoldRun
<1>5. row \in Seq(Marks) /\ letters \in Seq(Marks) /\ << >> \in Seq(Marks)
  <2>1. Letter \in SUBSET Marks
    BY DEF Marks
  <2> QED BY <2>1, EmptySeq
<1>6. ASSUME NEW n \in 1 .. J
      PROVE  q[n] = Joined(Joined(q[n - 1], Part(row, Past(f, m, n - 1) + 1, f[n])), letters)
  <2>1. q[n] = RetoldStep(row, f, m, letters, q[n - 1], n)
    BY <1>2, <1>4 DEF RetoldSteps
  <2>2. Past(f, m, n - 1) = IF n = 1 THEN 0 ELSE f[n - 1] + m
    BY DEF Past
  <2>3. q[n] = q[n - 1] \o SubSeq(row, (IF n = 1 THEN 0 ELSE f[n - 1] + m) + 1, f[n]) \o letters
    BY <2>1 DEF RetoldStep
  <2> QED BY <2>2, <2>3 DEF Joined, Part
<1>7. \A n \in 0 .. J : q[n] \in Seq(Marks)
  <2> DEFINE S == {n \in Nat : q[n] \in Seq(Marks)}
  <2>1. 0 \in S
    BY <1>4, <1>5 DEF RetoldSteps
  <2>2. ASSUME NEW n \in 1 .. J, n - 1 \in S PROVE n \in S
    <3> DEFINE a == Past(f, m, n - 1)
               u == Part(row, a + 1, f[n])
    <3>1. a \in Nat /\ f[n] \in Nat /\ a <= f[n] /\ f[n] <= Len(row)
      BY <1>1 DEF N
    <3> HIDE DEF a
    <3>2. u \in Seq(Marks)
      <4> DEFINE e == f[n]
      <4>1. e \in Nat /\ a <= e /\ e <= Len(row)
        BY <3>1
      <4> HIDE DEF e
      <4>2. Part(row, a + 1, e) \in Seq(Marks)
        BY <1>5, <3>1, <4>1, PartTyped
      <4> QED BY <4>2 DEF e
    <3> HIDE DEF u
    <3> DEFINE v == q[n - 1]
               w == Joined(v, u)
    <3>3. v \in Seq(Marks)
      BY <2>2
    <3> HIDE DEF v
    <3>4. w \in Seq(Marks)
      BY <3>2, <3>3, JoiningGroups
    <3> HIDE DEF w
    <3>5. Joined(w, letters) \in Seq(Marks)
      BY <1>5, <3>4, JoiningGroups
    <3> QED BY <1>6, <3>5 DEF w, v, u, a
  <2> HIDE DEF S
  <2>3. \A n \in 0 .. J : n \in S
    BY <1>1, <2>1, <2>2, InductionUpTo
  <2> QED BY <2>3 DEF S
<1>8. ToldSteps(q, row, f, m, letters)
  BY <1>4, <1>6, <1>7 DEF ToldSteps, RetoldSteps, J
<1>9. TextReplaced(row, word, letters) = Joined(q[J], Part(row, Past(f, m, J) + 1, N))
  <2>1. CASE f = << >>
    <3>1. J = 0
      BY <2>1, EmptySeq DEF J
    <3>2. q[J] = << >> /\ Past(f, m, J) + 1 = 1
      BY <1>4, <3>1 DEF RetoldSteps, Past
    <3>3. Joined(<< >>, Part(row, 1, N)) = row
      BY WholeList DEF N
    <3> QED BY <1>3, <2>1, <3>2, <3>3
  <2>2. CASE f # << >>
    <3>1. J # 0
      <4>1. f \in Seq(Nat)
        BY FoundFacts DEF f
      <4> QED BY <2>2, <4>1, EmptySeq DEF J
    <3>2. Last(f) + m + 1 = Past(f, m, J) + 1
      BY <3>1 DEF Last, Past, J
    <3>3. q[J] = RetoldIn(row, f, m, letters, L)
      BY <1>4 DEF RetoldSteps
    <3> QED BY <1>3, <2>2, <3>2, <3>3 DEF Joined, Part
  <2> QED BY <2>1, <2>2
<1> QED BY <1>8, <1>9 DEF f, J, N, m

-----------------------------------------------------------------------------
(* The finds of a row that are not replaced yet, when the finds after the    *)
(* n-th of the document are: the first j.                                    *)
ToCome(F, f, s, n, j) ==
  \A i \in 1 .. Len(f) : i <= j <=> \E p \in 1 .. n : F[p] = s + f[i]

(* When the finds are taken last to first, a paragraph's are too.            *)
LEMMA NextToCome ==
  ASSUME NEW F, NEW P \in Nat, \A p \in 1 .. P : F[p] \in Nat,
         \A p, q \in 1 .. P : p < q => F[p] < F[q],
         NEW f, Len(f) \in Nat, \A i \in 1 .. Len(f) : f[i] \in Nat,
         \A i, k \in 1 .. Len(f) : i < k => f[i] < f[k],
         NEW s \in Nat, NEW n \in 1 .. P, NEW j \in 0 .. Len(f), ToCome(F, f, s, n, j)
  PROVE  /\ (\A i \in 1 .. Len(f) : F[n] # s + f[i]) => ToCome(F, f, s, n - 1, j)
         /\ \A i \in 1 .. Len(f) : F[n] = s + f[i] => i = j /\ ToCome(F, f, s, n - 1, j - 1)
<1> DEFINE J == Len(f)
<1>1. \A i \in 1 .. J : i <= j <=> \E p \in 1 .. n : F[p] = s + f[i]
  BY DEF ToCome
<1>2. \A p \in 1 .. n : p \in 1 .. P /\ (p = n \/ p \in 1 .. n - 1)
  OBVIOUS
<1>3. \A p \in 1 .. n - 1 : p \in 1 .. n /\ p \in 1 .. P /\ p < n
  OBVIOUS
<1>4. ASSUME \A i \in 1 .. J : F[n] # s + f[i] PROVE ToCome(F, f, s, n - 1, j)
  <2>1. ASSUME NEW i \in 1 .. J
        PROVE  (\E p \in 1 .. n : F[p] = s + f[i]) <=> \E p \in 1 .. n - 1 : F[p] = s + f[i]
    BY <1>2, <1>3, <1>4
  <2> QED BY <1>1, <2>1 DEF ToCome
<1>5. ASSUME NEW i \in 1 .. J, F[n] = s + f[i] PROVE i = j /\ ToCome(F, f, s, n - 1, j - 1)
  <2>1. n \in 1 .. n /\ i <= j
    <3>1. n \in 1 .. n
      OBVIOUS
    <3> QED BY <1>1, <1>5, <3>1
  <2>2. ~(i < j)
    <3> SUFFICES ASSUME i < j PROVE FALSE
      OBVIOUS
    <3>1. j \in 1 .. J /\ j <= j
      OBVIOUS
    <3>2. PICK p \in 1 .. n : F[p] = s + f[j]
      BY <1>1, <3>1
    <3>3. f[i] < f[j] /\ f[i] \in Nat /\ f[j] \in Nat
      BY <3>1
    <3>4. F[p] <= F[n]
      BY <1>2
    <3> QED BY <1>5, <3>2, <3>3, <3>4
  <2>3. i = j
    BY <2>1, <2>2
  <2>4. ASSUME NEW k \in 1 .. J
        PROVE  k <= j - 1 <=> \E p \in 1 .. n - 1 : F[p] = s + f[k]
    <3>1. ASSUME k <= j - 1 PROVE \E p \in 1 .. n - 1 : F[p] = s + f[k]
      <4>1. k <= j /\ k < i
        BY <2>3, <3>1
      <4>2. PICK p \in 1 .. n : F[p] = s + f[k]
        BY <1>1, <4>1
      <4>3. f[k] < f[i] /\ f[k] \in Nat /\ f[i] \in Nat
        BY <4>1
      <4>4. p # n
        BY <1>5, <4>2, <4>3
      <4> QED BY <1>2, <4>2, <4>4
    <3>2. ASSUME NEW p \in 1 .. n - 1, F[p] = s + f[k] PROVE k <= j - 1
      <4>1. k <= j
        BY <1>1, <1>3, <3>2
      <4>2. F[p] < F[n] /\ F[p] \in Nat
        BY <1>3
      <4>3. k # j
        BY <1>5, <2>3, <3>2, <4>2
      <4> QED BY <4>1, <4>3
    <3> QED BY <3>1, <3>2
  <2> QED BY <2>3, <2>4 DEF ToCome
<1> QED BY <1>4, <1>5

(* What the paragraph reads as then, and what that is to become.             *)
RowDone(read, final, q, row, f, m, j, rest) ==
  /\ rest \in Seq(Marks)
  /\ read = Joined(Part(row, 1, Cut(f, Len(row), j)), rest)
  /\ final = Joined(Joined(q[j], Part(row, Past(f, m, j) + 1, Cut(f, Len(row), j))), rest)

(* One more match of the paragraph replaced: it reads as told up to the find *)
(* before.                                                                   *)
LEMMA RowNext ==
  ASSUME NEW row \in Seq(Letter), NEW word \in Seq(Letter), word # << >>, NEW letters \in Seq(Letter),
         NEW q, ToldSteps(q, row, Found(row, word), Len(word), letters),
         NEW j \in 1 .. Len(Found(row, word)), NEW read, NEW final, NEW rest,
         RowDone(read, final, q, row, Found(row, word), Len(word), j, rest)
  PROVE  LET f == Found(row, word)
             a == f[j]
             e == f[j] + Len(word)
         IN  \E next : RowDone(Joined(Joined(Part(read, 1, a), letters), Part(read, e + 1, Len(read))),
                               final, q, row, f, Len(word), j - 1, next)
<1> DEFINE f == Found(row, word)
           m == Len(word)
           N == Len(row)
           a == f[j]
           e == a + m
           c == Cut(f, N, j)
           x == Past(f, m, j - 1)
           told == q[j - 1]
           next == Joined(letters, Joined(Part(row, e + 1, c), rest))
           upto == Joined(told, Part(row, x + 1, a))
<1>1. /\ Len(f) \in Nat /\ N \in Nat /\ m \in Nat /\ a \in Nat
      /\ x \in Nat /\ x <= a /\ Cut(f, N, j - 1) = a /\ Past(f, m, j) = e
  BY FoundPlaces
<1>2. c \in Nat /\ e <= c /\ c <= N
  <2>1. j \in 0 .. Len(f)
    BY <1>1
  <2>2. Past(f, m, j) <= Cut(f, N, j) /\ Cut(f, N, j) <= N /\ Cut(f, N, j) \in Nat
    BY <2>1, FoundPlaces
  <2> QED BY <1>1, <2>2
<1>3. told \in Seq(Marks) /\ q[j] = Joined(upto, letters)
  <2>1. j - 1 \in 0 .. Len(f)
    BY <1>1
  <2> QED BY <2>1 DEF ToldSteps
<1>4. row \in Seq(Marks) /\ letters \in Seq(Marks)
  <2>1. Letter \in SUBSET Marks
    BY DEF Marks
  <2> QED BY <2>1
<1>5. /\ rest \in Seq(Marks) /\ read = Joined(Part(row, 1, c), rest)
      /\ final = Joined(Joined(q[j], Part(row, e + 1, c)), rest)
  BY <1>1 DEF RowDone
<1> HIDE DEF f, N, c, x, told, a, m
<1>6. /\ next \in Seq(Marks)
      /\ Joined(Joined(Part(read, 1, a), letters), Part(read, e + 1, Len(read)))
           = Joined(Part(row, 1, a), next)
      /\ Joined(Joined(Joined(upto, letters), Part(row, e + 1, c)), rest) = Joined(upto, next)
  <2>1. a <= e /\ e \in Nat
    BY <1>1
  <2> HIDE DEF e
  <2>2. c <= Len(row)
    BY <1>2 DEF N
  <2>3. /\ row \in Seq(Marks) /\ rest \in Seq(Marks) /\ letters \in Seq(Marks) /\ told \in Seq(Marks)
        /\ x \in Nat /\ a \in Nat /\ e \in Nat /\ c \in Nat
        /\ x <= a /\ a <= e /\ e <= c /\ c <= Len(row)
    BY <1>1, <1>2, <1>3, <1>4, <1>5, <2>1, <2>2
  <2>4. Spliced(Marks, row, rest, letters, told, x, a, e, c)
    BY ONLY <2>3, SpliceStep
  <2> QED BY <1>5, <2>4 DEF Spliced
<1> HIDE DEF next, upto, e
<1>7. final = Joined(upto, next)
  BY <1>3, <1>5, <1>6
<1>8. RowDone(Joined(Joined(Part(read, 1, a), letters), Part(read, e + 1, Len(read))),
              final, q, row, f, m, j - 1, next)
  BY <1>1, <1>6, <1>7 DEF RowDone, N, upto, told, x
<1> QED BY <1>8 DEF f, m, a, e

(* One match replaced, as the paragraph it is in reads.                      *)
LEMMA RowInserted ==
  ASSUME NEW h \in Seq(Pieces), NEW match, NEW letters \in Seq(Letter), NEW e \in Nat,
         match.from[1] \in DOMAIN h, h[match.from[1]].kind = "p",
         match.from[2] \in Nat \ {0}, match.from[2] - 1 <= Len(h[match.from[1]].items),
         match.to[2] = e + 1
  PROVE  LET b == match.from[1]
             a == match.from[2] - 1
             read == LettersOf(h[b].items)
             new == insertText(h, match, letters)
         IN  /\ \A c \in DOMAIN h : c # b => new[c] = h[c]
             /\ new[b].kind = "p"
             /\ LettersOf(new[b].items)
                  = Joined(Joined(Part(read, 1, a), letters), Part(read, e + 1, Len(read)))
<1> DEFINE b == match.from[1]
           a == match.from[2] - 1
           items == h[b].items
           new == insertText(h, match, letters)
<1>1. match.to[2] \in Nat \ {0}
  OBVIOUS
<1>2. /\ \A c \in DOMAIN h : c # b => new[c] = h[c]
      /\ new[b].kind = "p"
      /\ \E bold \in BOOLEAN :
           new[b].items = Joined(Joined(Part(items, 1, a), Typed(letters, bold)),
                                 Part(items, match.to[2], Len(items)))
  BY <1>1, Inserted, SMTT(30)
<1>3. items \in Seq(Inlines) /\ a \in Nat /\ a <= Len(items)
  BY PieceFacts
<1> HIDE DEF items, new, a, b
<1>4. PICK bold \in BOOLEAN :
        new[b].items = Joined(Joined(Part(items, 1, a), Typed(letters, bold)),
                              Part(items, e + 1, Len(items)))
  BY <1>2
<1>5. LettersOf(new[b].items)
        = Joined(Joined(Part(LettersOf(items), 1, a), letters),
                 Part(LettersOf(items), e + 1, Len(LettersOf(items))))
  BY <1>3, <1>4, InsertedLetters
<1> QED BY <1>2, <1>5 DEF items, new, a, b

(* Replace All does to a paragraph what replacing in its text does.          *)
LEMMA RowReplaced ==
  ASSUME NEW html \in Seq(Pieces), Plain(html), NEW word \in Seq(Letter), word # << >>,
         NEW letters \in Seq(Letter), NEW b \in DOMAIN html
  PROVE  LET new == searchReplaceAll(html, computeMatches(html, word), letters)
         IN  /\ new[b].kind = html[b].kind
             /\ LettersOf(new[b].items) = TextReplaced(Row(html, b), word, letters)
<1> DEFINE ms == computeMatches(html, word)
           new == searchReplaceAll(html, ms, letters)
           P == Len(ms)
           F == FoundAt(html, word)
           row == Row(html, b)
           f == Found(row, word)
           m == Len(word)
           N == Len(row)
           J == Len(f)
           s == Start(html, b)
           final == TextReplaced(row, word, letters)
<1>1. /\ LegalMatches(html, ms) /\ P \in Nat /\ DOMAIN ms = 1 .. P /\ DOMAIN F = 1 .. P
      /\ \A p \in 1 .. P : F[p] \in Nat
      /\ \A p, q \in 1 .. P : p < q => F[p] < F[q]
  <2>1. LegalMatches(html, ms) /\ P \in Nat /\ DOMAIN ms = 1 .. P
    BY MatchesLegal DEF LegalMatches
  <2>2. DOMAIN ms = DOMAIN F
    BY MatchesAre
  <2>3. /\ \A p \in DOMAIN F : F[p] \in Nat
        /\ \A p, q \in DOMAIN F : p < q => F[p] < F[q]
    BY FlatFacts, FoundFacts DEF FoundAt
  <2> HIDE DEF ms, F, P
  <2> QED BY <2>1, <2>2, <2>3
<1>2. row \in Seq(Letter) /\ N = Width(html, b) /\ N \in Nat /\ s \in Nat
  BY RowRead, RowOffset
<1>3. /\ J \in Nat /\ DOMAIN f = 1 .. J /\ m \in Nat /\ m > 0
      /\ \A j \in 1 .. J : f[j] \in Nat /\ f[j] + m <= N
      /\ \A i, j \in 1 .. J : i < j => f[i] + m <= f[j]
  <2> HIDE DEF row
  <2> QED BY <1>2, FoundPlaces
<1>4. \A i, j \in 1 .. J : i < j => f[i] < f[j]
  <2> HIDE DEF f, J, m, N
  <2> QED BY <1>3
<1>5. \A o \in Nat : o < N =>
        ((\E p \in 1 .. P : F[p] = s + o) <=> \E i \in 1 .. J : f[i] = o)
  <2> SUFFICES ASSUME NEW o \in Nat, o < N
               PROVE  (\E p \in 1 .. P : F[p] = s + o) <=> \E i \in 1 .. J : f[i] = o
    OBVIOUS
  <2>1. o < Width(html, b)
    BY <1>2
  <2>2. (\E p \in DOMAIN F : F[p] = s + o) <=> \E i \in DOMAIN f : f[i] = o
    BY <2>1, FoundLocal
  <2> HIDE DEF F, f, s, J, P
  <2> QED BY <1>1, <1>3, <2>2
<1>6. PICK q : ToldSteps(q, row, f, m, letters)
               /\ final = Joined(q[J], Part(row, Past(f, m, J) + 1, N))
  <2> HIDE DEF row
  <2> QED BY <1>2, ToldRun
<1>7. PICK r : ReplacedSteps(r, P, Reverse(ms), html, letters) /\ r[P] = new
  BY <1>1, ReplaceTyped
<1>8. \A n \in 0 .. P : Fits(html, ms, r[n], n)
  BY <1>1, <1>7, ReplaceFits
<1>9. \A n \in 1 .. P : r[n] = insertText(r[n - 1], ms[P - n + 1], letters)
  <2>1. DOMAIN Reverse(ms) = 1 .. P /\ \A n \in 1 .. P : Reverse(ms)[n] = ms[P - n + 1]
    BY <1>1 DEF Reverse
  <2> QED BY <1>7, <2>1 DEF ReplacedSteps
<1> DEFINE At(n) == /\ r[n][b].kind = html[b].kind
                    /\ \E j \in 0 .. J : \E rest :
                         /\ ToCome(F, f, s, P - n, j)
                         /\ RowDone(LettersOf(r[n][b].items), final, q, row, f, m, j, rest)
           S == {n \in Nat : At(n)}
<1>10. 0 \in S
  <2>1. r[0] = html
    BY <1>7 DEF ReplacedSteps
  <2>2. ToCome(F, f, s, P - 0, J)
    <3>1. \A i \in 1 .. J : i <= J /\ f[i] \in Nat /\ f[i] < N
      <4> HIDE DEF f, J, m, N
      <4> QED BY <1>2, <1>3
    <3>2. \A i \in 1 .. J : \E p \in 1 .. P : F[p] = s + f[i]
      <4> HIDE DEF f, J, m, N, F, P, s
      <4> QED BY <1>5, <3>1
    <3>3. P - 0 = P
      BY <1>1
    <3> QED BY <3>1, <3>2, <3>3 DEF ToCome
  <2>3. RowDone(row, final, q, row, f, m, J, << >>)
    <3> HIDE DEF row, f, m, final
    <3>1. row \in Seq(Marks)
      <4>1. Letter \in SUBSET Marks
        BY DEF Marks
      <4> QED BY <1>2, <4>1
    <3>2. Cut(f, N, J) = N
      BY DEF Cut
    <3>3. << >> \in Seq(Marks) /\ Part(row, 1, N) = row /\ Joined(row, << >>) = row
      BY <3>1, WholeList
    <3> DEFINE u == Part(row, Past(f, m, J) + 1, N)
               v == Joined(q[J], u)
    <3>4. v \in Seq(Marks)
      <4> DEFINE a == Past(f, m, J)
      <4>1. a \in Nat /\ a <= N
        <5>1. J \in 0 .. J
          BY <1>3
        <5>2. /\ Past(f, m, J) \in Nat /\ Past(f, m, J) <= Cut(f, N, J)
          BY <1>2, <5>1, FoundPlaces DEF f, m
        <5> QED BY <3>2, <5>2
      <4> HIDE DEF a, N
      <4>2. Part(row, a + 1, N) \in Seq(Marks)
        BY <1>2, <3>1, <4>1, PartTyped DEF N
      <4>3. q[J] \in Seq(Marks)
        <5>1. J \in 0 .. J
          BY <1>3
        <5> QED BY <1>6, <5>1 DEF ToldSteps
      <4> HIDE DEF J
      <4> DEFINE w == Part(row, a + 1, N)
                 z == q[J]
      <4> HIDE DEF w, z
      <4>4. Joined(z, w) \in Seq(Marks)
        BY <4>2, <4>3, JoiningGroups DEF w, z
      <4> QED BY <4>4 DEF w, z, a
    <3> HIDE DEF v
    <3>5. Joined(v, << >>) = v
      BY <3>4, WholeList
    <3> QED BY <1>6, <3>2, <3>3, <3>5 DEF RowDone, v
  <2>4. LettersOf(r[0][b].items) = row
    BY <2>1 DEF Row
  <2>5. J \in 0 .. J
    BY <1>3
  <2> HIDE DEF row, f, m, final, F, s, J, P
  <2> QED BY <2>1, <2>2, <2>3, <2>4, <2>5
<1>11. ASSUME NEW n \in 1 .. P, n - 1 \in S PROVE n \in S
  <2> DEFINE k == P - n + 1
             h == r[n - 1]
             match == ms[k]
  <2>1. k \in 1 .. P /\ k \in DOMAIN ms /\ P - (n - 1) = k /\ P - n = k - 1
    BY <1>1
  <2>2. PICK c \in DOMAIN html, o \in Nat :
          /\ F[k] = Start(html, c) + o /\ o + m <= Width(html, c) /\ o < Width(html, c)
          /\ match = [from |-> <<c, o + 1>>, to |-> <<c, o + m + 1>>]
    <3>1. k \in DOMAIN computeMatches(html, word)
      BY <2>1
    <3> HIDE DEF k
    <3> QED BY <3>1, MatchInRow
  <2>3. /\ h \in Seq(Pieces) /\ DOMAIN h = DOMAIN html /\ h[c].kind = "p" /\ o <= Len(h[c].items)
    <3>1. n - 1 \in 0 .. P /\ k \in 1 .. P /\ k <= P - (n - 1)
      BY <1>1, <2>1
    <3>2. Fits(html, ms, h, n - 1)
      BY <1>8, <3>1
    <3>3. /\ h \in Seq(Pieces) /\ DOMAIN h = DOMAIN html
          /\ h[match.from[1]].kind = "p" /\ match.from[2] - 1 <= Len(h[match.from[1]].items)
      BY <3>1, <3>2 DEF Fits
    <3>4. match.from[1] = c /\ match.from[2] = o + 1 /\ match.from[2] - 1 = o
      BY <2>2
    <3> QED BY <3>3, <3>4
  <2>4. r[n] = insertText(h, match, letters)
    BY <1>9
  <2>5. /\ \A d \in DOMAIN h : d # c => r[n][d] = h[d]
        /\ r[n][c].kind = "p"
        /\ LettersOf(r[n][c].items)
             = Joined(Joined(Part(LettersOf(h[c].items), 1, o), letters),
                      Part(LettersOf(h[c].items), (o + m) + 1, Len(LettersOf(h[c].items))))
    <3>1. match.from[1] = c /\ match.from[2] = o + 1 /\ match.from[2] - 1 = o /\ match.to[2] = (o + m) + 1
      BY <2>2
    <3> DEFINE e == o + m
               x == insertText(h, match, letters)
    <3>2. e \in Nat /\ match.to[2] = e + 1
      BY <1>3, <3>1
    <3> HIDE DEF e, match, h, x
    <3>3. /\ \A d \in DOMAIN h : d # c => x[d] = h[d]
          /\ x[c].kind = "p"
          /\ LettersOf(x[c].items)
               = Joined(Joined(Part(LettersOf(h[c].items), 1, o), letters),
                        Part(LettersOf(h[c].items), e + 1, Len(LettersOf(h[c].items))))
      <4>1. /\ match.from[1] \in DOMAIN h /\ h[match.from[1]].kind = "p"
            /\ match.from[2] \in Nat \ {0} /\ match.from[2] - 1 <= Len(h[match.from[1]].items)
        BY <2>3, <3>1
      <4>2. LET b2 == match.from[1]
                a == match.from[2] - 1
                read == LettersOf(h[b2].items)
            IN  /\ \A d \in DOMAIN h : d # b2 => x[d] = h[d]
                /\ x[b2].kind = "p"
                /\ LettersOf(x[b2].items)
                     = Joined(Joined(Part(read, 1, a), letters), Part(read, e + 1, Len(read)))
        BY <2>3, <3>2, <4>1, RowInserted DEF x
      <4> QED BY <3>1, <4>2
    <3> QED BY <2>4, <3>3 DEF e, x
  <2>6. /\ h[b].kind = html[b].kind /\ b \in DOMAIN h
    BY <1>11, <2>3
  <2>7. PICK j \in 0 .. J : /\ ToCome(F, f, s, k, j)
                            /\ \E rest : RowDone(LettersOf(h[b].items), final, q, row, f, m, j, rest)
    BY <1>11, <2>1
  <2>8. PICK rest : RowDone(LettersOf(h[b].items), final, q, row, f, m, j, rest)
    BY <2>7
  <2>9. /\ (\A i \in 1 .. J : F[k] # s + f[i]) => ToCome(F, f, s, k - 1, j)
        /\ \A i \in 1 .. J : F[k] = s + f[i] => i = j /\ ToCome(F, f, s, k - 1, j - 1)
    <3>1. \A i \in 1 .. J : f[i] \in Nat
      BY <1>3
    <3> HIDE DEF F, f, s, P, k
    <3>2. /\ P \in Nat /\ \A p \in 1 .. P : F[p] \in Nat
          /\ \A p, i \in 1 .. P : p < i => F[p] < F[i]
      BY <1>1
    <3>3. /\ Len(f) \in Nat /\ \A i \in 1 .. Len(f) : f[i] \in Nat
          /\ \A i, d \in 1 .. Len(f) : i < d => f[i] < f[d]
      BY <1>3, <1>4, <3>1
    <3>4. s \in Nat /\ k \in 1 .. P /\ j \in 0 .. Len(f) /\ ToCome(F, f, s, k, j)
      BY <1>2, <2>1, <2>7
    <3> QED BY ONLY <3>2, <3>3, <3>4, NextToCome
  <2>10. CASE c # b
    <3>1. ASSUME NEW i \in 1 .. J PROVE F[k] # s + f[i]
      <4>1. f[i] \in Nat /\ f[i] < Width(html, b)
        <5> HIDE DEF f, J, N, m
        <5>1. f[i] \in Nat /\ f[i] + m <= N
          BY <1>3
        <5> QED BY <1>2, <1>3, <5>1
      <4>2. Start(html, c) + o # Start(html, b) + f[i]
        <5> DEFINE y == f[i]
        <5> HIDE DEF y
        <5>1. y \in Nat /\ y < Width(html, b)
          BY <4>1 DEF y
        <5>2. Start(html, c) + o = Start(html, b) + y => c = b
          BY <2>2, <5>1, RowUnique, SMTT(30)
        <5> QED BY <2>10, <5>2 DEF y
      <4> QED BY <2>2, <4>2
    <3>2. ToCome(F, f, s, P - n, j)
      BY <2>1, <2>9, <3>1
    <3>3. r[n][b] = h[b]
      BY <2>5, <2>6, <2>10
    <3> HIDE DEF F, f, s, final, row, m, J, h
    <3>4. r[n][b].kind = html[b].kind /\ n \in Nat
      BY <2>6, <3>3
    <3>5. RowDone(LettersOf(r[n][b].items), final, q, row, f, m, j, rest)
      BY <2>8, <3>3
    <3> HIDE DEF P
    <3> QED BY <3>2, <3>4, <3>5
  <2>11. CASE c = b
    <3>1. PICK i \in 1 .. J : f[i] = o
      <4>1. o < N /\ F[k] = s + o
        BY <1>2, <2>2, <2>11
      <4> HIDE DEF F, f, s, P, N, J, k
      <4> QED BY <1>5, <2>1, <4>1
    <3>2. i = j /\ ToCome(F, f, s, P - n, j - 1)
      <4>1. F[k] = s + f[i]
        BY <2>2, <2>11, <3>1
      <4> QED BY <2>1, <2>9, <3>1, <4>1
    <3>3. j \in 1 .. J /\ f[j] = o
      BY <3>1, <3>2
    <3> DEFINE read == LettersOf(h[b].items)
               then == Joined(Joined(Part(read, 1, f[j]), letters), Part(read, (f[j] + m) + 1, Len(read)))
    <3>4. \E next : RowDone(then, final, q, row, f, m, j - 1, next)
      <4> HIDE DEF read, final, row
      <4> QED BY <1>2, <1>6, <2>8, <3>3, RowNext DEF read
    <3>5. LettersOf(r[n][b].items) = then
      BY <2>5, <2>11, <3>3
    <3>6. r[n][b].kind = html[b].kind
      <4>1. html[b].kind = "p"
        <5>1. html[b].items # << >>
          <6>1. Width(html, b) # 0
            BY <1>2, <2>2, <2>11
          <6> QED BY <6>1, EmptySeq DEF Width
        <5> QED BY <5>1, PieceFacts
      <4> QED BY <2>5, <2>11, <4>1
    <3>7. j - 1 \in 0 .. J
      BY <1>3, <3>3
    <3> HIDE DEF F, f, s, final, row, m, J, then
    <3> QED BY <3>2, <3>4, <3>5, <3>6, <3>7
  <2> QED BY <2>10, <2>11
<1>12. P \in S
  <2> HIDE DEF S, P
  <2>1. \A n \in 0 .. P : n \in S
    BY <1>1, <1>10, <1>11, InductionUpTo
  <2> QED BY <1>1, <2>1
<1>13. PICK j \in 0 .. J : /\ ToCome(F, f, s, P - P, j)
                           /\ \E rest : RowDone(LettersOf(new[b].items), final, q, row, f, m, j, rest)
  BY <1>7, <1>12
<1>14. PICK rest : RowDone(LettersOf(new[b].items), final, q, row, f, m, j, rest)
  BY <1>13
<1>15. j = 0
  <2> SUFFICES ASSUME j # 0 PROVE FALSE
    OBVIOUS
  <2>1. j \in 1 .. J /\ j <= j /\ P - P = 0
    BY <1>1, <1>3
  <2>2. \E p \in 1 .. 0 : F[p] = s + f[j]
    BY <1>13, <2>1 DEF ToCome
  <2> QED BY <2>2
<1>16. final = LettersOf(new[b].items)
  <2> HIDE DEF new, final, row
  <2> DEFINE c == Cut(f, N, 0)
             u == Part(row, 1, c)
  <2>1. c \in Nat /\ 0 <= c /\ c <= N
    <3>1. 0 \in 0 .. J
      BY <1>3
    <3> QED BY <1>2, <3>1, FoundPlaces
  <2>2. u \in Seq(Letter)
    <3> HIDE DEF c
    <3> QED BY <1>2, <2>1, PartTyped
  <2>3. Past(f, m, 0) + 1 = 1 /\ q[0] = << >>
    BY <1>6 DEF Past, ToldSteps
  <2>4. Joined(<< >>, u) = u
    <3> HIDE DEF u
    <3> QED BY <2>2, WholeList
  <2>5. LettersOf(new[b].items) = Joined(u, rest)
    BY <1>15, <1>14 DEF RowDone
  <2>6. final = Joined(Joined(q[0], Part(row, Past(f, m, 0) + 1, c)), rest)
    BY <1>15, <1>14 DEF RowDone
  <2> QED BY <2>3, <2>4, <2>5, <2>6
<1>17. new[b].kind = html[b].kind
  BY <1>7, <1>12
<1> QED BY <1>16, <1>17

(* Every paragraph of the document, and no other block.                      *)
LEMMA ReplacedExactly ==
  ASSUME NEW html \in Seq(Pieces), Plain(html), NEW word \in Seq(Letter), NEW letters \in Seq(Letter)
  PROVE  LET new == searchReplaceAll(html, computeMatches(html, word), letters)
         IN  /\ Len(new) = Len(html)
             /\ \A b \in DOMAIN new :
                  /\ new[b].kind = html[b].kind
                  /\ LettersOf(new[b].items) = TextReplaced(LettersOf(html[b].items), word, letters)
<1> DEFINE ms == computeMatches(html, word)
           new == searchReplaceAll(html, ms, letters)
           P == Len(ms)
<1>1. LegalMatches(html, ms) /\ P \in Nat
  BY MatchesLegal DEF LegalMatches
<1>2. PICK r : ReplacedSteps(r, P, Reverse(ms), html, letters) /\ r[P] = new
  BY <1>1, ReplaceTyped
<1>3. Fits(html, ms, new, P)
  <2>1. \A n \in 0 .. P : Fits(html, ms, r[n], n)
    BY <1>1, <1>2, ReplaceFits
  <2>2. P \in 0 .. P
    BY <1>1
  <2> HIDE DEF P
  <2> QED BY <1>2, <2>1, <2>2
<1>4. new \in Seq(Pieces) /\ DOMAIN new = DOMAIN html
  BY <1>3 DEF Fits
<1>5. Len(new) = Len(html)
  <2> HIDE DEF new
  <2>1. Len(new) \in Nat /\ DOMAIN new = 1 .. Len(new)
    BY <1>4, LenProperties
  <2>2. Len(html) \in Nat /\ DOMAIN html = 1 .. Len(html)
    BY LenProperties
  <2> DEFINE a == Len(new)
             d == Len(html)
  <2>3. a \in Nat /\ d \in Nat /\ 1 .. a = 1 .. d
    BY <1>4, <2>1, <2>2
  <2> HIDE DEF a, d
  <2>4. a = d
    <3>1. ASSUME a < d PROVE FALSE
      <4>1. d \in 1 .. d /\ d \notin 1 .. a
        BY <2>3, <3>1
      <4> QED BY <2>3, <4>1
    <3>2. ASSUME d < a PROVE FALSE
      <4>1. a \in 1 .. a /\ a \notin 1 .. d
        BY <2>3, <3>2
      <4> QED BY <2>3, <4>1
    <3> QED BY <2>3, <3>1, <3>2
  <2> QED BY <2>4 DEF a, d
<1>6. CASE word = << >>
  <2>1. ms = << >>
    BY <1>6, MatchesList
  <2>2. P = 0
    BY <2>1, EmptySeq
  <2>3. new = html
    BY <1>2, <2>2 DEF ReplacedSteps
  <2>4. \A text : TextReplaced(text, word, letters) = text
    BY <1>6 DEF TextReplaced, Found
  <2> HIDE DEF new
  <2> QED BY <1>5, <2>3, <2>4 DEF new
<1>7. CASE word # << >>
  <2>1. ASSUME NEW b \in DOMAIN html
        PROVE  /\ new[b].kind = html[b].kind
               /\ LettersOf(new[b].items) = TextReplaced(LettersOf(html[b].items), word, letters)
    BY <1>7, RowReplaced DEF Row
  <2> HIDE DEF new
  <2> QED BY <1>4, <1>5, <2>1 DEF new
<1> QED BY <1>6, <1>7

(* What the invariant says of a state without steps.                         *)
LEMMA EditorKeeps == EditorInv => EditorKeepsDocument
<1> SUFFICES ASSUME EditorInv PROVE EditorKeepsDocument
  OBVIOUS
<1>1. CopyIsTheDocument
  <2>1. CASE view = "source"
    <3>1. Live = source /\ source \in Seq(Pieces) /\ Whole(source) = Whole(ours)
      BY <2>1 DEF Live, EditorInv
    <3> QED BY <3>1, CopyOf DEF CopyIsTheDocument, buildCopyHtml
  <2>2. CASE view = "wysiwyg"
    <3>1. Live = wysiwyg /\ wysiwyg \in Seq(Pieces) /\ Whole(wysiwyg) = Whole(ours)
      BY <2>2 DEF Live, EditorInv
    <3> QED BY <3>1, CopyOf DEF CopyIsTheDocument, buildCopyHtml
  <2>3. CASE view = "paste"
    BY <2>3 DEF CopyIsTheDocument
  <2> QED BY <2>1, <2>2, <2>3 DEF EditorInv
<1>2. SearchIsFresh
  <2>1. CASE view = "wysiwyg"
    <3>1. Fresh(plugin, wysiwyg, lastQuery.search) /\ counter = CountOf(plugin)
      BY <2>1 DEF EditorInv
    <3>2. plugin.matches = computeMatches(wysiwyg, lastQuery.search)
      BY <3>1 DEF Fresh
    <3>3. IF plugin.matches = << >> THEN plugin.index = 0 ELSE plugin.index \in DOMAIN plugin.matches
      BY <3>1 DEF Fresh
    <3> QED BY <2>1, <3>1, <3>2, <3>3 DEF SearchIsFresh
  <2>2. CASE view = "source"
    BY <2>2 DEF EditorInv, SearchIsFresh
  <2>3. CASE view = "paste"
    BY <2>3 DEF SearchIsFresh
  <2> QED BY <2>1, <2>2, <2>3 DEF EditorInv
<1>3. ReplaceAllIsExact
  <2> SUFFICES ASSUME view = "wysiwyg", Plain(wysiwyg)
               PROVE  LET new == searchReplaceAll(wysiwyg, plugin.matches, lastQuery.replace)
                      IN  /\ Len(new) = Len(wysiwyg)
                          /\ \A b \in DOMAIN new :
                               /\ new[b].kind = wysiwyg[b].kind
                               /\ LettersOf(new[b].items) =
                                    TextReplaced(LettersOf(wysiwyg[b].items), plugin.word, lastQuery.replace)
    BY DEF ReplaceAllIsExact, Plain
  <2> DEFINE word == lastQuery.search
             letters == lastQuery.replace
             html == wysiwyg
  <2>1. html \in Seq(Pieces) /\ word \in Seq(Letter) /\ letters \in Seq(Letter)
    BY QueryLetters DEF EditorInv
  <2>2. Fresh(plugin, html, word)
    BY DEF EditorInv
  <2>3. plugin.matches = computeMatches(html, word) /\ plugin.word = word
    BY <2>2 DEF Fresh
  <2>4. Plain(html)
    OBVIOUS
  <2> HIDE DEF word, letters, html
  <2>5. LET new == searchReplaceAll(html, computeMatches(html, word), letters)
        IN  /\ Len(new) = Len(html)
            /\ \A b \in DOMAIN new :
                 /\ new[b].kind = html[b].kind
                 /\ LettersOf(new[b].items) = TextReplaced(LettersOf(html[b].items), word, letters)
    BY <2>1, <2>4, ReplacedExactly
  <2> QED BY <2>3, <2>5 DEF html, letters
<1> QED BY <1>1, <1>2, <1>3 DEF EditorKeepsDocument

(* The editor gives back the document it shows, its search is about that     *)
(* document, and Replace All changes the word in every paragraph and nothing *)
(* else: in every state, whatever is pasted, typed, searched and replaced.   *)
THEOREM EditorKeepsItsDocument == EditorSpec => []EditorKeepsDocument
<1>1. EditorSpec => []EditorInv
  BY EditorInvariance
<1>2. EditorInv => EditorKeepsDocument
  BY EditorKeeps
<1> QED BY <1>1, <1>2, PTL
=============================================================================

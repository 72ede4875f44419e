---------------------------- MODULE ComposerUploads ----------------------------
(***************************************************************************)
(* Attaching pictures: the composer (studio-composer.component.ts) ingests   *)
(* and uploads each file at once (image-ingest.ts), the upload route retries *)
(* (handlers.js, retry-loop.js), and the provider's uploadFile (gemini.js)   *)
(* races the SDK call against a timer and the client's abort.  Meanwhile the *)
(* user attaches, removes, sends, and shows other sessions.                  *)
(***************************************************************************)
EXTENDS Naturals, FiniteSets

CONSTANTS
  Session,     \* the sessions of the studio
  Att,         \* attachment ids, each given out once
  MaxUploads,  \* MAX_UPLOADS
  Retries,     \* RETRY_DELAYS_MS: attempts after the first
  MaxCalls,    \* bound: SDK calls for one attachment
  MaxSends,    \* bound: messages sent
  NoFile       \* no file at the provider

ASSUME UploadAssumption ==
  /\ IsFiniteSet(Att) /\ MaxUploads \in Nat /\ Retries \in Nat
  /\ MaxCalls \in Nat /\ MaxSends \in Nat

VARIABLES
  shown,      \* the current session
  drafts,     \* the attachments in each session's draft: id -> state and file
  originals,  \* the attachments whose bytes the composer keeps
  retryable,  \* the attachments that offer Retry
  ingest,     \* where each attachment's ingest is
  sdk,        \* SDK calls under way
  files,      \* the files the provider has
  call,       \* the generation under way, with the draft it was sent with
  given,      \* the ids given out
  sends       \* messages sent

clientVars == <<shown, drafts, originals, retryable, call, given, sends>>
uploadVars == <<shown, drafts, originals, retryable, ingest, sdk, files, call, given, sends>>

File == Att \X (1..MaxCalls)
Entry == [state : {"uploading", "ready", "failed"}, file : File \union {NoFile}]
Uploading == [state |-> "uploading", file |-> NoFile]
NoDraft == [a \in {} |-> Uploading]
NoCall == [session |-> NoFile, draft |-> NoDraft]

Draft == drafts[shown]
Busy == call # NoCall

Attempt(a) == <<a, ingest[a].calls>>

Without(f, a) == [x \in DOMAIN f \ {a} |-> f[x]]
Alter(f, a, e) == [x \in DOMAIN f |-> IF x = a THEN e ELSE f[x]]
Plus(f, a, e) == [x \in DOMAIN f \union {a} |-> IF x = a THEN e ELSE f[x]]

(* The composer's effect: what left the shown draft is forgotten. *)
Forget(live) ==
  /\ originals' = originals \intersect live
  /\ retryable' = retryable \intersect live

SetDraft(f) == drafts' = [drafts EXCEPT ![shown] = f] /\ Forget(DOMAIN f)

(* Mutant of MayAttach: uploads under way are not counted. *)
MayAttachReady(f) == Cardinality({a \in DOMAIN f : f[a].state # "uploading"}) < MaxUploads

(* canAttachUpload *)
MayAttach(f) == Cardinality(DOMAIN f) < MaxUploads
-----------------------------------------------------------------------------
UploadInit ==
  /\ shown \in Session /\ drafts = [s \in Session |-> NoDraft]
  /\ originals = {} /\ retryable = {} /\ sdk = {} /\ files = {} /\ given = {} /\ sends = 0
  /\ ingest = [a \in Att |-> [at |-> "idle", session |-> shown, calls |-> 0, left |-> 0]]
  /\ call = NoCall

(* attachFiles: a thumbnail is reserved at once, then the ingest starts. *)
Attach(a) ==
  /\ a \notin given /\ ~Busy /\ MayAttach(Draft)
  /\ given' = given \union {a}
  /\ SetDraft(Plus(Draft, a, Uploading))
  /\ ingest' = [ingest EXCEPT ![a].at = "reading", ![a].session = shown]
  /\ UNCHANGED <<shown, sdk, files, call, sends>>

(* The bytes are read; the picture must pass the type, size and encoder checks. *)
Read(a) ==
  /\ ingest[a].at = "reading"
  /\ originals' = originals \union {a}
  /\ ingest' = [ingest EXCEPT ![a].at = "checking"]
  /\ UNCHANGED <<shown, drafts, retryable, sdk, files, call, given, sends>>

Refused(a) ==
  /\ ingest[a].at \in {"reading", "checking"}
  /\ ingest' = [ingest EXCEPT ![a].at = "idle"]
  /\ IF shown = ingest[a].session THEN SetDraft(Without(Draft, a))
                                  ELSE UNCHANGED <<drafts, originals, retryable>>
  /\ UNCHANGED <<shown, sdk, files, call, given, sends>>

(* The route's next attempt, first or repeated, starts an SDK call. *)
Upload(a) ==
  /\ ingest[a].at \in {"checking", "waiting"} /\ ingest[a].calls < MaxCalls
  /\ ingest' = [ingest EXCEPT ![a].at = "upload", ![a].calls = @ + 1,
                 ![a].left = IF ingest[a].at = "checking" THEN Retries ELSE @ - 1]
  /\ sdk' = sdk \union {<<a, ingest[a].calls + 1>>}
  /\ UNCHANGED <<clientVars, files>>

(* An attempt failed: the route waits, or answers and the attachment fails. *)
AttemptFails(a, retry) ==
  IF retry /\ ingest[a].left > 0
  THEN /\ ingest' = [ingest EXCEPT ![a].at = "waiting"]
       /\ UNCHANGED <<drafts, originals, retryable>>
  ELSE /\ ingest' = [ingest EXCEPT ![a].at = "idle"]
       /\ IF shown = ingest[a].session /\ a \in DOMAIN Draft
          THEN /\ drafts' = [drafts EXCEPT ![shown] =
                               Alter(Draft, a, [Draft[a] EXCEPT !.state = "failed"])]
               /\ retryable' = IF retry THEN retryable \union {a} ELSE retryable
               /\ UNCHANGED originals
          ELSE UNCHANGED <<drafts, originals, retryable>>

(* Mutant of Lost: the timer ends the attempt without marking the race as lost. *)
LostNever(a, n) == FALSE

(* raceLost of the n-th call for a: its attempt is over. *)
Lost(a, n) == ~(ingest[a].at = "upload" /\ ingest[a].calls = n)

(* The SDK has the file: it answers the attempt, or is deleted if the race was *)
(* lost (a deletion that fails, which the code allows, is left out).            *)
SdkUploads(a, n) ==
  /\ <<a, n>> \in sdk
  /\ sdk' = sdk \ {<<a, n>>}
  /\ IF Lost(a, n)
     THEN UNCHANGED <<files, ingest>>
     ELSE /\ files' = files \union {<<a, n>>}
          /\ ingest' = IF ingest[a].at = "upload" /\ ingest[a].calls = n
                       THEN [ingest EXCEPT ![a].at = "storing"] ELSE ingest
  /\ UNCHANGED clientVars

SdkFails(a, n) ==
  /\ <<a, n>> \in sdk
  /\ sdk' = sdk \ {<<a, n>>}
  /\ IF Lost(a, n) THEN UNCHANGED <<ingest, drafts, originals, retryable>>
     ELSE \E retry \in BOOLEAN : AttemptFails(a, retry)
  /\ UNCHANGED <<shown, files, call, given, sends>>

(* UPSTREAM_TIMEOUT_MS: the attempt ends, the SDK call goes on. *)
TimesOut(a) ==
  /\ ingest[a].at = "upload"
  /\ AttemptFails(a, TRUE)
  /\ UNCHANGED <<shown, sdk, files, call, given, sends>>

(* The sent bytes are stored, or not, and the attachment is ready. *)
Stored(a) ==
  /\ ingest[a].at = "storing"
  /\ ingest' = [ingest EXCEPT ![a].at = "idle"]
  /\ drafts' = IF shown = ingest[a].session /\ a \in DOMAIN Draft
               THEN [drafts EXCEPT ![shown] =
                       Alter(Draft, a, [state |-> "ready", file |-> Attempt(a)])]
               ELSE drafts
  /\ UNCHANGED <<shown, originals, retryable, sdk, files, call, given, sends>>

(* Retry runs the whole ingest again, from the bytes the composer kept. *)
RetryAttachment(a) ==
  /\ a \in DOMAIN Draft /\ Draft[a].state = "failed"
  /\ a \in retryable /\ a \in originals
  /\ drafts' = [drafts EXCEPT ![shown] = Alter(Draft, a, Uploading)]
  /\ retryable' = retryable \ {a}
  /\ ingest' = [ingest EXCEPT ![a].at = "checking", ![a].session = shown]
  /\ UNCHANGED <<shown, originals, sdk, files, call, given, sends>>

RemoveAttachment(a) ==
  /\ ~Busy /\ a \in DOMAIN Draft
  /\ SetDraft(Without(Draft, a))
  /\ UNCHANGED <<shown, ingest, sdk, files, call, given, sends>>

Show(s) ==
  /\ s # shown /\ shown' = s
  /\ Forget(DOMAIN drafts[s])
  /\ UNCHANGED <<drafts, ingest, sdk, files, call, given, sends>>

(* store.send: the draft is cleared, and kept for a failure. *)
Sends ==
  /\ ~Busy /\ sends < MaxSends
  /\ sends' = sends + 1
  /\ call' = [session |-> shown, draft |-> Draft]
  /\ SetDraft(NoDraft)
  /\ UNCHANGED <<shown, ingest, sdk, files, given>>

(* The Send button waits for the uploads, a quick-edit chip does not. *)
Send == (\A a \in DOMAIN Draft : Draft[a].state # "uploading") /\ Sends
SendChip == Sends

(* The call ends; a failure gives the whole draft back. *)
CallEnds ==
  /\ Busy /\ call' = NoCall
  /\ \/ UNCHANGED <<drafts, originals, retryable>>
     \/ /\ drafts' = [drafts EXCEPT ![call.session] = call.draft]
        /\ IF call.session = shown THEN Forget(DOMAIN call.draft)
                                   ELSE UNCHANGED <<originals, retryable>>
  /\ UNCHANGED <<shown, ingest, sdk, files, given, sends>>

UploadNext ==
  \/ \E a \in Att :
       \/ Attach(a) \/ Read(a) \/ Refused(a) \/ Upload(a) \/ TimesOut(a) \/ Stored(a)
       \/ RetryAttachment(a) \/ RemoveAttachment(a)
       \/ \E n \in 1..MaxCalls : SdkUploads(a, n) \/ SdkFails(a, n)
  \/ \E s \in Session : Show(s)
  \/ Send \/ SendChip \/ CallEnds

UploadSpec == UploadInit /\ [][UploadNext]_uploadVars
-----------------------------------------------------------------------------
(* FR-10: no draft ever holds more uploads than one message may carry, also     *)
(* when a failed send gives its attachments back.                               *)
UploadsBounded ==
  \A s \in Session : Cardinality(DOMAIN drafts[s]) <= MaxUploads

(* uploadFile: "the Files API keeps no orphan": every file the provider has came *)
(* of the last attempt for its attachment, the one that was answered, however    *)
(* attempts time out, repeat and finish late.                                    *)
NoOrphanFiles ==
  \A f \in files : f = Attempt(f[1]) /\ ingest[f[1]].at \in {"storing", "idle"}

(* A ready attachment names a file the provider has.                             *)
ReadyFileLives ==
  \A s \in Session : \A a \in DOMAIN drafts[s] :
    drafts[s][a].state = "ready" => drafts[s][a].file \in files

(* Files and attachments account for each other: no file without its last        *)
(* attempt, no ready attachment without its file.                                *)
FilesAreAccounted == NoOrphanFiles /\ ReadyFileLives

(* "The user's bytes by attachment id, kept so a Retry can run the whole ingest  *)
(* again": an attachment that offers Retry has its bytes.                        *)
RetryHasBytes == retryable \subseteq originals

(* FR-18: the attachments of a message are all uploaded when it is sent.         *)
SendWaits ==
  [][~Busy /\ Busy' => \A a \in DOMAIN Draft : Draft[a].state # "uploading"]_uploadVars
=============================================================================

---------------------------- MODULE ImageUploads ----------------------------
(***************************************************************************)
(* The images of the generator form (app.component.ts): added, removed and   *)
(* captioned by the user while analyzeGenImages() asks a vision model about  *)
(* them, three at a time.  The entries live in a list that every step reads  *)
(* anew; a step of the analysis knows its entry as it was when it began.     *)
(***************************************************************************)
EXTENDS Lists

CONSTANTS Image,        \* the files the user may add; each addition is a new id
          Concurrency,  \* 3 in the code
          MaxTyped      \* bound on the captions the user types

ASSUME ImageAssumption == Concurrency \in Nat \ {0} /\ MaxTyped \in Nat

VARIABLES manifest,   \* genImgManifest: a sequence of [id, status, alt, order]
          fileMap,    \* genImgFileMap: the ids whose file is kept
          added,      \* the ids given out
          visionRun,  \* isVisionAnalyzing
          queue,      \* entries of this run still to come, as they were at its start
          work,       \* what the workers of this batch wait for: id -> "read", "ask", "again"
          answered,   \* visionAnalyzedCount
          typedAlt,   \* the captions the user typed
          typings     \* how often

imageVars == <<manifest, fileMap, added, visionRun, queue, work, answered, typedAlt, typings>>

ImageInit ==
  /\ manifest = << >> /\ fileMap = {} /\ added = {} /\ visionRun = FALSE
  /\ queue = << >> /\ work = << >> /\ answered = 0 /\ typedAlt = << >> /\ typings = 0

Ids == {manifest[k].id : k \in DOMAIN manifest}

Renumber(list) == [k \in DOMAIN list |-> [list[k] EXCEPT !.order = k]]

(* addGenImgFiles                                                            *)
AddImage(id) ==
  /\ id \notin added
  /\ added' = added \union {id} /\ fileMap' = fileMap \union {id}
  /\ manifest' = Append(manifest, [id |-> id, status |-> "pending", alt |-> "",
                                   order |-> Len(manifest) + 1])
  /\ UNCHANGED <<visionRun, queue, work, answered, typedAlt, typings>>

(* removeGenImg: a removed entry's worker goes on and finds nothing to       *)
(* update.                                                                   *)
RemoveImage(id) ==
  /\ id \in Ids /\ fileMap' = fileMap \ {id}
  /\ manifest' = Renumber(Filtered(manifest, {k \in DOMAIN manifest : manifest[k].id # id}))
  /\ UNCHANGED <<added, visionRun, queue, work, answered, typedAlt, typings>>

(* clearGenImgManifest: also part of clearAll() of the generator.            *)
ClearImages ==
  /\ manifest # << >> /\ manifest' = << >> /\ fileMap' = {}
  /\ UNCHANGED <<added, visionRun, queue, work, answered, typedAlt, typings>>

(* updateGenAltText: an emptied caption counts as none.                      *)
TypeAlt(id, text) ==
  /\ id \in Ids /\ typings < MaxTyped /\ typings' = typings + 1
  /\ manifest' = [k \in DOMAIN manifest |->
                    IF manifest[k].id = id THEN [manifest[k] EXCEPT !.alt = text] ELSE manifest[k]]
  /\ typedAlt' = [i \in DOMAIN typedAlt \union {id} |-> IF i = id THEN text ELSE typedAlt[i]]
  /\ UNCHANGED <<fileMap, added, visionRun, queue, work, answered>>

Pending == Filtered(manifest, {k \in DOMAIN manifest : manifest[k].status = "pending"})

(* Mutant of Caption: the caption is that of the entry as it was when the    *)
(* analysis began.                                                           *)
CaptionAtStart(e, was, text) == IF was.alt # "" THEN was.alt ELSE text

(* A caption of the model or of the file name never replaces one that is     *)
(* there when the answer arrives.                                            *)
Caption(e, was, text) == IF e.alt # "" THEN e.alt ELSE text

(* The entry e after the answer for it: an entry is looked up by its id.     *)
Answer(e, was, status, text) ==
  IF e.id # was.id THEN e ELSE [e EXCEPT !.status = status, !.alt = Caption(e, was, text)]

(* The callback for the entry e up to its first await: the entry becomes     *)
(* "analyzing", or fails at once when its file is gone.                      *)
Begun(e, was) ==
  IF e.id \in fileMap THEN [e EXCEPT !.status = "analyzing"]
  ELSE Answer(e, was, "error", "name")

StartBatch(list, entries, counted) ==
  LET n == IF Len(entries) < Concurrency THEN Len(entries) ELSE Concurrency
      batch == {entries[k] : k \in 1 .. n}
      able == {e \in batch : e.id \in fileMap}
      asked(e) == {was \in batch : was.id = e.id}
  IN  /\ manifest' = [k \in DOMAIN list |->
                        IF asked(list[k]) = {} THEN list[k]
                        ELSE Begun(list[k], CHOOSE was \in asked(list[k]) : TRUE)]
      /\ work' = [e \in able |-> "read"]
      /\ queue' = SubSeq(entries, n + 1, Len(entries))
      /\ answered' = counted + Cardinality(batch \ able)

(* analyzeGenImages                                                          *)
Analyze ==
  /\ Pending # << >> /\ ~visionRun
  /\ visionRun' = TRUE
  /\ StartBatch(manifest, Pending, 0)
  /\ UNCHANGED <<fileMap, added, typedAlt, typings>>

(* The file is read, and the model asked.                                    *)
ReadImage(e) ==
  /\ e \in DOMAIN work /\ work[e] = "read" /\ work' = [work EXCEPT ![e] = "ask"]
  /\ UNCHANGED <<manifest, fileMap, added, visionRun, queue, answered, typedAlt, typings>>

(* A caption that is too long is asked for once more.                        *)
AskAgain(e) ==
  /\ e \in DOMAIN work /\ work[e] = "ask" /\ work' = [work EXCEPT ![e] = "again"]
  /\ UNCHANGED <<manifest, fileMap, added, visionRun, queue, answered, typedAlt, typings>>

(* The worker ends: with the model's caption, or, after any failure, with    *)
(* one made of the file name.                                                *)
EndImage(e, status, text) ==
  /\ e \in DOMAIN work /\ (status = "done" => work[e] \in {"ask", "again"})
  /\ manifest' = [k \in DOMAIN manifest |-> Answer(manifest[k], e, status, text)]
  /\ work' = [f \in DOMAIN work \ {e} |-> work[f]] /\ answered' = answered + 1
  /\ UNCHANGED <<fileMap, added, visionRun, queue, typedAlt, typings>>

(* All of the batch have ended: the next batch, or the end of the run.       *)
NextBatch ==
  /\ visionRun /\ DOMAIN work = {}
  /\ IF queue # << >> THEN StartBatch(manifest, queue, answered) /\ UNCHANGED visionRun
     ELSE visionRun' = FALSE /\ UNCHANGED <<manifest, work, queue, answered>>
  /\ UNCHANGED <<fileMap, added, typedAlt, typings>>

ImageNext ==
  \/ \E id \in Image : AddImage(id) \/ RemoveImage(id) \/ TypeAlt(id, "typed") \/ TypeAlt(id, "")
  \/ ClearImages \/ Analyze \/ NextBatch
  \/ \E e \in DOMAIN work : \/ ReadImage(e) \/ AskAgain(e)
                            \/ EndImage(e, "done", "caption") \/ EndImage(e, "error", "name")

ImageSpec == ImageInit /\ [][ImageNext]_imageVars
-----------------------------------------------------------------------------
(* A caption the user typed stays, whatever the answers of an analysis that  *)
(* began before say, until the user changes it.                              *)
TypedAltKept ==
  \A k \in DOMAIN manifest :
    LET e == manifest[k]
    IN  e.id \in DOMAIN typedAlt /\ typedAlt[e.id] # "" => e.alt = typedAlt[e.id]

(* The list, the captions and numbers in it, the files kept for it and the   *)
(* analysis agree, whatever is added, removed, captioned or cleared while    *)
(* the answers come in: typed captions stay, numbers are places, every entry *)
(* has its file, an entry is being analyzed exactly while a worker is at it, *)
(* and never more workers than the concurrency allows are.                   *)
ImagesAgree ==
  /\ TypedAltKept
  /\ \A k \in DOMAIN manifest : manifest[k].order = k
  /\ fileMap = Ids
  /\ \A k \in DOMAIN manifest :
       manifest[k].status = "analyzing" <=> \E e \in DOMAIN work : e.id = manifest[k].id
  /\ Cardinality(DOMAIN work) <= Concurrency
=============================================================================

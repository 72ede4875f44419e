---------------------- MODULE ContentOrchestratorProofs ----------------------
(***************************************************************************)
(* Proofs about ContentOrchestrator for any products, languages, runs and    *)
(* interference: what the flag says, that the export stays guarded, that     *)
(* entries are saved whole and that what was found is shown.                 *)
(***************************************************************************)
EXTENDS ContentOrchestrator, SequenceTheorems, TLAPS

Content == [Part -> Piece \union {None}]
Todo == Seq(Part \union {Tool})
Run == [kind : Kinds, of : Product, todo : Todo, names : Product \union {None}, calm : BOOLEAN]
Entry == [run : Nat, of : Product, kind : Kinds, calm : BOOLEAN, output : Content]

Types ==
  /\ content \in Content /\ runs \in Seq(Run) /\ history \in Seq(Entry)
  /\ busy \in BOOLEAN /\ fetching \in Nat

(* A run nobody interfered with is alone, and the flag is its own.           *)
Alone == \A i \in Running : runs[i].calm => busy /\ Running = {i}

Lit == busy => Running # {} \/ fetching > 0

(* What a gate reported of a description c[Main] it could not verify.        *)
Guarded(c, rep) ==
  c[Main] # None /\ "grounding" \in c[Main].found => \E r \in rep : r[3] = "grounding"

OrchestratorInv == Types /\ Alone /\ Lit /\ (Latest # {} => Guarded(content, report))

LEMMA Parts == Main \in Part /\ Seo \in Part /\ Slug \in Part /\ Faq \in Part
               /\ Main # Seo /\ Main # Slug /\ Main # Faq
BY DEF Main, Seo, Slug, Faq, Part, Locale

LEMMA EmptyContent == Empty \in Content /\ Empty[Main] = None /\ Empty[Slug] = None
BY Parts DEF Empty, Content

(* A plan has something to do.                                               *)
LEMMA PlanStarts ==
  ASSUME NEW kind \in Kinds, NEW reused \in BOOLEAN, NEW supplement \in BOOLEAN
  PROVE  Plan(kind, reused, supplement) \in Todo /\ Plan(kind, reused, supplement) # << >>
<1>1. \A k \in {"html", "faq"} : Of(k) \in Todo
  <2> SUFFICES ASSUME NEW k \in {"html", "faq"} PROVE Of(k) \in Todo
    OBVIOUS
  <2>1. Len(Langs) \in Nat /\ DOMAIN Langs = 1..Len(Langs)
    BY OrchestratorAssumption
  <2>2. \A n \in 1..Len(Langs) : <<k, Langs[n]>> \in Part \union {Tool}
    BY <2>1 DEF Part, Locale
  <2> QED
    BY <2>1, <2>2, IsASeq DEF Of, Todo
<1>2. <<Main>> \in Todo /\ <<Slug>> \in Todo /\ <<Seo>> \in Todo /\ <<Faq>> \in Todo
      /\ <<Tool>> \in Todo /\ << >> \in Todo
  BY Parts DEF Todo
<1>3. \A s, t \in Todo : s \o t \in Todo /\ Len(s \o t) = Len(s) + Len(t)
  BY ConcatProperties DEF Todo
<1>4. \A s \in Todo : Len(s) \in Nat /\ (s = << >> <=> Len(s) = 0)
  BY EmptySeq, LenProperties DEF Todo
<1>5. Len(<<Main>>) = 1 /\ Len(<<Slug>>) = 1 /\ Len(<<Seo>>) = 1 /\ Len(<<Faq>>) = 1
      /\ Len(<<Tool>>) = 1
  OBVIOUS
<1>6. Faqs \in Todo /\ Faqs # << >>
  <2>1. Faqs \in Todo /\ Len(Faqs) = 1 + Len(Of("faq"))
    BY <1>1, <1>2, <1>3, <1>5 DEF Faqs
  <2> QED
    BY <1>1, <1>4, <2>1
<1> DEFINE faqs == IF supplement THEN Faqs ELSE << >>
           slug == IF reused THEN << >> ELSE <<Slug>>
           full == <<Main>> \o slug \o <<Seo>> \o Of("html") \o faqs
           ua == <<Main, Slug, Seo>> \o faqs
<1>7. faqs \in Todo /\ slug \in Todo
  BY <1>2, <1>6
<1>8. full \in Todo /\ full # << >>
  <2> HIDE DEF faqs, slug
  <2>1. <<Main>> \o slug \in Todo /\ Len(<<Main>> \o slug) >= 1
    BY <1>2, <1>3, <1>4, <1>5, <1>7
  <2>2. <<Main>> \o slug \o <<Seo>> \in Todo /\ Len(<<Main>> \o slug \o <<Seo>>) >= 1
    BY <1>2, <1>3, <1>4, <1>5, <2>1
  <2>3. <<Main>> \o slug \o <<Seo>> \o Of("html") \in Todo
        /\ Len(<<Main>> \o slug \o <<Seo>> \o Of("html")) >= 1
    BY <1>1, <1>3, <1>4, <2>2
  <2>4. full \in Todo /\ Len(full) >= 1
    BY <1>3, <1>4, <1>7, <2>3
  <2> QED
    BY <2>4, <1>4
<1>9. ua \in Todo /\ ua # << >>
  <2> HIDE DEF faqs
  <2>1. <<Main, Slug, Seo>> \in Todo /\ Len(<<Main, Slug, Seo>>) = 3
    BY Parts DEF Todo
  <2>2. ua \in Todo /\ Len(ua) >= 1
    BY <1>3, <1>4, <1>7, <2>1
  <2> QED
    BY <2>2, <1>4
<1> HIDE DEF full, ua, faqs, slug
<1>10. CASE kind = "full"
  BY <1>8, <1>10 DEF Plan, full, faqs, slug
<1>11. CASE kind = "ua"
  BY <1>9, <1>11 DEF Plan, ua, faqs
<1>12. CASE kind \in {"seo", "slug", "faq", "tool"}
  BY <1>2, <1>4, <1>5, <1>6, <1>12 DEF Plan
<1> QED
  BY <1>10, <1>11, <1>12 DEF Kinds

(* The newest entry joins a history that is cut to its limit.                *)
LEMMA AddType ==
  ASSUME NEW h \in Seq(Entry), NEW e \in Entry
  PROVE  Add(h, e) \in Seq(Entry)
<1> DEFINE rest == IF Len(h) < MaxHistory THEN h ELSE SubSeq(h, 1, MaxHistory - 1)
<1>1. rest \in Seq(Entry)
  <2>1. CASE Len(h) < MaxHistory
    BY <2>1
  <2>2. CASE ~(Len(h) < MaxHistory)
    <3>1. MaxHistory \in Nat /\ Len(h) \in Nat /\ \A n \in 1..Len(h) : h[n] \in Entry
      BY OrchestratorAssumption
    <3>2. \A n \in 1..MaxHistory - 1 : h[n] \in Entry
      BY <2>2, <3>1
    <3>3. SubSeq(h, 1, MaxHistory - 1) \in Seq(Entry)
      BY <3>1, <3>2, SubSeqProperties
    <3> QED
      BY <2>2, <3>3
  <2> QED
    BY <2>1, <2>2
<1>2. <<e>> \in Seq(Entry)
  OBVIOUS
<1> HIDE DEF rest
<1>3. <<e>> \o rest \in Seq(Entry)
  BY <1>1, <1>2, ConcatProperties
<1> QED
  BY <1>3 DEF Add, rest

(* A step of run i about one part of its plan: what is left to show.         *)
LEMMA PartStep ==
  ASSUME OrchestratorInv, NEW i \in DOMAIN runs, Active(i), fetching' = fetching,
         NEW c \in Content, NEW rest, NEW found, Proceed(i, rest, c, found),
         NEW r \in Run, r.todo = rest, r.kind = runs[i].kind, r.calm = runs[i].calm,
         runs' = [runs EXCEPT ![i] = r],
         report \subseteq report',
         c[Main] = content[Main] \/ Guarded(c, report')
  PROVE  OrchestratorInv'
<1>1. runs[i] \in Run /\ Len(runs) \in Nat /\ DOMAIN runs = 1..Len(runs) /\ runs \in Seq(Run)
  BY DEF OrchestratorInv, Types
<1>3. /\ runs' \in Seq(Run) /\ DOMAIN runs' = DOMAIN runs
      /\ \A j \in DOMAIN runs : runs'[j] = IF j = i THEN r ELSE runs[j]
  BY <1>1, ExceptSeq
<1>4. content' = c /\ busy' = (rest # << >> /\ busy)
  BY DEF Proceed
<1>5. history' \in Seq(Entry)
  <2> DEFINE entry == [run |-> i, of |-> runs[i].of, kind |-> runs[i].kind, calm |-> runs[i].calm,
                       output |-> c]
  <2>1. entry \in Entry
    BY <1>1 DEF Entry, Run
  <2>2. history' = history \/ history' = Add(history, entry)
    BY DEF Proceed
  <2> HIDE DEF entry
  <2> QED
    BY <2>1, <2>2, AddType DEF OrchestratorInv, Types
<1>6. Types'
  BY <1>3, <1>4, <1>5 DEF OrchestratorInv, Types
<1>7. Running' = IF rest = << >> THEN Running \ {i} ELSE Running
  BY <1>3 DEF Running, Active
<1>8. i \in Running
  BY DEF Running
<1>9. Alone'
  <2> SUFFICES ASSUME NEW j \in Running', runs'[j].calm
               PROVE  busy' /\ Running' = {j}
    BY DEF Alone
  <2>1. j \in Running /\ runs[j].calm
    BY <1>3, <1>7 DEF Running
  <2>2. busy /\ Running = {j}
    BY <2>1 DEF OrchestratorInv, Alone
  <2> QED
    BY <1>4, <1>7, <1>8, <2>2
<1>10. Lit'
  BY <1>4, <1>7, <1>8 DEF Lit
<1>11. Latest' = Latest
  BY <1>3 DEF Latest
<1>12. Latest' # {} => Guarded(content', report')
  BY <1>4, <1>11 DEF OrchestratorInv, Guarded
<1> QED
  BY <1>6, <1>9, <1>10, <1>12 DEF OrchestratorInv

(* The steps that leave the plan of every run alone, or take it away.        *)
LEMMA DisturbedRuns ==
  ASSUME Types, NEW S
  PROVE  /\ Disturbed(S) \in Seq(Run) /\ DOMAIN Disturbed(S) = DOMAIN runs
         /\ \A i \in DOMAIN runs : /\ Disturbed(S)[i].todo = runs[i].todo
                                   /\ Disturbed(S)[i].kind = runs[i].kind
                                   /\ Disturbed(S)[i].calm = (runs[i].calm /\ i \notin S)
<1>1. Len(runs) \in Nat /\ DOMAIN runs = 1..Len(runs) /\ \A i \in 1..Len(runs) : runs[i] \in Run
  BY DEF Types
<1>2. \A i \in 1..Len(runs) :
        LET r == [runs[i] EXCEPT !.calm = runs[i].calm /\ i \notin S]
        IN  /\ r \in Run /\ r.todo = runs[i].todo /\ r.kind = runs[i].kind
            /\ r.calm = (runs[i].calm /\ i \notin S)
  <2> SUFFICES ASSUME NEW i \in 1..Len(runs), NEW b \in BOOLEAN
               PROVE  LET r == [runs[i] EXCEPT !.calm = b]
                      IN  r \in Run /\ r.todo = runs[i].todo /\ r.kind = runs[i].kind /\ r.calm = b
    OBVIOUS
  <2> QED
    BY <1>1 DEF Run
<1>3. Disturbed(S) \in Seq(Run)
  BY <1>1, <1>2, IsASeq DEF Disturbed
<1> QED
  BY <1>1, <1>2, <1>3 DEF Disturbed
-----------------------------------------------------------------------------
(* What becomes of a run whose part is done.                                 *)
LEMMA RunGoesOn ==
  ASSUME Types, NEW i \in DOMAIN runs, Active(i), NEW n \in Product \union {None},
         NEW rest \in {Tail(runs[i].todo), << >>}
  PROVE  LET r == [runs[i] EXCEPT !.todo = rest]
             q == [runs[i] EXCEPT !.todo = rest, !.names = n]
         IN  /\ rest \in Todo
             /\ r \in Run /\ r.todo = rest /\ r.kind = runs[i].kind /\ r.calm = runs[i].calm
             /\ q \in Run /\ q.todo = rest /\ q.kind = runs[i].kind /\ q.calm = runs[i].calm
<1>1. runs[i] \in Run
  BY DEF Types
<1>2. rest \in Todo
  <2>1. runs[i].todo \in Todo /\ runs[i].todo # << >>
    BY <1>1 DEF Run, Active
  <2>2. Tail(runs[i].todo) \in Todo /\ << >> \in Todo
    BY <2>1, HeadTailProperties, EmptySeq DEF Todo
  <2> QED
    BY <2>2
<1> QED
  BY <1>1, <1>2 DEF Run

LEMMA PieceType ==
  ASSUME Types, NEW i \in DOMAIN runs, NEW n \in Product \union {None},
         NEW found, found \subseteq {"text", "shape", "grounding"}
  PROVE  Written(i, n, found) \in Piece /\ runs[i].of \in Product
<1>1. runs[i] \in Run
  BY DEF Types
<1>2. runs[i].of \in Product
  BY <1>1 DEF Run
<1> QED
  BY <1>2 DEF Written, Piece

(* A part other than the master leaves the master as it is.                  *)
LEMMA OtherPart ==
  ASSUME Types, NEW part \in Part, NEW piece \in Piece
  PROVE  /\ [content EXCEPT ![part] = piece] \in Content
         /\ part # Main => [content EXCEPT ![part] = piece][Main] = content[Main]
         /\ [content EXCEPT ![part] = piece][part] = piece
BY Parts DEF Types, Content

LEMMA MainInv == ASSUME OrchestratorInv, NEW i \in DOMAIN runs, MainDone(i) PROVE OrchestratorInv'
<1>1. Types /\ Active(i) /\ fetching' = fetching
  BY DEF OrchestratorInv, MainDone, Doing
<1>2. PICK found \in AtMostOne({"text", "grounding"}) :
        LET piece == Written(i, runs[i].of, found)
            rest == Tail(runs[i].todo)
        IN  /\ report' = AddReport(Reported(piece, Main))
            /\ Proceed(i, rest, [content EXCEPT ![Main] = piece], Reported(piece, Main))
            /\ runs' = [runs EXCEPT ![i].todo = rest]
  BY DEF MainDone
<1> DEFINE piece == Written(i, runs[i].of, found)
           rest == Tail(runs[i].todo)
           c == [content EXCEPT ![Main] = piece]
           r == [runs[i] EXCEPT !.todo = rest]
<1>3. found \subseteq {"text", "grounding"}
  BY DEF AtMostOne
<1>4. piece \in Piece /\ piece.found = found /\ piece.of = runs[i].of
  <2>1. runs[i].of \in Product
    BY <1>1, <1>3, PieceType
  <2> QED
    BY <1>1, <1>3, <2>1, PieceType DEF Written
<1>5. c \in Content /\ c[Main] = piece
  <2> HIDE DEF piece
  <2> QED
    BY <1>1, <1>4, OtherPart, Parts
<1>6. report' = report \union {<<piece.of, Main, f>> : f \in piece.found}
  BY <1>2 DEF AddReport, Reported
<1>7. Guarded(c, report') /\ report \subseteq report'
  <2> HIDE DEF piece, c
  <2>1. ASSUME "grounding" \in piece.found PROVE \E x \in report' : x[3] = "grounding"
    <3>1. <<piece.of, Main, "grounding">> \in report'
      BY <1>6, <2>1
    <3> QED
      BY <3>1
  <2> QED
    BY <1>5, <1>6, <2>1 DEF Guarded
<1>8. r \in Run /\ r.todo = rest /\ r.kind = runs[i].kind /\ r.calm = runs[i].calm /\ rest \in Todo
  BY <1>1, RunGoesOn
<1>9. runs' = [runs EXCEPT ![i] = r] /\ Proceed(i, rest, c, Reported(piece, Main))
  BY <1>2
<1> HIDE DEF piece, rest, c, r
<1> QED
  BY <1>1, <1>5, <1>7, <1>8, <1>9, PartStep

(* Every other part: it is stored, or left as it was.                        *)
LEMMA OtherPartDone ==
  ASSUME OrchestratorInv, NEW i \in DOMAIN runs, Active(i), fetching' = fetching,
         report \subseteq report',
         NEW part \in Part, part # Main, NEW piece \in Piece,
         NEW c \in {content, [content EXCEPT ![part] = piece]},
         NEW rest \in {Tail(runs[i].todo), << >>}, NEW found, Proceed(i, rest, c, found),
         NEW n \in Product \union {None},
         \/ runs' = [runs EXCEPT ![i].todo = rest]
         \/ runs' = [runs EXCEPT ![i].todo = rest, ![i].names = n]
  PROVE  OrchestratorInv'
<1> DEFINE r == [runs[i] EXCEPT !.todo = rest]
           q == [runs[i] EXCEPT !.todo = rest, !.names = n]
<1>1. Types
  BY DEF OrchestratorInv
<1>2. c \in Content /\ c[Main] = content[Main]
  <2>1. CASE c = content
    BY <1>1, <2>1 DEF Types
  <2>2. CASE c = [content EXCEPT ![part] = piece]
    BY <1>1, <2>2, OtherPart
  <2> QED
    BY <2>1, <2>2
<1>3. /\ rest \in Todo
      /\ r \in Run /\ r.todo = rest /\ r.kind = runs[i].kind /\ r.calm = runs[i].calm
      /\ q \in Run /\ q.todo = rest /\ q.kind = runs[i].kind /\ q.calm = runs[i].calm
  BY <1>1, RunGoesOn, ZenonT(60)
<1>4. runs' = [runs EXCEPT ![i] = r] \/ runs' = [runs EXCEPT ![i] = q]
  <2>1. CASE runs' = [runs EXCEPT ![i].todo = rest]
    BY <2>1
  <2>2. CASE runs' = [runs EXCEPT ![i].todo = rest, ![i].names = n]
    BY <2>2 DEF Types
  <2> QED
    BY <2>1, <2>2
<1> HIDE DEF r, q
<1> QED
  BY <1>2, <1>3, <1>4, PartStep

LEMMA SlugInv == ASSUME OrchestratorInv, NEW i \in DOMAIN runs, SlugDone(i) PROVE OrchestratorInv'
<1>1. Types /\ Active(i) /\ fetching' = fetching /\ Slug \in Part /\ Slug # Main
  BY Parts DEF OrchestratorInv, SlugDone, Doing
<1>2. PICK found \in AtMostOne({"text"}) :
        /\ report' = AddReport(Reported(Written(i, runs[i].of, found), Slug))
        /\ Proceed(i, Tail(runs[i].todo), [content EXCEPT ![Slug] = Written(i, runs[i].of, found)],
                   IF runs[i].kind = "slug" THEN Reported(Written(i, runs[i].of, found), Slug) ELSE issues)
        /\ runs' = [runs EXCEPT ![i].todo = Tail(runs[i].todo), ![i].names = runs[i].of]
  BY DEF SlugDone
<1>3. runs[i].of \in Product
  BY <1>1, PieceType
<1>4. Written(i, runs[i].of, found) \in Piece
  BY <1>1, <1>3, PieceType DEF AtMostOne
<1>5. report \subseteq report'
  BY <1>2 DEF AddReport
<1> QED
  BY <1>1, <1>2, <1>3, <1>4, <1>5, OtherPartDone

LEMMA SeoInv == ASSUME OrchestratorInv, NEW i \in DOMAIN runs, SeoDone(i) PROVE OrchestratorInv'
<1>1. Types /\ Active(i) /\ fetching' = fetching /\ Seo \in Part /\ Seo # Main
  BY Parts DEF OrchestratorInv, SeoDone, Doing
<1>2. PICK found \in AtMostOne({"text", "shape"}) :
        LET piece == Written(i, runs[i].names, found)
            rest == Tail(runs[i].todo)
            shown == {<<piece.of, Seo, f>> : f \in found \intersect {"text"}}
        IN  /\ report' = AddReport(Reported(piece, Seo))
            /\ Proceed(i, rest, [content EXCEPT ![Seo] = piece],
                       IF runs[i].kind = "seo" THEN shown ELSE issues)
            /\ runs' = [runs EXCEPT ![i].todo = rest]
  BY DEF SeoDone
<1>3. runs[i].names \in Product \union {None}
  <2>1. runs[i] \in Run
    BY <1>1 DEF Types
  <2> QED
    BY <2>1 DEF Run
<1>4. Written(i, runs[i].names, found) \in Piece
  BY <1>1, <1>3, PieceType DEF AtMostOne
<1>5. report \subseteq report'
  BY <1>2 DEF AddReport
<1> QED
  BY <1>1, <1>2, <1>3, <1>4, <1>5, OtherPartDone

LEMMA TranslationInv ==
  ASSUME OrchestratorInv, NEW i \in DOMAIN runs, NEW lang \in Locale, TranslationDone(i, lang)
  PROVE  OrchestratorInv'
<1> DEFINE part == <<"html", lang>>
<1>1. Types /\ Active(i) /\ fetching' = fetching /\ part \in Part /\ part # Main
  BY DEF OrchestratorInv, TranslationDone, Doing, Part
<1>2. PICK found \in AtMostOne({"text"}) :
        LET piece == Written(i, runs[i].names, found)
        IN  /\ report' = AddReport(Reported(piece, part))
            /\ Proceed(i, Tail(runs[i].todo), [content EXCEPT ![part] = piece],
                       issues \union Reported(piece, part))
  BY DEF TranslationDone
<1>3. runs' = [runs EXCEPT ![i].todo = Tail(runs[i].todo)]
  BY DEF TranslationDone
<1> HIDE DEF part
<1>4. runs[i].names \in Product \union {None}
  <2>1. runs[i] \in Run
    BY <1>1 DEF Types
  <2> QED
    BY <2>1 DEF Run
<1>5. Written(i, runs[i].names, found) \in Piece
  BY <1>1, <1>4, PieceType DEF AtMostOne
<1>6. report \subseteq report'
  BY <1>2 DEF AddReport
<1> QED
  BY <1>1, <1>2, <1>3, <1>4, <1>5, <1>6, OtherPartDone

LEMMA StoredInv ==
  ASSUME OrchestratorInv, NEW i \in DOMAIN runs, Active(i), NEW part \in Part, part # Main,
         Stored(i, part), UNCHANGED <<report, fetching>>
  PROVE  OrchestratorInv'
<1>1. Types
  BY DEF OrchestratorInv
<1>2. Written(i, None, {}) \in Piece /\ runs[i].of \in Product
  BY <1>1, PieceType
<1>3. /\ Proceed(i, Tail(runs[i].todo), [content EXCEPT ![part] = Written(i, None, {})], issues)
      /\ runs' = [runs EXCEPT ![i].todo = Tail(runs[i].todo)]
  BY DEF Stored
<1> QED
  BY <1>2, <1>3, OtherPartDone

LEMMA SkippedInv ==
  ASSUME OrchestratorInv, NEW i \in DOMAIN runs, Active(i), NEW rest \in {Tail(runs[i].todo), << >>},
         NEW found, Proceed(i, rest, content, found), runs' = [runs EXCEPT ![i].todo = rest],
         UNCHANGED <<report, fetching>>
  PROVE  OrchestratorInv'
<1>1. Types
  BY DEF OrchestratorInv
<1>2. Written(i, None, {}) \in Piece /\ runs[i].of \in Product
  BY <1>1, PieceType
<1>3. Slug \in Part /\ Slug # Main
  BY Parts
<1> QED
  BY <1>2, <1>3, OtherPartDone

LEMMA FailsInv == ASSUME OrchestratorInv, NEW i \in DOMAIN runs, RunFails(i) PROVE OrchestratorInv'
<1>1. /\ Active(i) /\ busy' = FALSE /\ runs' = [runs EXCEPT ![i].todo = << >>]
      /\ UNCHANGED <<content, history, report, fetching>>
  BY DEF RunFails, Fail
<1> DEFINE r == [runs[i] EXCEPT !.todo = << >>]
<1>2. Types /\ Len(runs) \in Nat /\ DOMAIN runs = 1..Len(runs)
  BY DEF OrchestratorInv, Types
<1>3. r \in Run /\ r.todo = << >> /\ r.kind = runs[i].kind /\ r.calm = runs[i].calm
  <2>1. runs[i] \in Run /\ << >> \in Todo
    BY <1>2, EmptySeq DEF Types, Todo
  <2> QED
    BY <2>1 DEF Run
<1>4. runs' = [runs EXCEPT ![i] = r]
  BY <1>1
<1> HIDE DEF r
<1>5. /\ runs' \in Seq(Run) /\ DOMAIN runs' = DOMAIN runs
      /\ \A j \in DOMAIN runs : runs'[j] = IF j = i THEN r ELSE runs[j]
  BY <1>2, <1>3, <1>4, ExceptSeq DEF Types
<1>6. Running' = Running \ {i} /\ Latest' = Latest
  BY <1>3, <1>5 DEF Running, Active, Latest
<1>7. Alone'
  <2> SUFFICES ASSUME NEW j \in Running', runs'[j].calm PROVE FALSE
    BY DEF Alone
  <2>1. j \in Running /\ j # i /\ runs[j].calm /\ i \in Running
    BY <1>1, <1>5, <1>6 DEF Running
  <2> QED
    BY <2>1 DEF OrchestratorInv, Alone
<1> QED
  BY <1>1, <1>2, <1>5, <1>6, <1>7 DEF OrchestratorInv, Types, Lit, Guarded

LEMMA RunStepInv == ASSUME OrchestratorInv, NEW i \in DOMAIN runs, RunStep(i) PROVE OrchestratorInv'
<1>1. CASE SlugSkipped(i)
  BY <1>1, SkippedInv DEF SlugSkipped, Doing
<1>2. CASE FaqDone(i)
  <2>1. Active(i) /\ UNCHANGED <<report, fetching>> /\ Faq \in Part /\ Faq # Main
    BY <1>2, Parts DEF FaqDone, Doing
  <2>2. CASE Stored(i, Faq)
    BY <2>1, <2>2, StoredInv
  <2>3. CASE /\ \E found \in {{}, {<<runs[i].of, Faq, "failed">>}} :
                  Proceed(i, << >>, content, issues \union found)
             /\ runs' = [runs EXCEPT ![i].todo = << >>]
    BY <2>1, <2>3, SkippedInv
  <2> QED
    BY <1>2, <2>2, <2>3 DEF FaqDone
<1>3. ASSUME NEW lang \in Locale, FaqTranslated(i, lang) PROVE OrchestratorInv'
  <2> DEFINE part == <<"faq", lang>>
  <2>1. Active(i) /\ UNCHANGED <<report, fetching>> /\ part \in Part /\ part # Main
    BY <1>3 DEF FaqTranslated, Doing, Part, Main
  <2>2. CASE Stored(i, part)
    BY <2>1, <2>2, StoredInv
  <2>3. CASE /\ Proceed(i, Tail(runs[i].todo), content, issues \union {<<runs[i].of, part, "failed">>})
             /\ runs' = [runs EXCEPT ![i].todo = Tail(runs[i].todo)]
    BY <2>1, <2>3, SkippedInv
  <2> QED
    BY <1>3, <2>2, <2>3 DEF FaqTranslated
<1>4. CASE ToolDone(i)
  BY <1>4, SkippedInv DEF ToolDone, Doing
<1> QED
  BY <1>1, <1>2, <1>3, <1>4, MainInv, SlugInv, SeoInv, TranslationInv, FailsInv DEF RunStep
-----------------------------------------------------------------------------
(* A run starts alone, or neither it nor the others are calm.                *)
LEMMA StartInv ==
  ASSUME OrchestratorInv, NEW kind \in Kinds, NEW product \in Product, Start(kind, product)
  PROVE  OrchestratorInv'
<1> DEFINE reused == kind \in {"full", "seo"} /\ approved = product /\ content[Slug] # None
<1>1. /\ Types /\ ~busy /\ busy' = TRUE /\ Len(runs) \in Nat /\ DOMAIN runs = 1..Len(runs)
      /\ UNCHANGED <<history, fetching>>
  BY DEF OrchestratorInv, Types, Start
<1>2. PICK supplement \in BOOLEAN :
        runs' = Append(Disturbed(Running),
          [kind |-> kind, of |-> product, todo |-> Plan(kind, reused, supplement),
           names |-> IF reused THEN content[Slug].names ELSE None,
           calm |-> Running = {}])
  BY DEF Start
<1> DEFINE r == [kind |-> kind, of |-> product, todo |-> Plan(kind, reused, supplement),
                 names |-> IF reused THEN content[Slug].names ELSE None, calm |-> Running = {}]
<1>3. r \in Run /\ r.todo # << >> /\ r.kind = kind /\ r.calm = (Running = {})
  <2>1. (IF reused THEN content[Slug].names ELSE None) \in Product \union {None}
    <3>1. content[Slug] \in Piece \union {None}
      BY <1>1, Parts DEF Types, Content
    <3> QED
      BY <3>1 DEF Piece
  <2>2. Plan(kind, reused, supplement) \in Todo /\ Plan(kind, reused, supplement) # << >>
    BY PlanStarts
  <2> HIDE DEF reused
  <2> QED
    BY <2>1, <2>2 DEF Run
<1>4. runs' = Append(Disturbed(Running), r)
  BY <1>2
<1> HIDE DEF r
<1> DEFINE last == Len(runs) + 1
           old == Disturbed(Running)
<1>5. /\ old \in Seq(Run) /\ DOMAIN old = DOMAIN runs /\ Len(old) = Len(runs)
      /\ \A i \in DOMAIN runs : old[i].todo = runs[i].todo /\ old[i].kind = runs[i].kind
                                 /\ old[i].calm = (runs[i].calm /\ i \notin Running)
  BY <1>1, DisturbedRuns, LenProperties
<1> HIDE DEF old
<1>6. /\ runs' \in Seq(Run) /\ DOMAIN runs' = 1..last /\ runs'[last] = r
      /\ \A i \in DOMAIN runs : runs'[i] = old[i]
  BY <1>1, <1>3, <1>4, <1>5, AppendProperties DEF old
<1>7. content' \in Content /\ (kind # "tool" => content'[Main] = None)
      /\ (kind = "tool" => content' = content /\ report' = report)
  <2>1. CASE kind = "tool"
    BY <1>1, <2>1 DEF Start, Types
  <2>2. CASE kind # "tool"
    <3>1. content' = Empty \/ content' = [Empty EXCEPT ![Slug] = content[Slug]]
      BY <2>2 DEF Start
    <3>2. content[Slug] \in Piece \union {None}
      BY <1>1, Parts DEF Types, Content
    <3>3. Empty \in Content /\ Empty[Main] = None
      BY EmptyContent
    <3>4. [Empty EXCEPT ![Slug] = content[Slug]] \in Content
          /\ [Empty EXCEPT ![Slug] = content[Slug]][Main] = None
      BY <3>2, <3>3, Parts DEF Content
    <3> QED
      BY <2>2, <3>1, <3>3, <3>4
  <2> QED
    BY <2>1, <2>2
<1>8. Types'
  BY <1>1, <1>6, <1>7 DEF Types
<1>9. Running' = Running \union {last}
  BY <1>1, <1>3, <1>5, <1>6 DEF Running, Active
<1>10. Alone' /\ Lit'
  <2>1. ASSUME NEW i \in Running', runs'[i].calm PROVE Running' = {i}
    <3>1. CASE i = last
      BY <1>3, <1>6, <1>9, <2>1, <3>1
    <3>2. CASE i # last
      <4>1. i \in Running /\ i \in DOMAIN runs
        BY <1>9, <3>2 DEF Running
      <4> QED
        BY <1>5, <1>6, <2>1, <4>1
    <3> QED
      BY <3>1, <3>2
  <2>2. last \in Running'
    BY <1>9
  <2> QED
    BY <1>1, <2>1, <2>2 DEF Alone, Lit
<1>11. (Latest # {} => Guarded(content, report))'
  <2>1. CASE kind # "tool"
    BY <1>7, <2>1 DEF Guarded
  <2>2. CASE kind = "tool"
    <3>1. ASSUME NEW i \in Latest' PROVE i \in Latest
      <4>1. i \in 1..last /\ runs'[i].calm /\ runs'[i].kind # "tool"
            /\ \A j \in 1..last : runs'[j].kind # "tool" => j <= i
        BY <1>6, <3>1 DEF Latest
      <4>2. i \in DOMAIN runs
        BY <1>1, <1>3, <1>6, <2>2, <4>1
      <4>3. \A j \in DOMAIN runs : /\ j \in 1..last /\ runs'[j].kind = runs[j].kind
                                   /\ (runs'[j].calm => runs[j].calm)
        <5> SUFFICES ASSUME NEW j \in DOMAIN runs
                     PROVE  /\ j \in 1..last /\ runs'[j].kind = runs[j].kind
                            /\ (runs'[j].calm => runs[j].calm)
          OBVIOUS
        <5>1. runs'[j] = old[j]
          BY <1>6
        <5>2. old[j].kind = runs[j].kind /\ old[j].calm = (runs[j].calm /\ j \notin Running)
          BY <1>5
        <5>3. j \in 1..last
          BY <1>1
        <5>4. runs'[j].calm => runs[j].calm
          BY <5>1, <5>2, Zenon
        <5> QED
          BY <5>1, <5>2, <5>3, <5>4
      <4>4. runs[i].calm /\ runs[i].kind # "tool"
        BY <4>1, <4>2, <4>3
      <4>5. \A j \in DOMAIN runs : runs[j].kind # "tool" => j <= i
        BY <4>1, <4>3
      <4> QED
        BY <4>2, <4>4, <4>5 DEF Latest
    <3> QED
      BY <1>7, <2>2, <3>1 DEF OrchestratorInv, Guarded
  <2> QED
    BY <2>1, <2>2
<1> QED
  BY <1>8, <1>10, <1>11 DEF OrchestratorInv

(* The user steps in: no run is calm any more.                               *)
LEMMA TouchedInv ==
  ASSUME OrchestratorInv, runs' = Disturbed(DOMAIN runs), content' \in Content,
         UNCHANGED <<busy, history, fetching>>
  PROVE  OrchestratorInv'
<1>1. Types
  BY DEF OrchestratorInv
<1>2. /\ runs' \in Seq(Run) /\ DOMAIN runs' = DOMAIN runs
      /\ \A i \in DOMAIN runs : runs'[i].todo = runs[i].todo /\ ~runs'[i].calm
  BY <1>1, DisturbedRuns
<1>3. Running' = Running /\ Latest' = {}
  BY <1>2 DEF Running, Active, Latest
<1>4. Alone'
  BY <1>2 DEF Alone, Running
<1> QED
  BY <1>1, <1>2, <1>3, <1>4 DEF OrchestratorInv, Types, Lit

LEMMA RestoreInv == ASSUME OrchestratorInv, restoreHistory PROVE OrchestratorInv'
<1>1. PICK n \in DOMAIN history : content' = history[n].output
  BY DEF restoreHistory
<1>2. history[n] \in Entry
  BY DEF OrchestratorInv, Types
<1>3. content' \in Content
  BY <1>1, <1>2 DEF Entry
<1> QED
  BY <1>3, TouchedInv DEF restoreHistory

LEMMA ClearInv == ASSUME OrchestratorInv, NEW mode, clearAll(mode) PROVE OrchestratorInv'
<1>1. content \in Content
  BY DEF OrchestratorInv, Types
<1>2. content' \in Content
  BY <1>1 DEF clearAll, Content
<1> QED
  BY <1>2, TouchedInv DEF clearAll

LEMMA FetchEndsInv == ASSUME OrchestratorInv, FetchEnds PROVE OrchestratorInv'
<1>1. /\ Types /\ runs' = Disturbed(Running) /\ fetching' = fetching - 1 /\ fetching > 0
      /\ busy' = FALSE /\ UNCHANGED <<content, history, report>>
      /\ Len(runs) \in Nat /\ DOMAIN runs = 1..Len(runs)
  BY DEF OrchestratorInv, Types, FetchEnds
<1>2. /\ runs' \in Seq(Run) /\ DOMAIN runs' = DOMAIN runs
      /\ \A i \in DOMAIN runs : runs'[i].todo = runs[i].todo /\ runs'[i].kind = runs[i].kind
                                 /\ runs'[i].calm = (runs[i].calm /\ i \notin Running)
  BY <1>1, DisturbedRuns
<1>3. Running' = Running /\ Latest' \subseteq Latest
  BY <1>2 DEF Running, Active, Latest
<1>4. Alone'
  BY <1>2, <1>3 DEF Alone, Running
<1>5. Types'
  <2>1. fetching' \in Nat
    BY <1>1 DEF Types
  <2>2. content' \in Content /\ history' \in Seq(Entry) /\ busy' \in BOOLEAN
    BY <1>1 DEF Types
  <2> QED
    BY <1>2, <2>1, <2>2 DEF Types
<1> QED
  BY <1>1, <1>3, <1>4, <1>5 DEF OrchestratorInv, Lit, Guarded

LEMMA ReloadInv == ASSUME OrchestratorInv, Reload PROVE OrchestratorInv'
<1>0. runs' = [i \in DOMAIN runs |-> [runs[i] EXCEPT !.todo = << >>, !.calm = FALSE]]
  BY DEF Reload
<1>1. /\ content' = Empty /\ busy' = FALSE /\ fetching' = 0 /\ history' = history
      /\ Len(runs) \in Nat /\ DOMAIN runs = 1..Len(runs) /\ runs \in Seq(Run) /\ history \in Seq(Entry)
  <2>1. content' = Empty /\ busy' = FALSE /\ fetching' = 0 /\ history' = history
    BY DEF Reload
  <2>2. runs \in Seq(Run) /\ history \in Seq(Entry)
    BY DEF OrchestratorInv, Types
  <2>3. Len(runs) \in Nat /\ DOMAIN runs = 1..Len(runs)
    BY <2>2, LenProperties
  <2> QED
    BY <2>1, <2>2, <2>3
<1>2. ASSUME NEW i \in DOMAIN runs
      PROVE  runs'[i] \in Run /\ runs'[i].todo = << >> /\ ~runs'[i].calm
  <2> DEFINE r == [runs[i] EXCEPT !.todo = << >>, !.calm = FALSE]
  <2>1. runs[i] \in Run /\ << >> \in Todo
    BY <1>1, EmptySeq DEF Todo
  <2>2. r \in Run /\ r.todo = << >> /\ ~r.calm
    BY <2>1 DEF Run
  <2>3. runs'[i] = r
    BY <1>0
  <2> HIDE DEF r
  <2> QED
    BY <2>2, <2>3
<1>3. runs' \in Seq(Run) /\ DOMAIN runs' = DOMAIN runs
  <2>1. DOMAIN runs' = 1..Len(runs) /\ runs' = [i \in 1..Len(runs) |-> runs'[i]]
    BY <1>0, <1>1
  <2>2. [i \in 1..Len(runs) |-> runs'[i]] \in Seq(Run)
    BY <1>1, <1>2, IsASeq
  <2> QED
    BY <1>1, <2>1, <2>2
<1>4. Running' = {} /\ Latest' = {}
  BY <1>2, <1>3 DEF Running, Active, Latest
<1> QED
  BY <1>1, <1>3, <1>4, EmptyContent DEF OrchestratorInv, Types, Alone, Lit

LEMMA InitInv == Init => OrchestratorInv
<1> SUFFICES ASSUME Init PROVE OrchestratorInv
  OBVIOUS
<1>1. runs = << >> /\ DOMAIN runs = {} /\ runs \in Seq(Run) /\ history \in Seq(Entry)
  BY EmptySeq DEF Init
<1>2. Running = {} /\ Latest = {}
  BY <1>1 DEF Running, Latest
<1> QED
  BY <1>1, <1>2, EmptyContent DEF Init, OrchestratorInv, Types, Alone, Lit

LEMMA NextInv == OrchestratorInv /\ [Next]_vars => OrchestratorInv'
<1> SUFFICES ASSUME OrchestratorInv, [Next]_vars PROVE OrchestratorInv'
  OBVIOUS
<1>1. CASE clearHistory
  BY <1>1, EmptySeq DEF clearHistory, OrchestratorInv, Types, Alone, Lit, Guarded, Running, Active, Latest
<1>2. CASE FetchStarts
  <2>1. /\ fetching' = fetching + 1 /\ busy' = TRUE /\ fetching \in Nat
        /\ UNCHANGED <<content, runs, report, history>>
    BY <1>2 DEF FetchStarts, OrchestratorInv, Types
  <2>2. Running' = Running /\ Latest' = Latest
    BY <2>1 DEF Running, Active, Latest
  <2> QED
    BY <2>1, <2>2 DEF OrchestratorInv, Types, Alone, Lit, Guarded
<1>3. CASE UNCHANGED vars
  BY <1>3 DEF vars, OrchestratorInv, Types, Alone, Lit, Guarded, Running, Active, Latest
<1> QED
  BY <1>1, <1>2, <1>3, StartInv, RunStepInv, RestoreInv, ClearInv, FetchEndsInv, ReloadInv DEF Next

THEOREM OrchestratorInvariance == Spec => []OrchestratorInv
BY InitInv, NextInv, PTL DEF Spec
-----------------------------------------------------------------------------
(* isGenerating is set while a calm run is under way, and never left set when *)
(* nothing is, whatever fails, is fetched, restored or reloaded in between.   *)
THEOREM BusyStaysHonest == Spec => []BusyIsHonest
<1>1. OrchestratorInv => BusyIsHonest
  BY DEF OrchestratorInv, Alone, Lit, BusyIsHonest
<1> QED
  BY <1>1, OrchestratorInvariance, PTL

(* A description with unverified specs is not exported as long as nobody       *)
(* interfered with the run that wrote it, nor since, whatever part fails.      *)
THEOREM ExportStaysGuarded == Spec => []ExportIsGuarded
<1>1. OrchestratorInv => ExportIsGuarded
  BY DEF OrchestratorInv, Guarded, ExportIsGuarded, CanExport, groundingExportBlocked
<1> QED
  BY <1>1, OrchestratorInvariance, PTL
-----------------------------------------------------------------------------
(* The saved entries and the findings on the screen: what a run nobody       *)
(* interfered with has done, and has yet to do.                              *)

IsFaq(p) == p[1] = "faq"

(* What the parts can have: the FAQ is not validated, and only the master's  *)
(* specs can be unverified.                                                  *)
Plausible(c) ==
  \A p \in Part : c[p] # None => /\ IsFaq(p) => c[p].found = {}
                                 /\ "grounding" \in c[p].found => p = Main

(* The parts a plan of each kind has.                                        *)
Allowed(kind) ==
  CASE kind = "slug" -> {Slug}
    [] kind = "seo"  -> {Seo}
    [] kind = "faq"  -> {p \in Part : IsFaq(p)}
    [] kind = "tool" -> {Tool}
    [] OTHER -> Part

(* The texts without which a run of this kind does not end well.             *)
Needed(kind) ==
  CASE kind = "full" -> ({"html"} \X Locale) \union {Seo}
    [] kind = "ua"   -> {Main, Seo}
    [] OTHER -> {}

Elems(s) == {s[n] : n \in DOMAIN s}

(* The FAQ comes last, and its master before its translations.               *)
FaqsLast(todo) ==
  \A n \in DOMAIN todo : IsFaq(todo[n]) => \A m \in DOMAIN todo : n <= m => IsFaq(todo[m])
MasterFirst(todo) ==
  \A n \in DOMAIN todo : IsFaq(todo[n]) => \E m \in DOMAIN todo : m <= n /\ todo[m] = Faq

All == {"text", "shape", "grounding"}

(* What must be on the screen before the run ends.                           *)
ShownSoFar(r, c, shown) ==
  CASE r.kind = "slug" -> /\ Findings(c, Part, All) \subseteq shown
                          /\ \A p \in Part : c[p] # None => p = Slug
    [] r.kind = "seo"  -> Findings(c, {Seo}, {"text"}) \subseteq shown
    [] r.kind = "faq"  -> \A p \in Part : c[p] # None => IsFaq(p)
    [] OTHER -> Findings(c, {Main}, {"grounding"}) \subseteq shown

(* How far a run is that nobody interfered with.                             *)
Underway(r, c) ==
  /\ \A p \in Part : c[p] # None /\ p # Slug => c[p].of = r.of
  /\ \A p \in Needed(r.kind) : c[p] # None \/ p \in Elems(r.todo)
  /\ FaqsLast(r.todo)
  /\ c[Faq] # None \/ (MasterFirst(r.todo) /\ \A p \in Part : IsFaq(p) => c[p] = None)

OnItsWay(r, c, shown) == Underway(r, c) /\ ShownSoFar(r, c, shown)

(* EntryIsWhole of one entry.                                                *)
Whole(e) ==
  LET Has(p) == e.output[p] # None
  IN  e.calm =>
        /\ \A p \in Part : Has(p) /\ p # Slug => e.output[p].of = e.of
        /\ e.kind \in {"full", "ua"} => Has(Main) /\ Has(Seo)
        /\ e.kind = "full" => \A lang \in Locale : Has(<<"html", lang>>)
        /\ \A lang \in Locale : Has(<<"faq", lang>>) => Has(Faq)

(* An entry of a run that is over.                                           *)
Saved(e, rs) == Whole(e) /\ Plausible(e.output) /\ e.run \in DOMAIN rs /\ rs[e.run].todo = << >>

(* A run on its way, a calm run after all others, entries of runs that ended *)
(* well, and nothing found that is not shown.                                *)
WholeInv ==
  /\ Plausible(content)
  /\ \A n \in DOMAIN history : Saved(history[n], runs)
  /\ \A i \in DOMAIN runs : Elems(runs[i].todo) \subseteq Allowed(runs[i].kind)
  /\ \A i \in DOMAIN runs : runs[i].calm => \A j \in DOMAIN runs : j < i => ~Active(j)
  /\ \A i \in Running : runs[i].calm /\ runs[i].kind # "tool" => OnItsWay(runs[i], content, issues)
  /\ FindingsAreShown

LEMMA WholeEntries == (\A n \in DOMAIN history : Whole(history[n])) => EntryIsWhole
BY DEF Whole, EntryIsWhole, Calm

-----------------------------------------------------------------------------
(* Members of sequences of parts.                                            *)
LEMMA ElemsJoined ==
  ASSUME NEW S, NEW s \in Seq(S), NEW t \in Seq(S)
  PROVE  Elems(s \o t) = Elems(s) \union Elems(t)
<1>1. /\ Len(s) \in Nat /\ DOMAIN s = 1..Len(s) /\ Len(t) \in Nat /\ DOMAIN t = 1..Len(t)
      /\ s \o t \in Seq(S) /\ Len(s \o t) = Len(s) + Len(t) /\ DOMAIN (s \o t) = 1..Len(s) + Len(t)
      /\ \A i \in 1..Len(s) + Len(t) : (s \o t)[i] = IF i <= Len(s) THEN s[i] ELSE t[i - Len(s)]
  BY ConcatProperties, LenProperties
<1>2. ASSUME NEW i \in DOMAIN s PROVE s[i] \in Elems(s \o t)
  <2>1. i \in 1..Len(s) + Len(t) /\ (s \o t)[i] = s[i]
    BY <1>1
  <2> QED
    BY <1>1, <2>1 DEF Elems
<1>3. ASSUME NEW i \in DOMAIN t PROVE t[i] \in Elems(s \o t)
  <2>1. i + Len(s) \in 1..Len(s) + Len(t) /\ (s \o t)[i + Len(s)] = t[i]
    BY <1>1
  <2> QED
    BY <1>1, <2>1 DEF Elems
<1>4. ASSUME NEW i \in 1..Len(s) + Len(t) PROVE (s \o t)[i] \in Elems(s) \union Elems(t)
  <2>1. CASE i <= Len(s)
    BY <1>1, <2>1 DEF Elems
  <2>2. CASE ~(i <= Len(s))
    <3>1. i - Len(s) \in DOMAIN t /\ (s \o t)[i] = t[i - Len(s)]
      BY <1>1, <2>2
    <3> QED
      BY <3>1 DEF Elems
  <2> QED
    BY <2>1, <2>2
<1>5. Elems(s) \union Elems(t) \subseteq Elems(s \o t)
  BY <1>2, <1>3 DEF Elems
<1>6. Elems(s \o t) \subseteq Elems(s) \union Elems(t)
  <2>1. \A x \in Elems(s \o t) : \E i \in 1..Len(s) + Len(t) : x = (s \o t)[i]
    BY <1>1 DEF Elems
  <2> QED
    BY <1>4, <2>1
<1> QED
  BY <1>5, <1>6

LEMMA ElemsOne == \A x : Elems(<<x>>) = {x}
BY DEF Elems

LEMMA ElemsNone == Elems(<< >>) = {}
BY DEF Elems

(* The head of a plan is done: it is gone, or among what is left.            *)
LEMMA ElemsTail ==
  ASSUME NEW S, NEW s \in Seq(S), s # << >>
  PROVE  /\ Elems(s) = {Head(s)} \union Elems(Tail(s))
         /\ FaqsLast(s) => FaqsLast(Tail(s))
         /\ FaqsLast(s) /\ IsFaq(Head(s)) => \A p \in Elems(s) : IsFaq(p)
         /\ MasterFirst(s) /\ Head(s) # Faq => MasterFirst(Tail(s)) /\ ~IsFaq(Head(s))
<1>1. /\ Len(s) \in Nat \ {0} /\ DOMAIN s = 1..Len(s) /\ Head(s) = s[1]
      /\ DOMAIN Tail(s) = 1..Len(s) - 1
      /\ \A i \in 1..Len(s) - 1 : Tail(s)[i] = s[i + 1]
  <2>1. Len(s) \in Nat \ {0} /\ DOMAIN s = 1..Len(s)
    BY EmptySeq, LenProperties
  <2>2. Tail(s) \in Seq(S) /\ Len(Tail(s)) = Len(s) - 1
        /\ \A i \in 1..Len(Tail(s)) : Tail(s)[i] = s[i + 1]
    BY HeadTailProperties
  <2>3. DOMAIN Tail(s) = 1..Len(Tail(s))
    BY <2>2, LenProperties
  <2> QED
    BY <2>1, <2>2, <2>3
<1>2. Elems(s) = {Head(s)} \union Elems(Tail(s))
  <2>1. \A i \in 2..Len(s) : s[i] = Tail(s)[i - 1] /\ i - 1 \in 1..Len(s) - 1
    BY <1>1
  <2>2. Elems(s) \subseteq {Head(s)} \union Elems(Tail(s))
    <3> SUFFICES ASSUME NEW i \in 1..Len(s) PROVE s[i] \in {Head(s)} \union Elems(Tail(s))
      BY <1>1 DEF Elems
    <3>1. CASE i = 1
      BY <1>1, <3>1
    <3>2. CASE i # 1
      <4>1. i - 1 \in DOMAIN Tail(s) /\ s[i] = Tail(s)[i - 1]
        BY <1>1, <2>1, <3>2
      <4> QED
        BY <4>1 DEF Elems
    <3> QED
      BY <3>1, <3>2
  <2>3. {Head(s)} \union Elems(Tail(s)) \subseteq Elems(s)
    <3>1. 1 \in DOMAIN s /\ \A i \in DOMAIN Tail(s) : i + 1 \in DOMAIN s /\ Tail(s)[i] = s[i + 1]
      BY <1>1
    <3>2. Head(s) \in Elems(s)
      BY <1>1, <3>1 DEF Elems
    <3>3. Elems(Tail(s)) \subseteq Elems(s)
      BY <3>1 DEF Elems
    <3> QED
      BY <3>2, <3>3
  <2> QED
    BY <2>2, <2>3
<1>3. FaqsLast(s) => FaqsLast(Tail(s))
  <2> SUFFICES ASSUME FaqsLast(s), NEW n \in 1..Len(s) - 1, IsFaq(s[n + 1]),
                      NEW m \in 1..Len(s) - 1, n <= m
               PROVE  IsFaq(s[m + 1])
    BY <1>1 DEF FaqsLast
  <2>1. n + 1 \in DOMAIN s /\ m + 1 \in DOMAIN s /\ n + 1 <= m + 1
    BY <1>1
  <2> QED
    BY <2>1 DEF FaqsLast
<1>4. FaqsLast(s) /\ IsFaq(Head(s)) => \A p \in Elems(s) : IsFaq(p)
  BY <1>1 DEF FaqsLast, Elems
<1>5. ASSUME MasterFirst(s), Head(s) # Faq PROVE MasterFirst(Tail(s)) /\ ~IsFaq(Head(s))
  <2>1. ASSUME NEW n \in 1..Len(s) - 1, IsFaq(s[n + 1])
        PROVE  \E m \in 1..Len(s) - 1 : m <= n /\ s[m + 1] = Faq
    <3>1. n + 1 \in DOMAIN s
      BY <1>1
    <3>2. PICK k \in DOMAIN s : k <= n + 1 /\ s[k] = Faq
      BY <1>5, <2>1, <3>1 DEF MasterFirst
    <3>3. k # 1
      BY <1>1, <1>5, <3>2
    <3>4. k - 1 \in 1..Len(s) - 1 /\ k - 1 <= n /\ (k - 1) + 1 = k
      BY <1>1, <3>2, <3>3
    <3> QED
      BY <3>2, <3>4
  <2>2. ~IsFaq(Head(s))
    <3>1. 1 \in DOMAIN s /\ \A m \in DOMAIN s : m <= 1 => m = 1
      BY <1>1
    <3> QED
      BY <1>1, <1>5, <3>1 DEF MasterFirst
  <2> QED
    BY <1>1, <2>1, <2>2 DEF MasterFirst
<1> QED
  BY <1>2, <1>3, <1>4, <1>5

(* Texts without FAQ, and then all of the FAQ or nothing.                    *)
LEMMA FaqsBehind ==
  ASSUME NEW h \in Todo, \A p \in Elems(h) : ~IsFaq(p), NEW f \in Todo,
         f = << >> \/ (f[1] = Faq /\ \A p \in Elems(f) : IsFaq(p))
  PROVE  FaqsLast(h \o f) /\ MasterFirst(h \o f)
<1>1. /\ Len(h) \in Nat /\ DOMAIN h = 1..Len(h) /\ Len(f) \in Nat /\ DOMAIN f = 1..Len(f)
      /\ Len(h \o f) = Len(h) + Len(f) /\ DOMAIN (h \o f) = 1..Len(h) + Len(f)
      /\ \A i \in 1..Len(h) + Len(f) : (h \o f)[i] = IF i <= Len(h) THEN h[i] ELSE f[i - Len(h)]
  BY ConcatProperties, LenProperties DEF Todo
<1>2. \A i \in 1..Len(h) : ~IsFaq(h[i])
  BY <1>1 DEF Elems
<1>3. \A i \in 1..Len(f) : IsFaq(f[i]) /\ f[1] = Faq
  BY <1>1 DEF Elems
<1>4. \A i \in 1..Len(h) + Len(f) : IsFaq((h \o f)[i]) <=> Len(h) < i
  <2> SUFFICES ASSUME NEW i \in 1..Len(h) + Len(f) PROVE IsFaq((h \o f)[i]) <=> Len(h) < i
    OBVIOUS
  <2>1. CASE i <= Len(h)
    BY <1>1, <1>2, <2>1
  <2>2. CASE ~(i <= Len(h))
    <3>1. i - Len(h) \in 1..Len(f) /\ (h \o f)[i] = f[i - Len(h)]
      BY <1>1, <2>2
    <3> QED
      BY <1>1, <1>3, <2>2, <3>1
  <2> QED
    BY <2>1, <2>2
<1>5. FaqsLast(h \o f)
  BY <1>1, <1>4 DEF FaqsLast
<1>6. ASSUME NEW n \in 1..Len(h) + Len(f), IsFaq((h \o f)[n])
      PROVE  \E m \in 1..Len(h) + Len(f) : m <= n /\ (h \o f)[m] = Faq
  <2>1. Len(h) < n
    BY <1>4, <1>6
  <2>2. Len(h) + 1 \in 1..Len(h) + Len(f) /\ Len(h) + 1 <= n /\ 1 \in 1..Len(f)
    BY <1>1, <2>1
  <2>3. (h \o f)[Len(h) + 1] = f[1]
    BY <1>1, <2>2
  <2> QED
    BY <1>3, <2>2, <2>3
<1> QED
  BY <1>1, <1>5, <1>6 DEF MasterFirst

LEMMA PartKinds ==
  /\ Main \in Part /\ Seo \in Part /\ Slug \in Part /\ Faq \in Part /\ Tool \notin Part
  /\ ~IsFaq(Main) /\ ~IsFaq(Seo) /\ ~IsFaq(Slug) /\ IsFaq(Faq)
  /\ Main # Seo /\ Main # Slug /\ Slug # Seo
  /\ \A p \in Part : ~IsFaq(p) => p = Seo \/ p = Slug \/ p \in {"html"} \X Locale
  /\ \A lang \in Locale : <<"faq", lang>> \in Part /\ IsFaq(<<"faq", lang>>)
                          /\ <<"html", lang>> \in Part /\ ~IsFaq(<<"html", lang>>)
BY DEF Main, Seo, Slug, Faq, Part, Locale, Tool, IsFaq

(* What a plan has, and in which order.                                      *)
LEMMA PlanIsWhole ==
  ASSUME NEW kind \in Kinds, NEW reused \in BOOLEAN, NEW supplement \in BOOLEAN,
         NEW plan, plan = Plan(kind, reused, supplement)
  PROVE  /\ Elems(plan) \subseteq Allowed(kind)
         /\ kind # "tool" => Needed(kind) \subseteq Elems(plan) /\ FaqsLast(plan) /\ MasterFirst(plan)
<1>1. Len(Langs) \in Nat /\ DOMAIN Langs = 1..Len(Langs)
  BY OrchestratorAssumption
<1>2. \A k \in {"html", "faq"} : /\ Of(k) \in Todo
                                 /\ Elems(Of(k)) = {<<k, Langs[n]>> : n \in DOMAIN Langs}
  <2> SUFFICES ASSUME NEW k \in {"html", "faq"}
               PROVE  Of(k) \in Todo /\ Elems(Of(k)) = {<<k, Langs[n]>> : n \in DOMAIN Langs}
    OBVIOUS
  <2>1. \A n \in 1..Len(Langs) : <<k, Langs[n]>> \in Part \union {Tool}
    BY <1>1 DEF Part, Locale
  <2>2. Of(k) \in Todo
    BY <1>1, <2>1, IsASeq DEF Of, Todo
  <2> QED
    BY <2>2 DEF Of, Elems
<1>3. <<Main>> \in Todo /\ <<Slug>> \in Todo /\ <<Seo>> \in Todo /\ <<Faq>> \in Todo
      /\ <<Tool>> \in Todo /\ << >> \in Todo /\ <<Main, Slug, Seo>> \in Todo
  BY PartKinds DEF Todo
<1> DEFINE Cat(s, t) == s \o t
<1>4. \A s, t \in Todo : Cat(s, t) \in Todo /\ Elems(Cat(s, t)) = Elems(s) \union Elems(t)
  BY ConcatProperties, ElemsJoined DEF Todo
<1>4a. ASSUME NEW h \in Todo, \A p \in Elems(h) : ~IsFaq(p), NEW f \in Todo,
              f = << >> \/ (f[1] = Faq /\ \A p \in Elems(f) : IsFaq(p))
       PROVE  FaqsLast(Cat(h, f)) /\ MasterFirst(Cat(h, f))
  BY <1>4a, FaqsBehind
<1>4b. Faqs = Cat(<<Faq>>, Of("faq"))
  BY DEF Faqs
<1> HIDE DEF Cat
<1>5. Faqs \in Todo /\ Faqs[1] = Faq /\ Elems(Faqs) \subseteq {p \in Part : IsFaq(p)}
  <2>1. Faqs \in Todo /\ Elems(Faqs) = {Faq} \union Elems(Of("faq"))
    BY <1>2, <1>3, <1>4, <1>4b, ElemsOne
  <2>2. Faqs[1] = Faq
    <3>1. Len(<<Faq>>) = 1 /\ Len(Of("faq")) \in Nat /\ <<Faq>>[1] = Faq
      BY <1>2 DEF Todo
    <3> QED
      BY <1>2, <1>3, <3>1, ConcatProperties DEF Faqs, Todo
  <2>3. \A n \in DOMAIN Langs : <<"faq", Langs[n]>> \in Part /\ IsFaq(<<"faq", Langs[n]>>)
    BY PartKinds DEF Locale
  <2> QED
    BY <1>2, <2>1, <2>2, <2>3, PartKinds
<1> DEFINE faqs == IF supplement THEN Faqs ELSE << >>
           slug == IF reused THEN << >> ELSE <<Slug>>
           texts == Cat(Cat(Cat(<<Main>>, slug), <<Seo>>), Of("html"))
<1>6. /\ faqs \in Todo
      /\ faqs = << >> \/ (faqs[1] = Faq /\ \A p \in Elems(faqs) : IsFaq(p))
      /\ Elems(faqs) \subseteq Part /\ slug \in Todo /\ Elems(slug) \subseteq {Slug}
  BY <1>3, <1>5, ElemsOne, ElemsNone
<1>7. texts \in Todo /\ Elems(texts) = {Main, Seo} \union Elems(slug) \union Elems(Of("html"))
  <2> HIDE DEF slug
  <2>1. Cat(<<Main>>, slug) \in Todo /\ Elems(Cat(<<Main>>, slug)) = {Main} \union Elems(slug)
    BY <1>3, <1>4, <1>6, ElemsOne
  <2>2. Cat(Cat(<<Main>>, slug), <<Seo>>) \in Todo
        /\ Elems(Cat(Cat(<<Main>>, slug), <<Seo>>)) = {Main, Seo} \union Elems(slug)
    <3>1. /\ Cat(Cat(<<Main>>, slug), <<Seo>>) \in Todo
          /\ Elems(Cat(Cat(<<Main>>, slug), <<Seo>>)) = Elems(Cat(<<Main>>, slug)) \union Elems(<<Seo>>)
      BY <1>3, <1>4, <2>1, Zenon
    <3> QED
      BY <2>1, <3>1, ElemsOne
  <2>3. texts \in Todo
        /\ Elems(texts) = Elems(Cat(Cat(<<Main>>, slug), <<Seo>>)) \union Elems(Of("html"))
    BY <1>2, <1>4, <2>2
  <2> QED
    BY <2>2, <2>3
<1>8. \A n \in DOMAIN Langs : /\ <<"html", Langs[n]>> \in Part /\ ~IsFaq(<<"html", Langs[n]>>)
  BY PartKinds DEF Locale
<1>9. CASE kind = "full"
  <2>1. plan = Cat(texts, faqs)
    BY <1>9 DEF Plan, Cat
  <2> HIDE DEF texts, faqs, slug
  <2>2. Elems(plan) = Elems(texts) \union Elems(faqs)
    BY <1>4, <1>6, <1>7, <2>1, Zenon
  <2>3. \A p \in Elems(texts) : p \in Part /\ ~IsFaq(p)
    BY <1>2, <1>6, <1>7, <1>8, PartKinds
  <2>4. FaqsLast(plan) /\ MasterFirst(plan)
    BY <1>4a, <1>6, <1>7, <2>1, <2>3, Zenon
  <2>5. Elems(plan) \subseteq Part
    BY <1>6, <2>2, <2>3
  <2>6. Needed(kind) \subseteq Elems(plan)
    <3>1. Needed(kind) = ({"html"} \X Locale) \union {Seo}
      BY <1>9 DEF Needed
    <3>2. \A lang \in Locale : <<"html", lang>> = Main \/ <<"html", lang>> \in Elems(Of("html"))
      BY <1>2 DEF Locale, Main
    <3> QED
      BY <1>7, <2>2, <3>1, <3>2
  <2> QED
    BY <1>9, <2>4, <2>5, <2>6 DEF Allowed
<1>10. CASE kind = "ua"
  <2> DEFINE three == <<Main, Slug, Seo>>
  <2>1. plan = Cat(three, faqs)
    BY <1>10 DEF Plan, Cat
  <2>2. three \in Todo /\ Elems(three) = {Main, Slug, Seo}
    BY <1>3 DEF Elems
  <2> HIDE DEF texts, faqs, slug, three
  <2>3. Elems(plan) = {Main, Slug, Seo} \union Elems(faqs)
    BY <1>4, <1>6, <2>1, <2>2, Zenon
  <2>4. FaqsLast(plan) /\ MasterFirst(plan)
    <3>1. \A p \in Elems(three) : ~IsFaq(p)
      BY <2>2, PartKinds
    <3> QED
      BY <1>4a, <1>6, <2>1, <2>2, <3>1, Zenon
  <2> QED
    BY <1>6, <1>10, <2>3, <2>4, PartKinds DEF Allowed, Needed
<1>11. CASE kind = "faq"
  <2>1. plan = Cat(<< >>, Faqs)
    BY <1>5, <1>11, ConcatEmptySeq DEF Plan, Todo, Cat
  <2>2. FaqsLast(plan) /\ MasterFirst(plan)
    BY <1>3, <1>4a, <1>5, <2>1, ElemsNone
  <2>3. plan = Faqs
    BY <1>11 DEF Plan
  <2> QED
    BY <1>5, <1>11, <2>2, <2>3 DEF Allowed, Needed
<1>12. CASE kind \in {"seo", "slug"}
  <2>1. PICK p \in {Seo, Slug} : plan = <<p>> /\ Allowed(kind) = {p} /\ Needed(kind) = {}
    BY <1>12 DEF Plan, Allowed, Needed
  <2>2. Elems(plan) = {p} /\ ~IsFaq(p) /\ DOMAIN plan = {1} /\ plan[1] = p
    BY <2>1, ElemsOne, PartKinds
  <2> QED
    BY <2>1, <2>2 DEF FaqsLast, MasterFirst
<1>13. CASE kind = "tool"
  BY <1>13, ElemsOne DEF Plan, Allowed
<1> QED
  BY <1>9, <1>10, <1>11, <1>12, <1>13 DEF Kinds
-----------------------------------------------------------------------------
(* What a run that ended on its way leaves: a whole entry, its findings shown. *)
LEMMA EndIsWhole ==
  ASSUME NEW r \in Run, r.todo = << >>, r.kind # "tool", NEW c \in Content, Plausible(c),
         NEW found, OnItsWay(r, c, found),
         NEW e, e.of = r.of, e.kind = r.kind, e.output = c
  PROVE  /\ Whole(e)
         /\ (IF r.kind = "seo" THEN Findings(c, {Seo}, {"text"}) ELSE Findings(c, Part, All))
              \subseteq (IF r.kind \in {"full", "ua"} THEN Merged(c, found) ELSE found)
<1>1. Underway(r, c) /\ ShownSoFar(r, c, found) /\ r.kind \in Kinds
  BY DEF OnItsWay, Run
<1>2. \A p \in Needed(r.kind) : c[p] # None
  BY <1>1, ElemsNone DEF Underway
<1>3. Whole(e)
  <2>1. \A p \in Part : c[p] # None /\ p # Slug => c[p].of = r.of
    BY <1>1 DEF Underway
  <2>2. r.kind \in {"full", "ua"} => c[Main] # None /\ c[Seo] # None
    BY <1>2 DEF Needed, Main, Locale
  <2>3. r.kind = "full" => \A lang \in Locale : c[<<"html", lang>>] # None
    BY <1>2 DEF Needed
  <2>4. \A lang \in Locale : c[<<"faq", lang>>] # None => c[Faq] # None
    BY <1>1, PartKinds DEF Underway
  <2> QED
    BY <1>1, <2>1, <2>2, <2>3, <2>4 DEF Whole
<1>4. CASE r.kind = "seo"
  <2>1. Findings(c, {Seo}, {"text"}) \subseteq found
    BY <1>1, <1>4 DEF ShownSoFar
  <2> QED
    BY <1>3, <1>4, <2>1
<1>5. CASE r.kind = "slug"
  <2>1. Findings(c, Part, All) \subseteq found
    BY <1>1, <1>5 DEF ShownSoFar
  <2> QED
    BY <1>3, <1>5, <2>1
<1>6. CASE r.kind = "faq"
  <2>1. \A p \in Part : c[p] # None => IsFaq(p)
    BY <1>1, <1>6 DEF ShownSoFar
  <2>2. Findings(c, Part, All) = {}
    BY <2>1 DEF Plausible, Findings
  <2> QED
    BY <1>3, <1>6, <2>2
<1>7. CASE r.kind \in {"full", "ua"}
  <2> SUFFICES ASSUME NEW p \in Part, c[p] # None, NEW f \in c[p].found, f \in All
               PROVE  <<c[p].of, p, f>> \in Merged(c, found)
    BY <1>3, <1>7 DEF Findings
  <2>1. ~IsFaq(p)
    <3>1. IsFaq(p) => c[p].found = {}
      BY DEF Plausible
    <3> QED
      BY <3>1
  <2>2. p \in Part \ ({"faq"} \X Locale)
    BY <2>1 DEF IsFaq
  <2>3. CASE f \in {"text", "shape"}
    BY <2>2, <2>3 DEF Merged, Findings
  <2>4. CASE f = "grounding"
    <3>1. p = Main /\ Findings(c, {Main}, {"grounding"}) \subseteq found
      BY <1>1, <1>7, <2>4 DEF Plausible, ShownSoFar
    <3> QED
      BY <2>4, <3>1 DEF Merged, Findings
  <2> QED
    BY <2>3, <2>4 DEF All
<1> QED
  BY <1>1, <1>4, <1>5, <1>6, <1>7 DEF Kinds

(* The newest entry is the first, the others are older ones.                 *)
LEMMA AddKeeps ==
  ASSUME NEW h \in Seq(Entry), NEW e \in Entry
  PROVE  /\ Add(h, e)[1] = e
         /\ \A n \in DOMAIN Add(h, e) : Add(h, e)[n] = e \/ \E m \in DOMAIN h : Add(h, e)[n] = h[m]
<1> DEFINE rest == IF Len(h) < MaxHistory THEN h ELSE SubSeq(h, 1, MaxHistory - 1)
<1>1. rest \in Seq(Entry) /\ \A n \in DOMAIN rest : n \in DOMAIN h /\ rest[n] = h[n]
  <2>1. CASE Len(h) < MaxHistory
    BY <2>1
  <2>2. CASE ~(Len(h) < MaxHistory)
    <3>1. MaxHistory \in Nat \ {0} /\ Len(h) \in Nat /\ DOMAIN h = 1..Len(h)
      BY OrchestratorAssumption
    <3>2. \A n \in 1..MaxHistory - 1 : n \in DOMAIN h /\ h[n] \in Entry
      BY <2>2, <3>1
    <3>3. /\ SubSeq(h, 1, MaxHistory - 1) \in Seq(Entry)
          /\ DOMAIN SubSeq(h, 1, MaxHistory - 1) = 1..MaxHistory - 1
          /\ \A n \in 1..MaxHistory - 1 : SubSeq(h, 1, MaxHistory - 1)[n] = h[n]
      BY <3>1, <3>2, SubSeqProperties, LenProperties
    <3> QED
      BY <2>2, <3>2, <3>3
  <2> QED
    BY <2>1, <2>2
<1> HIDE DEF rest
<1>2. <<e>> \in Seq(Entry) /\ Len(<<e>>) = 1 /\ <<e>>[1] = e
  OBVIOUS
<1>3. /\ Len(rest) \in Nat /\ DOMAIN rest = 1..Len(rest)
      /\ <<e>> \o rest \in Seq(Entry) /\ Len(<<e>> \o rest) = 1 + Len(rest)
      /\ \A n \in 1..1 + Len(rest) : (<<e>> \o rest)[n] = IF n <= 1 THEN <<e>>[n] ELSE rest[n - 1]
  BY <1>1, <1>2, ConcatProperties, LenProperties
<1>4. DOMAIN (<<e>> \o rest) = 1..1 + Len(rest)
  BY <1>3, LenProperties
<1>5. ASSUME NEW n \in 1..1 + Len(rest), n # 1
      PROVE  (<<e>> \o rest)[n] = rest[n - 1] /\ n - 1 \in DOMAIN rest
  BY <1>3, <1>5
<1>6. (<<e>> \o rest)[1] = e
  BY <1>2, <1>3
<1> QED
  BY <1>1, <1>4, <1>5, <1>6 DEF Add, rest

(* What a run still has to do is of its plan.                                *)
LEMMA PlanShrinks ==
  ASSUME Types, NEW i \in DOMAIN runs, Active(i), NEW rest \in {Tail(runs[i].todo), << >>},
         Elems(runs[i].todo) \subseteq Allowed(runs[i].kind)
  PROVE  Elems(rest) \subseteq Allowed(runs[i].kind) /\ Head(runs[i].todo) \in Allowed(runs[i].kind)
<1>1. runs[i].todo \in Seq(Part \union {Tool}) /\ runs[i].todo # << >>
  <2>1. runs[i] \in Run
    BY DEF Types
  <2> QED
    BY <2>1 DEF Run, Todo, Active
<1>2. Elems(runs[i].todo) = {Head(runs[i].todo)} \union Elems(Tail(runs[i].todo))
  BY <1>1, ElemsTail
<1> QED
  BY <1>2, ElemsNone

Becomes(i, r) == runs' = [runs EXCEPT ![i] = r]

(* A step of run i: on its way, or an output of a tool.                      *)
LEMMA WholeStep ==
  ASSUME OrchestratorInv, WholeInv, NEW i \in DOMAIN runs, Active(i),
         NEW c \in Content, Plausible(c), NEW rest \in {Tail(runs[i].todo), << >>},
         NEW found, Proceed(i, rest, c, found),
         NEW r \in Run, r.todo = rest, r.kind = runs[i].kind, r.of = runs[i].of, r.calm = runs[i].calm,
         Becomes(i, r),
         r.kind = "tool" => c = content /\ {f \in issues : f[2] # Tool} \subseteq found,
         r.calm /\ r.kind # "tool" => OnItsWay(r, c, found)
  PROVE  WholeInv'
<1> DEFINE entry == [run |-> i, of |-> r.of, kind |-> r.kind, calm |-> r.calm, output |-> c]
<1>1. /\ Types /\ Alone /\ runs \in Seq(Run) /\ history \in Seq(Entry)
      /\ Len(runs) \in Nat /\ DOMAIN runs = 1..Len(runs)
  BY DEF OrchestratorInv, Types
<1>2. /\ DOMAIN runs' = DOMAIN runs
      /\ \A j \in DOMAIN runs : runs'[j] = IF j = i THEN r ELSE runs[j]
  BY <1>1, ExceptSeq DEF Becomes
<1>3. /\ content' = c
      /\ issues' = IF rest = << >> /\ r.kind \in {"full", "ua"} THEN Merged(c, found) ELSE found
      /\ history' = IF rest = << >> /\ r.kind # "tool" THEN Add(history, entry) ELSE history
  BY DEF Proceed
<1>4. entry \in Entry
  BY <1>1 DEF Entry, Run
<1>5. \A j \in DOMAIN runs : /\ Active(j)' => Active(j)
                             /\ j # i => (Active(j)' <=> Active(j))
                             /\ runs'[j].kind = runs[j].kind /\ runs'[j].calm = runs[j].calm
  BY <1>2 DEF Active
<1>6. Active(i)' <=> rest # << >>
  BY <1>2 DEF Active
<1>7. Elems(rest) \subseteq Allowed(r.kind)
  BY <1>1, PlanShrinks DEF WholeInv
<1>8. \A j \in DOMAIN runs' : Elems(runs'[j].todo) \subseteq Allowed(runs'[j].kind)
  BY <1>2, <1>7 DEF WholeInv
<1>9. \A j \in DOMAIN runs' : runs'[j].calm => \A k \in DOMAIN runs' : k < j => ~Active(k)'
  BY <1>2, <1>5 DEF WholeInv
<1>10. ASSUME NEW j \in Running', runs'[j].calm /\ runs'[j].kind # "tool"
       PROVE  OnItsWay(runs'[j], content', issues')
  <2>1. j \in DOMAIN runs /\ Active(j)' /\ j \in Running /\ runs[j].calm /\ i \in Running
    BY <1>2, <1>5, <1>10 DEF Running
  <2>2. j = i
    BY <1>1, <2>1 DEF Alone
  <2>3. rest # << >> /\ runs'[j] = r
    BY <1>2, <1>6, <2>1, <2>2
  <2> QED
    BY <1>3, <1>10, <2>3
<1> HIDE DEF entry
<1>11. CASE rest = << >> /\ r.kind # "tool"
  <2> DEFINE shown == IF r.kind \in {"full", "ua"} THEN Merged(c, found) ELSE found
  <2>1. history' = Add(history, entry) /\ issues' = shown
    BY <1>3, <1>11
  <2>2. r.calm =>
          /\ Whole(entry)
          /\ (IF r.kind = "seo" THEN Findings(c, {Seo}, {"text"}) ELSE Findings(c, Part, All))
               \subseteq shown
    <3>1. entry.of = r.of /\ entry.kind = r.kind /\ entry.output = c
      BY DEF entry
    <3> HIDE DEF shown
    <3> SUFFICES ASSUME r.calm
                 PROVE  /\ Whole(entry)
                        /\ (IF r.kind = "seo" THEN Findings(c, {Seo}, {"text"}) ELSE Findings(c, Part, All))
                              \subseteq shown
      OBVIOUS
    <3>2. OnItsWay(r, c, found) /\ r.todo = << >>
      BY <1>11
    <3> QED
      BY <1>11, <3>1, <3>2, EndIsWhole DEF shown
  <2>3. Whole(entry)
    <3>1. entry.calm = r.calm
      BY DEF entry
    <3> QED
      BY <2>2, <3>1 DEF Whole
  <2>4. Saved(entry, runs')
    <3>1. entry.run = i /\ entry.output = c /\ runs'[i].todo = << >> /\ i \in DOMAIN runs'
      BY <1>2, <1>11 DEF entry
    <3> QED
      BY <2>3, <3>1 DEF Saved
  <2>5. ASSUME NEW m \in DOMAIN history PROVE Saved(history[m], runs')
    <3>1. Saved(history[m], runs)
      BY DEF WholeInv
    <3> QED
      BY <1>2, <1>11, <3>1 DEF Saved
  <2>6. \A n \in DOMAIN history' : Saved(history'[n], runs')
    <3> SUFFICES ASSUME NEW n \in DOMAIN history' PROVE Saved(history'[n], runs')
      OBVIOUS
    <3>1. history'[n] = entry \/ \E m \in DOMAIN history : history'[n] = history[m]
      BY <1>1, <1>4, <2>1, AddKeeps
    <3> QED
      BY <2>4, <2>5, <3>1
  <2>7. FindingsAreShown'
    <3> SUFFICES ASSUME NEW k \in Kept'
                 PROVE  (IF runs'[k].kind = "seo" THEN Findings(c, {Seo}, {"text"})
                                                  ELSE Findings(c, Part, All)) \subseteq shown
      BY <1>3, <2>1 DEF FindingsAreShown, All
    <3>1. history'[1].run = i
      BY <1>1, <1>4, <2>1, AddKeeps DEF entry
    <3>2. k = i /\ runs'[k].calm /\ k \in DOMAIN runs'
      BY <3>1 DEF Kept, Latest
    <3> QED
      BY <1>2, <2>2, <3>2
  <2> QED
    BY <1>3, <1>8, <1>9, <1>10, <2>6, <2>7 DEF WholeInv
<1>12. CASE ~(rest = << >> /\ r.kind # "tool")
  <2>1. history' = history
    BY <1>3, <1>12
  <2>2. \A n \in DOMAIN history' : Saved(history'[n], runs')
    <3> SUFFICES ASSUME NEW n \in DOMAIN history PROVE Saved(history[n], runs')
      BY <2>1
    <3>1. Saved(history[n], runs)
      BY DEF WholeInv
    <3> QED
      BY <1>2, <1>5, <3>1 DEF Saved, Active
  <2>3. FindingsAreShown'
    <3> SUFFICES ASSUME NEW k \in Kept'
                 PROVE  (IF runs'[k].kind = "seo" THEN Findings(c, {Seo}, {"text"})
                                                  ELSE Findings(c, Part, All)) \subseteq issues'
      BY <1>3 DEF FindingsAreShown, All
    <3>1. k \in Kept /\ k \in DOMAIN runs /\ runs[k].calm /\ runs[k].kind # "tool"
          /\ history # << >> /\ history[1].run = k
          /\ \A j \in DOMAIN runs : runs[j].kind # "tool" => j <= k
      BY <1>2, <1>5, <2>1 DEF Kept, Latest
    <3>2. ~Active(k) /\ k # i
      <4>1. 1 \in DOMAIN history
        <5>1. Len(history) \in Nat /\ DOMAIN history = 1..Len(history) /\ Len(history) # 0
          BY <1>1, <3>1, LenProperties, EmptySeq
        <5> QED
          BY <5>1
      <4> QED
        BY <3>1, <4>1 DEF WholeInv, Saved, Active
    <3>3. runs[i].kind = "tool"
      <4> SUFFICES ASSUME runs[i].kind # "tool" PROVE FALSE
        OBVIOUS
      <4>1. i < k
        BY <1>1, <3>1, <3>2
      <4> QED
        BY <3>1, <4>1 DEF WholeInv
    <3>4. content = c /\ issues' = found /\ {f \in issues : f[2] # Tool} \subseteq found
      BY <1>3, <3>3
    <3>5. (IF runs[k].kind = "seo" THEN Findings(c, {Seo}, {"text"})
                                   ELSE Findings(c, Part, All)) \subseteq issues
      BY <3>1, <3>4 DEF WholeInv, FindingsAreShown, All
    <3>6. \A f \in Findings(c, {Seo}, {"text"}) \union Findings(c, Part, All) : f[2] # Tool
      BY PartKinds DEF Findings
    <3> QED
      BY <1>5, <3>1, <3>4, <3>5, <3>6
  <2> QED
    BY <1>3, <1>8, <1>9, <1>10, <2>2, <2>3 DEF WholeInv
<1> QED
  BY <1>11, <1>12

(* A part is stored: one thing less to do.                                   *)
LEMMA UnderwayGoesOn ==
  ASSUME NEW r \in Run, r.todo # << >>, NEW c \in Content, Underway(r, c),
         NEW piece \in Piece, piece.of = r.of, NEW p \in Part, p = Head(r.todo),
         NEW d, d = [c EXCEPT ![p] = piece],
         NEW q, q.todo = Tail(r.todo), q.kind = r.kind, q.of = r.of
  PROVE  Underway(q, d)
<1>1. \A x \in Part : d[x] = IF x = p THEN piece ELSE c[x]
  BY DEF Content
<1>2. piece # None
  BY NoneIsNoPiece
<1>3. r.todo \in Seq(Part \union {Tool})
  BY DEF Run, Todo
<1>4. Elems(r.todo) = {p} \union Elems(q.todo) /\ FaqsLast(q.todo)
  BY <1>3, ElemsTail DEF Underway
<1>5. Needed(r.kind) \subseteq Part
  BY PartKinds DEF Needed, Part
<1>6. \A x \in Needed(q.kind) : d[x] # None \/ x \in Elems(q.todo)
  BY <1>1, <1>2, <1>4, <1>5 DEF Underway
<1>7. \A x \in Part : d[x] # None /\ x # Slug => d[x].of = q.of
  BY <1>1 DEF Underway
<1>8. d[Faq] # None \/ (MasterFirst(q.todo) /\ \A x \in Part : IsFaq(x) => d[x] = None)
  <2>1. CASE c[Faq] # None \/ p = Faq
    BY <1>1, <1>2, <2>1, PartKinds
  <2>2. CASE c[Faq] = None /\ p # Faq
    <3>1. MasterFirst(r.todo) /\ \A x \in Part : IsFaq(x) => c[x] = None
      BY <2>2 DEF Underway
    <3>2. MasterFirst(q.todo) /\ ~IsFaq(p)
      BY <1>3, <2>2, <3>1, ElemsTail
    <3> QED
      BY <1>1, <3>1, <3>2
  <2> QED
    BY <2>1, <2>2
<1> QED
  BY <1>4, <1>6, <1>7, <1>8 DEF Underway

(* A part nobody needs is left out, of the FAQ with all that follows.        *)
LEMMA UnderwaySkips ==
  ASSUME NEW r \in Run, r.todo # << >>, NEW c \in Content, Underway(r, c),
         Head(r.todo) = Slug \/ IsFaq(Head(r.todo)),
         NEW q, q.kind = r.kind, q.of = r.of,
         \/ q.todo = Tail(r.todo) /\ Head(r.todo) # Faq
         \/ q.todo = << >> /\ IsFaq(Head(r.todo))
  PROVE  Underway(q, c)
<1>1. r.todo \in Seq(Part \union {Tool})
  BY DEF Run, Todo
<1>2. \A x \in Needed(r.kind) : x # Slug /\ ~IsFaq(x)
  BY PartKinds DEF Needed, IsFaq, Slug
<1>3. CASE q.todo = Tail(r.todo) /\ Head(r.todo) # Faq
  <2>1. Elems(r.todo) = {Head(r.todo)} \union Elems(q.todo) /\ FaqsLast(q.todo)
    BY <1>1, <1>3, ElemsTail DEF Underway
  <2>2. \A x \in Needed(q.kind) : c[x] # None \/ x \in Elems(q.todo)
    BY <1>2, <2>1 DEF Underway
  <2>3. c[Faq] # None \/ (MasterFirst(q.todo) /\ \A x \in Part : IsFaq(x) => c[x] = None)
    <3>1. MasterFirst(r.todo) => MasterFirst(q.todo)
      BY <1>1, <1>3, ElemsTail
    <3> QED
      BY <3>1 DEF Underway
  <2> QED
    BY <2>1, <2>2, <2>3 DEF Underway
<1>4. CASE q.todo = << >> /\ IsFaq(Head(r.todo))
  <2>1. \A x \in Elems(r.todo) : IsFaq(x)
    BY <1>1, <1>4, ElemsTail DEF Underway
  <2>2. \A x \in Needed(q.kind) : c[x] # None
    BY <1>2, <2>1 DEF Underway
  <2>3. FaqsLast(q.todo) /\ MasterFirst(q.todo)
    BY <1>4 DEF FaqsLast, MasterFirst
  <2> QED
    BY <2>2, <2>3 DEF Underway
<1> QED
  BY <1>3, <1>4

(* What has to be shown stays shown when findings are added to those shown.  *)
LEMMA ShownStays ==
  ASSUME NEW r, r.kind \in Kinds \ {"tool"}, NEW c \in Content, NEW shown, ShownSoFar(r, c, shown),
         NEW p \in Part, p \in Allowed(r.kind), p # Main, ~(r.kind = "seo" /\ p = Seo),
         r.kind # "slug", NEW d, \A x \in Part : x # p => d[x] = c[x],
         NEW more, shown \subseteq more, NEW q, q.kind = r.kind
  PROVE  ShownSoFar(q, d, more)
<1>2. CASE r.kind = "seo"
  BY <1>2 DEF Allowed
<1>3. CASE r.kind = "faq"
  <2>1. \A x \in Part : c[x] # None => IsFaq(x)
    BY <1>3 DEF ShownSoFar
  <2>2. IsFaq(p)
    BY <1>3 DEF Allowed
  <2>3. \A x \in Part : d[x] # None => IsFaq(x)
    BY <2>1, <2>2
  <2> QED
    BY <1>3, <2>3 DEF ShownSoFar
<1>4. CASE r.kind \in {"full", "ua"}
  <2>1. Findings(c, {Main}, {"grounding"}) \subseteq shown
    BY <1>4 DEF ShownSoFar
  <2>2. d[Main] = c[Main]
    BY PartKinds
  <2>3. Findings(d, {Main}, {"grounding"}) \subseteq more
    BY <2>1, <2>2 DEF Findings
  <2> QED
    BY <1>4, <2>3 DEF ShownSoFar
<1> QED
  BY <1>2, <1>3, <1>4 DEF Kinds

LEMMA PieceIsPlausible ==
  ASSUME NEW c \in Content, Plausible(c), NEW p \in Part, NEW piece \in Piece,
         IsFaq(p) => piece.found = {}, "grounding" \in piece.found => p = Main
  PROVE  Plausible([c EXCEPT ![p] = piece])
BY DEF Plausible, Content

(* A text run at a part of its plan.                                         *)
LEMMA RunAtPart ==
  ASSUME Types, WholeInv, NEW i \in DOMAIN runs, NEW p \in Part, Doing(i, p)
  PROVE  /\ Active(i) /\ runs[i] \in Run /\ runs[i].todo # << >> /\ p = Head(runs[i].todo)
         /\ runs[i].kind \in Kinds \ {"tool"} /\ p \in Allowed(runs[i].kind)
         /\ runs[i].of \in Product /\ runs[i].names \in Product \union {None}
         /\ content \in Content /\ Plausible(content)
         /\ runs[i].calm => Underway(runs[i], content) /\ ShownSoFar(runs[i], content, issues)
<1>1. Active(i) /\ runs[i].todo # << >> /\ p = Head(runs[i].todo) /\ i \in Running
  BY DEF Doing, Active, Running
<1>2. runs[i] \in Run /\ content \in Content
  BY DEF Types
<1>3. p \in Allowed(runs[i].kind)
  <2>1. Elems(runs[i].todo) \subseteq Allowed(runs[i].kind)
    BY DEF WholeInv
  <2> QED
    BY <1>1, <2>1, PlanShrinks
<1>4. runs[i].kind \in Kinds \ {"tool"}
  BY <1>2, <1>3, PartKinds DEF Run, Allowed
<1>5. Plausible(content) /\ (runs[i].calm => OnItsWay(runs[i], content, issues))
  BY <1>1, <1>4 DEF WholeInv
<1>6. runs[i].of \in Product /\ runs[i].names \in Product \union {None}
  BY <1>2 DEF Run
<1> QED
  BY <1>1, <1>2, <1>3, <1>4, <1>5, <1>6 DEF OnItsWay

(* A part is stored.                                                         *)
LEMMA StoredPart ==
  ASSUME OrchestratorInv, WholeInv, NEW i \in DOMAIN runs, NEW p \in Part, Doing(i, p),
         NEW piece \in Piece, piece.of = runs[i].of,
         IsFaq(p) => piece.found = {}, "grounding" \in piece.found => p = Main,
         NEW c, c = [content EXCEPT ![p] = piece], NEW found, Proceed(i, Tail(runs[i].todo), c, found),
         NEW n \in Product \union {None},
         \/ runs' = [runs EXCEPT ![i].todo = Tail(runs[i].todo)]
         \/ runs' = [runs EXCEPT ![i].todo = Tail(runs[i].todo), ![i].names = n],
         runs[i].calm => ShownSoFar(runs[i], c, found)
  PROVE  WholeInv'
<1> DEFINE rest == Tail(runs[i].todo)
<1>1. Types
  BY DEF OrchestratorInv
<1>2. /\ Active(i) /\ runs[i] \in Run /\ runs[i].todo # << >> /\ p = Head(runs[i].todo)
      /\ runs[i].kind # "tool" /\ content \in Content /\ Plausible(content)
      /\ runs[i].calm => Underway(runs[i], content)
  BY <1>1, RunAtPart
<1>3. PICK r \in Run : /\ r.todo = rest /\ r.kind = runs[i].kind /\ r.calm = runs[i].calm
                       /\ r.of = runs[i].of /\ Becomes(i, r)
  <2>1. CASE runs' = [runs EXCEPT ![i].todo = rest]
    <3> DEFINE r == [runs[i] EXCEPT !.todo = rest]
    <3>1. r \in Run /\ r.todo = rest /\ r.kind = runs[i].kind /\ r.calm = runs[i].calm
      BY <1>1, <1>2, RunGoesOn
    <3>2. r.of = runs[i].of
      BY <1>2 DEF Run
    <3> QED
      BY <2>1, <3>1, <3>2 DEF Becomes
  <2>2. CASE runs' = [runs EXCEPT ![i].todo = rest, ![i].names = n]
    <3> DEFINE r == [runs[i] EXCEPT !.todo = rest, !.names = n]
    <3>1. r \in Run /\ r.todo = rest /\ r.kind = runs[i].kind /\ r.calm = runs[i].calm
      BY <1>1, <1>2, RunGoesOn
    <3>2. r.of = runs[i].of
      BY <1>2 DEF Run
    <3>3. Becomes(i, r)
      BY <1>1, <2>2 DEF Types, Becomes
    <3> QED
      BY <3>1, <3>2, <3>3
  <2> QED
    BY <2>1, <2>2
<1>4. c \in Content /\ Plausible(c)
  BY <1>1, <1>2, OtherPart, PieceIsPlausible
<1>5. ASSUME r.calm PROVE OnItsWay(r, c, found)
  <2>1. Underway(r, c)
    BY <1>2, <1>3, <1>5, UnderwayGoesOn
  <2>2. ShownSoFar(r, c, found)
    BY <1>3, <1>5 DEF ShownSoFar
  <2> QED
    BY <2>1, <2>2 DEF OnItsWay
<1> QED
  BY <1>2, <1>3, <1>4, <1>5, WholeStep

(* A part is left out.                                                       *)
LEMMA SkippedPart ==
  ASSUME OrchestratorInv, WholeInv, NEW i \in DOMAIN runs, NEW p \in Part, Doing(i, p),
         p = Slug \/ IsFaq(p), runs[i].kind # "slug",
         NEW rest, \/ rest = Tail(runs[i].todo) /\ p # Faq
                   \/ rest = << >> /\ IsFaq(p),
         NEW found, issues \subseteq found, Proceed(i, rest, content, found),
         runs' = [runs EXCEPT ![i].todo = rest]
  PROVE  WholeInv'
<1>1. Types
  BY DEF OrchestratorInv
<1>2. /\ Active(i) /\ runs[i] \in Run /\ runs[i].todo # << >> /\ p = Head(runs[i].todo)
      /\ runs[i].kind \in Kinds \ {"tool"} /\ p \in Allowed(runs[i].kind)
      /\ content \in Content /\ Plausible(content)
      /\ runs[i].calm => Underway(runs[i], content) /\ ShownSoFar(runs[i], content, issues)
  BY <1>1, RunAtPart
<1>3. rest \in {Tail(runs[i].todo), << >>}
  OBVIOUS
<1>4. PICK r \in Run : /\ r.todo = rest /\ r.kind = runs[i].kind /\ r.calm = runs[i].calm
                       /\ r.of = runs[i].of /\ Becomes(i, r)
  <2> DEFINE r == [runs[i] EXCEPT !.todo = rest]
  <2>1. r \in Run /\ r.todo = rest /\ r.kind = runs[i].kind /\ r.calm = runs[i].calm
    BY <1>1, <1>2, <1>3, RunGoesOn
  <2>2. r.of = runs[i].of
    BY <1>2 DEF Run
  <2> QED
    BY <2>1, <2>2 DEF Becomes
<1>5. ASSUME r.calm PROVE OnItsWay(r, content, found)
  <2>1. Underway(r, content)
    BY <1>2, <1>4, <1>5, UnderwaySkips
  <2>2. ShownSoFar(r, content, found)
    <3>1. p # Main /\ ~(runs[i].kind = "seo" /\ p = Seo)
      BY PartKinds
    <3> QED
      BY <1>2, <1>4, <1>5, <3>1, ShownStays
  <2> QED
    BY <2>1, <2>2 DEF OnItsWay
<1> QED
  BY <1>2, <1>3, <1>4, <1>5, WholeStep

(* The master: its findings are the ones shown.                              *)
LEMMA MainWhole == ASSUME OrchestratorInv, WholeInv, NEW i \in DOMAIN runs, MainDone(i) PROVE WholeInv'
<1>1. Types /\ Doing(i, Main) /\ Main \in Part /\ ~IsFaq(Main)
  BY PartKinds DEF OrchestratorInv, MainDone
<1>2. PICK found \in AtMostOne({"text", "grounding"}) :
        LET piece == Written(i, runs[i].of, found)
            rest == Tail(runs[i].todo)
        IN  /\ report' = AddReport(Reported(piece, Main))
            /\ Proceed(i, rest, [content EXCEPT ![Main] = piece], Reported(piece, Main))
            /\ runs' = [runs EXCEPT ![i].todo = rest]
  BY DEF MainDone
<1>3. PICK piece : piece = Written(i, runs[i].of, found)
  OBVIOUS
<1>4. /\ runs[i].kind \in Kinds \ {"tool"} /\ Main \in Allowed(runs[i].kind)
      /\ runs[i].of \in Product /\ content \in Content
  BY <1>1, RunAtPart
<1>5. piece \in Piece /\ piece.of = runs[i].of
  BY <1>1, <1>3, <1>4, PieceType DEF AtMostOne, Written
<1>6. PICK c : c = [content EXCEPT ![Main] = piece]
  OBVIOUS
<1>7. ShownSoFar(runs[i], c, Reported(piece, Main))
  <2>1. runs[i].kind \notin {"slug", "seo", "faq"}
    BY <1>1, <1>4, PartKinds DEF Allowed
  <2>2. c[Main] = piece
    BY <1>1, <1>4, <1>6 DEF Content
  <2>3. Findings(c, {Main}, {"grounding"}) \subseteq Reported(piece, Main)
    BY <2>2 DEF Findings, Reported
  <2> QED
    BY <2>1, <2>3 DEF ShownSoFar
<1> QED
  BY <1>1, <1>2, <1>3, <1>4, <1>5, <1>6, <1>7, StoredPart

LEMMA SlugWhole == ASSUME OrchestratorInv, WholeInv, NEW i \in DOMAIN runs, SlugDone(i) PROVE WholeInv'
<1>1. Types /\ Doing(i, Slug) /\ Slug \in Part /\ ~IsFaq(Slug) /\ Slug # Main /\ Slug # Seo
  BY PartKinds DEF OrchestratorInv, SlugDone
<1>2. PICK found \in AtMostOne({"text"}) :
        /\ report' = AddReport(Reported(Written(i, runs[i].of, found), Slug))
        /\ Proceed(i, Tail(runs[i].todo), [content EXCEPT ![Slug] = Written(i, runs[i].of, found)],
                   IF runs[i].kind = "slug" THEN Reported(Written(i, runs[i].of, found), Slug) ELSE issues)
        /\ runs' = [runs EXCEPT ![i].todo = Tail(runs[i].todo), ![i].names = runs[i].of]
  BY DEF SlugDone
<1>3. PICK piece : piece = Written(i, runs[i].of, found)
  OBVIOUS
<1>4. /\ runs[i].kind \in Kinds \ {"tool"} /\ Slug \in Allowed(runs[i].kind)
      /\ runs[i].of \in Product /\ content \in Content
      /\ runs[i].calm => ShownSoFar(runs[i], content, issues)
  BY <1>1, RunAtPart
<1>5. piece \in Piece /\ piece.of = runs[i].of /\ "grounding" \notin piece.found
  BY <1>1, <1>3, <1>4, PieceType DEF AtMostOne, Written
<1>6. PICK c : c = [content EXCEPT ![Slug] = piece]
  OBVIOUS
<1>7. PICK shown : shown = IF runs[i].kind = "slug" THEN Reported(piece, Slug) ELSE issues
  OBVIOUS
<1>8. ASSUME runs[i].calm PROVE ShownSoFar(runs[i], c, shown)
  <2>1. CASE runs[i].kind = "slug"
    <3>1. \A p \in Part : content[p] # None => p = Slug
      BY <1>4, <1>8, <2>1 DEF ShownSoFar
    <3>2. c[Slug] = piece /\ \A p \in Part : c[p] # None => p = Slug
      BY <1>1, <1>4, <1>6, <3>1 DEF Content
    <3>3. Findings(c, Part, All) \subseteq Reported(piece, Slug)
      BY <3>2 DEF Findings, Reported
    <3> QED
      BY <1>7, <2>1, <3>2, <3>3 DEF ShownSoFar
  <2>2. CASE runs[i].kind # "slug"
    <3>1. shown = issues
      BY <1>7, <2>2
    <3>2. \A x \in Part : x # Slug => c[x] = content[x]
      BY <1>4, <1>6 DEF Content
    <3> QED
      BY <1>1, <1>4, <1>8, <2>2, <3>1, <3>2, ShownStays
  <2> QED
    BY <2>1, <2>2
<1> QED
  BY <1>1, <1>2, <1>3, <1>4, <1>5, <1>6, <1>7, <1>8, StoredPart

LEMMA SeoWhole == ASSUME OrchestratorInv, WholeInv, NEW i \in DOMAIN runs, SeoDone(i) PROVE WholeInv'
<1>1. Types /\ Doing(i, Seo) /\ Seo \in Part /\ ~IsFaq(Seo) /\ Seo # Main /\ Slug # Seo
  BY PartKinds DEF OrchestratorInv, SeoDone
<1>2. PICK found \in AtMostOne({"text", "shape"}) :
        LET piece == Written(i, runs[i].names, found)
            rest == Tail(runs[i].todo)
            shown == {<<piece.of, Seo, f>> : f \in found \intersect {"text"}}
        IN  /\ report' = AddReport(Reported(piece, Seo))
            /\ Proceed(i, rest, [content EXCEPT ![Seo] = piece],
                       IF runs[i].kind = "seo" THEN shown ELSE issues)
            /\ runs' = [runs EXCEPT ![i].todo = rest]
  BY DEF SeoDone
<1>3. PICK piece : piece = Written(i, runs[i].names, found)
  OBVIOUS
<1>4. /\ runs[i].kind \in Kinds \ {"tool"} /\ Seo \in Allowed(runs[i].kind)
      /\ runs[i].names \in Product \union {None} /\ content \in Content
      /\ runs[i].calm => ShownSoFar(runs[i], content, issues)
  BY <1>1, RunAtPart
<1>5. piece \in Piece /\ piece.of = runs[i].of /\ "grounding" \notin piece.found /\ piece.found = found
  <2>1. found \subseteq {"text", "shape"}
    BY DEF AtMostOne
  <2>2. piece \in Piece
    BY <1>1, <1>3, <1>4, <2>1, PieceType
  <2> QED
    BY <1>3, <2>1, <2>2 DEF Written
<1>6. PICK c : c = [content EXCEPT ![Seo] = piece]
  OBVIOUS
<1>7. PICK shown : shown = IF runs[i].kind = "seo"
                           THEN {<<piece.of, Seo, f>> : f \in found \intersect {"text"}} ELSE issues
  OBVIOUS
<1>8. ASSUME runs[i].calm PROVE ShownSoFar(runs[i], c, shown)
  <2>1. CASE runs[i].kind = "seo"
    <3>1. c[Seo] = piece
      BY <1>1, <1>4, <1>6 DEF Content
    <3>2. Findings(c, {Seo}, {"text"}) \subseteq {<<piece.of, Seo, f>> : f \in found \intersect {"text"}}
      BY <1>5, <3>1 DEF Findings
    <3> QED
      BY <1>7, <2>1, <3>2 DEF ShownSoFar
  <2>2. CASE runs[i].kind # "seo"
    <3>1. shown = issues /\ runs[i].kind # "slug"
      BY <1>1, <1>4, <1>7, <2>2 DEF Allowed
    <3>2. \A x \in Part : x # Seo => c[x] = content[x]
      BY <1>4, <1>6 DEF Content
    <3> QED
      BY <1>1, <1>4, <1>8, <2>2, <3>1, <3>2, ShownStays
  <2> QED
    BY <2>1, <2>2
<1>9. /\ Proceed(i, Tail(runs[i].todo), c, shown)
      /\ runs' = [runs EXCEPT ![i].todo = Tail(runs[i].todo)]
  BY <1>2, <1>3, <1>5, <1>6, <1>7
<1> QED
  BY <1>1, <1>4, <1>5, <1>6, <1>8, <1>9, StoredPart

LEMMA TranslationWhole ==
  ASSUME OrchestratorInv, WholeInv, NEW i \in DOMAIN runs, NEW lang \in Locale, TranslationDone(i, lang)
  PROVE  WholeInv'
<1>1. PICK part : part = <<"html", lang>>
  OBVIOUS
<1>2. /\ Types /\ Doing(i, part) /\ part # Main /\ part \in Part /\ ~IsFaq(part)
      /\ part # Slug /\ part # Seo
  BY <1>1, PartKinds DEF OrchestratorInv, TranslationDone, Slug, Seo
<1>3. PICK found \in AtMostOne({"text"}) :
        LET piece == Written(i, runs[i].names, found)
        IN  /\ report' = AddReport(Reported(piece, part))
            /\ Proceed(i, Tail(runs[i].todo), [content EXCEPT ![part] = piece],
                       issues \union Reported(piece, part))
  BY <1>1 DEF TranslationDone
<1>4. runs' = [runs EXCEPT ![i].todo = Tail(runs[i].todo)]
  BY DEF TranslationDone
<1>5. PICK piece : piece = Written(i, runs[i].names, found)
  OBVIOUS
<1>6. /\ runs[i].kind \in Kinds \ {"tool"} /\ part \in Allowed(runs[i].kind)
      /\ runs[i].names \in Product \union {None} /\ content \in Content
      /\ runs[i].calm => ShownSoFar(runs[i], content, issues)
  BY <1>2, RunAtPart
<1>7. piece \in Piece /\ piece.of = runs[i].of /\ "grounding" \notin piece.found
  <2>1. found \subseteq {"text"}
    BY DEF AtMostOne
  <2>2. piece \in Piece
    BY <1>2, <1>5, <1>6, <2>1, PieceType
  <2> QED
    BY <1>5, <2>1, <2>2 DEF Written
<1>8. PICK c : c = [content EXCEPT ![part] = piece]
  OBVIOUS
<1>9. PICK shown : shown = issues \union Reported(piece, part)
  OBVIOUS
<1>10. ASSUME runs[i].calm PROVE ShownSoFar(runs[i], c, shown)
  <2>1. issues \subseteq shown /\ \A x \in Part : x # part => c[x] = content[x]
    BY <1>6, <1>8, <1>9 DEF Content
  <2>2. runs[i].kind # "slug"
    BY <1>2, <1>6 DEF Allowed
  <2> QED
    BY <1>2, <1>6, <1>10, <2>1, <2>2, ShownStays
<1>11. Proceed(i, Tail(runs[i].todo), c, shown)
  BY <1>3, <1>5, <1>8, <1>9
<1> QED
  BY <1>2, <1>4, <1>6, <1>7, <1>8, <1>10, <1>11, StoredPart

(* A FAQ is stored.                                                          *)
LEMMA FaqStored ==
  ASSUME OrchestratorInv, WholeInv, NEW i \in DOMAIN runs, NEW part \in Part, IsFaq(part),
         Doing(i, part), Stored(i, part)
  PROVE  WholeInv'
<1>1. Types /\ part # Main /\ part # Slug /\ part # Seo
  BY PartKinds DEF OrchestratorInv
<1>2. PICK piece : piece = Written(i, None, {})
  OBVIOUS
<1>3. piece \in Piece /\ piece.of = runs[i].of /\ piece.found = {}
  <2>1. piece \in Piece
    BY <1>1, <1>2, PieceType
  <2> QED
    BY <1>2, <2>1 DEF Written
<1>4. /\ runs[i].kind \in Kinds \ {"tool"} /\ part \in Allowed(runs[i].kind) /\ content \in Content
      /\ runs[i].calm => ShownSoFar(runs[i], content, issues)
  BY <1>1, RunAtPart
<1>5. PICK c : c = [content EXCEPT ![part] = piece]
  OBVIOUS
<1>6. /\ Proceed(i, Tail(runs[i].todo), c, issues)
      /\ runs' = [runs EXCEPT ![i].todo = Tail(runs[i].todo)]
  BY <1>2, <1>5 DEF Stored
<1>7. ASSUME runs[i].calm PROVE ShownSoFar(runs[i], c, issues)
  <2>1. \A x \in Part : x # part => c[x] = content[x]
    BY <1>4, <1>5 DEF Content
  <2>2. runs[i].kind # "slug"
    BY <1>1, <1>4 DEF Allowed
  <2> QED
    BY <1>1, <1>4, <1>7, <2>1, <2>2, ShownStays
<1>8. None \in Product \union {None}
  OBVIOUS
<1> QED
  BY <1>3, <1>5, <1>6, <1>7, <1>8, StoredPart

LEMMA FaqWhole == ASSUME OrchestratorInv, WholeInv, NEW i \in DOMAIN runs, FaqDone(i) PROVE WholeInv'
<1>1. Types /\ Doing(i, Faq) /\ Faq \in Part /\ IsFaq(Faq)
  BY PartKinds DEF OrchestratorInv, FaqDone
<1>2. CASE Stored(i, Faq)
  BY <1>1, <1>2, FaqStored
<1>3. ASSUME NEW more, Proceed(i, << >>, content, issues \union more),
             runs' = [runs EXCEPT ![i].todo = << >>]
      PROVE  WholeInv'
  <2>1. runs[i].kind # "slug"
    <3>1. Faq \in Allowed(runs[i].kind)
      BY <1>1, RunAtPart
    <3> QED
      BY <1>1, <3>1, PartKinds DEF Allowed
  <2>2. issues \subseteq issues \union more
    OBVIOUS
  <2> QED
    BY <1>1, <1>3, <2>1, <2>2, SkippedPart
<1> QED
  BY <1>2, <1>3 DEF FaqDone

LEMMA FaqTranslatedWhole ==
  ASSUME OrchestratorInv, WholeInv, NEW i \in DOMAIN runs, NEW lang \in Locale, FaqTranslated(i, lang)
  PROVE  WholeInv'
<1>1. PICK part : part = <<"faq", lang>>
  OBVIOUS
<1>2. Types /\ Doing(i, part) /\ part # Faq /\ part \in Part /\ IsFaq(part)
  BY <1>1, PartKinds DEF OrchestratorInv, FaqTranslated
<1>3. CASE Stored(i, part)
  BY <1>2, <1>3, FaqStored
<1>4. CASE /\ Proceed(i, Tail(runs[i].todo), content, issues \union {<<runs[i].of, part, "failed">>})
           /\ runs' = [runs EXCEPT ![i].todo = Tail(runs[i].todo)]
  <2>1. runs[i].kind # "slug"
    <3>1. part \in Allowed(runs[i].kind)
      BY <1>2, RunAtPart
    <3> QED
      BY <1>2, <3>1, PartKinds DEF Allowed
  <2>2. issues \subseteq issues \union {<<runs[i].of, part, "failed">>}
    OBVIOUS
  <2>3. PICK rest : rest = Tail(runs[i].todo)
    OBVIOUS
  <2>4. PICK found : found = issues \union {<<runs[i].of, part, "failed">>}
    OBVIOUS
  <2> QED
    BY <1>2, <1>4, <2>1, <2>2, <2>3, <2>4, SkippedPart
<1> QED
  BY <1>1, <1>3, <1>4 DEF FaqTranslated

LEMMA SlugSkippedWhole ==
  ASSUME OrchestratorInv, WholeInv, NEW i \in DOMAIN runs, SlugSkipped(i) PROVE WholeInv'
<1>1. /\ Doing(i, Slug) /\ runs[i].kind # "slug" /\ Slug \in Part /\ Slug # Faq
      /\ runs' = [runs EXCEPT ![i].todo = Tail(runs[i].todo)]
      /\ Proceed(i, Tail(runs[i].todo), content, issues \union {<<runs[i].of, Slug, "failed">>})
  BY PartKinds DEF SlugSkipped
<1>2. PICK rest : rest = Tail(runs[i].todo)
  OBVIOUS
<1>3. PICK found : found = issues \union {<<runs[i].of, Slug, "failed">>}
  OBVIOUS
<1> QED
  BY <1>1, <1>2, <1>3, SkippedPart

(* An output of a tool replaces the findings of the last one.                *)
LEMMA ToolWhole == ASSUME OrchestratorInv, WholeInv, NEW i \in DOMAIN runs, ToolDone(i) PROVE WholeInv'
<1>1. /\ Types /\ Active(i) /\ Tool = Head(runs[i].todo)
      /\ runs' = [runs EXCEPT ![i].todo = << >>]
  BY DEF OrchestratorInv, ToolDone, Doing
<1>2. PICK found : Proceed(i, << >>, content, {f \in issues : f[2] # Tool} \union found)
  BY DEF ToolDone
<1>3. PICK shown : shown = {f \in issues : f[2] # Tool} \union found
  OBVIOUS
<1>4. runs[i].kind = "tool"
  <2>1. Tool \in Allowed(runs[i].kind)
    <3>1. Elems(runs[i].todo) \subseteq Allowed(runs[i].kind) /\ << >> \in {Tail(runs[i].todo), << >>}
      BY DEF WholeInv
    <3> QED
      BY <1>1, <3>1, PlanShrinks
  <2> QED
    BY <2>1, PartKinds DEF Allowed, IsFaq, Tool
<1>5. PICK r \in Run : /\ r.todo = << >> /\ r.kind = runs[i].kind /\ r.calm = runs[i].calm
                       /\ r.of = runs[i].of /\ Becomes(i, r)
  <2> DEFINE r == [runs[i] EXCEPT !.todo = << >>]
  <2>1. r \in Run /\ r.todo = << >> /\ r.kind = runs[i].kind /\ r.calm = runs[i].calm
    BY <1>1, RunGoesOn
  <2>2. r.of = runs[i].of
    <3>1. runs[i] \in Run
      BY <1>1 DEF Types
    <3> QED
      BY <3>1 DEF Run
  <2> QED
    BY <1>1, <2>1, <2>2 DEF Becomes
<1>6. /\ content \in Content /\ Plausible(content) /\ Proceed(i, << >>, content, shown)
      /\ {f \in issues : f[2] # Tool} \subseteq shown /\ << >> \in {Tail(runs[i].todo), << >>}
  BY <1>1, <1>2, <1>3 DEF Types, WholeInv
<1> QED
  BY <1>1, <1>4, <1>5, <1>6, WholeStep

LEMMA FailsWhole == ASSUME OrchestratorInv, WholeInv, NEW i \in DOMAIN runs, RunFails(i) PROVE WholeInv'
<1>1. /\ runs' = [runs EXCEPT ![i].todo = << >>] /\ UNCHANGED <<content, issues, history>>
  BY DEF RunFails, Fail
<1>2. Types /\ runs[i] \in Run /\ Elems(<< >>) = {}
  BY ElemsNone DEF OrchestratorInv, Types
<1>3. /\ DOMAIN runs' = DOMAIN runs
      /\ \A j \in DOMAIN runs :
            /\ runs'[j].kind = runs[j].kind /\ runs'[j].calm = runs[j].calm
            /\ runs'[j].todo = << >> \/ runs'[j] = runs[j]
            /\ runs[j].todo = << >> => runs'[j].todo = << >>
  BY <1>1, <1>2 DEF Types, Run
<1>4. \A n \in DOMAIN history' : Saved(history'[n], runs')
  BY <1>1, <1>3 DEF WholeInv, Saved
<1>5. \A j \in Running' : j \in Running /\ runs'[j] = runs[j]
  BY <1>3 DEF Running, Active
<1>6. \A j \in Running' : runs'[j].calm /\ runs'[j].kind # "tool" => OnItsWay(runs'[j], content', issues')
  BY <1>1, <1>5 DEF WholeInv
<1>7. \A j \in DOMAIN runs' : Elems(runs'[j].todo) \subseteq Allowed(runs'[j].kind)
  BY <1>2, <1>3 DEF WholeInv
<1>8. \A j \in DOMAIN runs' : runs'[j].calm => \A k \in DOMAIN runs' : k < j => ~Active(k)'
  BY <1>3 DEF WholeInv, Active
<1>9. FindingsAreShown'
  <2>1. Kept' = Kept /\ Kept \subseteq DOMAIN runs
    BY <1>1, <1>3 DEF Kept, Latest
  <2> QED
    BY <1>1, <1>3, <2>1 DEF WholeInv, FindingsAreShown
<1> QED
  BY <1>1, <1>4, <1>6, <1>7, <1>8, <1>9 DEF WholeInv

LEMMA RunStepWhole == ASSUME OrchestratorInv, WholeInv, NEW i \in DOMAIN runs, RunStep(i) PROVE WholeInv'
BY MainWhole, SlugWhole, SlugSkippedWhole, SeoWhole, TranslationWhole, FaqWhole, FaqTranslatedWhole,
   ToolWhole, FailsWhole DEF RunStep
-----------------------------------------------------------------------------
(* What the user does beside the runs leaves no run that goes on calm.       *)
LEMMA AsideWhole ==
  ASSUME WholeInv, DOMAIN runs' = DOMAIN runs, UNCHANGED history, Plausible(content'),
         \A j \in DOMAIN runs : /\ runs'[j].kind = runs[j].kind
                                /\ runs'[j].todo \in {runs[j].todo, << >>}
                                /\ runs'[j].calm => runs[j].calm /\ ~Active(j)',
         FindingsAreShown'
  PROVE  WholeInv'
<1>1. \A n \in DOMAIN history' : Saved(history'[n], runs')
  BY DEF WholeInv, Saved
<1>2. \A j \in DOMAIN runs' : Elems(runs'[j].todo) \subseteq Allowed(runs'[j].kind)
  BY ElemsNone DEF WholeInv
<1>3. \A j \in DOMAIN runs' : runs'[j].calm => \A k \in DOMAIN runs' : k < j => ~Active(k)'
  BY DEF WholeInv, Active
<1>4. \A j \in Running' : ~runs'[j].calm
  BY DEF Running
<1> QED
  BY <1>1, <1>2, <1>3, <1>4 DEF WholeInv

LEMMA TouchedWhole ==
  ASSUME OrchestratorInv, WholeInv, runs' = Disturbed(DOMAIN runs), Plausible(content'), UNCHANGED history
  PROVE  WholeInv'
<1>1. /\ DOMAIN runs' = DOMAIN runs
      /\ \A i \in DOMAIN runs : runs'[i].todo = runs[i].todo /\ runs'[i].kind = runs[i].kind /\ ~runs'[i].calm
  BY DisturbedRuns DEF OrchestratorInv
<1>2. FindingsAreShown'
  BY <1>1 DEF FindingsAreShown, Kept, Latest
<1> QED
  BY <1>1, <1>2, AsideWhole

LEMMA RestoreWhole == ASSUME OrchestratorInv, WholeInv, restoreHistory PROVE WholeInv'
<1>1. PICK n \in DOMAIN history : content' = history[n].output
  BY DEF restoreHistory
<1>2. Plausible(content')
  BY <1>1 DEF WholeInv, Saved
<1> QED
  BY <1>2, TouchedWhole DEF restoreHistory

LEMMA ClearWhole == ASSUME OrchestratorInv, WholeInv, NEW mode, clearAll(mode) PROVE WholeInv'
<1>1. \A p \in Part : content'[p] = None \/ content'[p] = content[p]
  BY DEF clearAll
<1>2. Plausible(content')
  BY <1>1 DEF WholeInv, Plausible
<1> QED
  BY <1>2, TouchedWhole DEF clearAll

LEMMA FetchEndsWhole == ASSUME OrchestratorInv, WholeInv, FetchEnds PROVE WholeInv'
<1>1. /\ DOMAIN runs' = DOMAIN runs
      /\ \A i \in DOMAIN runs : runs'[i].todo = runs[i].todo /\ runs'[i].kind = runs[i].kind
                                 /\ runs'[i].calm = (runs[i].calm /\ i \notin Running)
  BY DisturbedRuns DEF OrchestratorInv, FetchEnds
<1>2. UNCHANGED <<content, issues, history>> /\ Plausible(content')
  BY DEF FetchEnds, WholeInv
<1>3. FindingsAreShown'
  <2>1. Kept' \subseteq Kept /\ Kept \subseteq DOMAIN runs
    BY <1>1, <1>2 DEF Kept, Latest
  <2>2. \A i \in Kept' : runs'[i].kind = runs[i].kind
    BY <1>1, <2>1
  <2> QED
    BY <1>2, <2>1, <2>2 DEF WholeInv, FindingsAreShown
<1>4. \A j \in DOMAIN runs : runs'[j].calm => runs[j].calm /\ ~Active(j)'
  BY <1>1 DEF Running, Active
<1> QED
  BY <1>1, <1>2, <1>3, <1>4, AsideWhole

LEMMA ReloadWhole == ASSUME OrchestratorInv, WholeInv, Reload PROVE WholeInv'
<1>1. /\ content' = Empty /\ history' = history /\ DOMAIN runs' = DOMAIN runs
      /\ \A i \in DOMAIN runs : runs'[i] = [runs[i] EXCEPT !.todo = << >>, !.calm = FALSE]
  BY DEF Reload
<1>2. ASSUME NEW i \in DOMAIN runs
      PROVE  runs'[i].todo = << >> /\ ~runs'[i].calm /\ runs'[i].kind = runs[i].kind
  <2>1. runs[i] \in Run
    BY DEF OrchestratorInv, Types
  <2> QED
    BY <1>1, <2>1 DEF Run
<1>3. Plausible(content')
  BY <1>1 DEF Plausible, Empty
<1>4. FindingsAreShown'
  BY <1>1, <1>2 DEF FindingsAreShown, Kept, Latest
<1> QED
  BY <1>1, <1>2, <1>3, <1>4, AsideWhole

(* The run that starts has everything before it.                             *)
LEMMA StartWhole ==
  ASSUME OrchestratorInv, WholeInv, NEW kind \in Kinds, NEW product \in Product, Start(kind, product)
  PROVE  WholeInv'
<1> DEFINE reused == kind \in {"full", "seo"} /\ approved = product /\ content[Slug] # None
<1>1. PICK supplement \in BOOLEAN :
        runs' = Append(Disturbed(Running),
          [kind |-> kind, of |-> product, todo |-> Plan(kind, reused, supplement),
           names |-> IF reused THEN content[Slug].names ELSE None,
           calm |-> Running = {}])
  BY DEF Start
<1>2. PICK r : r = [kind |-> kind, of |-> product, todo |-> Plan(kind, reused, supplement),
                    names |-> IF reused THEN content[Slug].names ELSE None, calm |-> Running = {}]
  OBVIOUS
<1>3. /\ r.kind = kind /\ r.of = product /\ r.calm = (Running = {})
      /\ Elems(r.todo) \subseteq Allowed(kind)
      /\ kind # "tool" => Needed(kind) \subseteq Elems(r.todo) /\ FaqsLast(r.todo) /\ MasterFirst(r.todo)
  <2> HIDE DEF reused
  <2>1. reused \in BOOLEAN
    BY DEF reused
  <2> QED
    BY <1>2, <2>1, PlanIsWhole
<1>4. /\ Len(runs) \in Nat /\ DOMAIN runs = 1..Len(runs) /\ history \in Seq(Entry)
      /\ history' = history
  BY DEF OrchestratorInv, Types, Start
<1> DEFINE last == Len(runs) + 1
<1>5. PICK old : /\ old = Disturbed(Running) /\ old \in Seq(Run) /\ DOMAIN old = DOMAIN runs
                 /\ Len(old) = Len(runs)
                 /\ \A i \in DOMAIN runs : /\ old[i].todo = runs[i].todo /\ old[i].kind = runs[i].kind
                                           /\ old[i].calm = (runs[i].calm /\ i \notin Running)
  BY <1>4, DisturbedRuns, LenProperties DEF OrchestratorInv
<1>6. DOMAIN runs' = 1..last /\ runs'[last] = r /\ \A i \in DOMAIN runs : runs'[i] = old[i]
  BY <1>1, <1>2, <1>4, <1>5
<1>7. /\ Plausible(content')
      /\ kind = "tool" => UNCHANGED <<content, issues>>
      /\ kind # "tool" => \A p \in Part : content'[p] # None => p = Slug /\ kind \in {"full", "seo"}
  <2>1. CASE kind = "tool"
    BY <2>1 DEF Start, WholeInv
  <2>2. CASE kind # "tool" /\ reused
    <3>1. content' = [Empty EXCEPT ![Slug] = content[Slug]]
      BY <2>2 DEF Start
    <3>2. \A p \in Part : content'[p] = IF p = Slug THEN content[Slug] ELSE None
      BY <3>1 DEF Empty
    <3> QED
      BY <2>2, <3>2, PartKinds DEF WholeInv, Plausible
  <2>3. CASE kind # "tool" /\ ~reused
    <3>1. content' = Empty
      BY <2>3 DEF Start
    <3>2. \A p \in Part : content'[p] = None
      BY <3>1 DEF Empty
    <3> QED
      BY <2>3, <3>2 DEF Plausible
  <2> QED
    BY <2>1, <2>2, <2>3
<1> HIDE DEF reused
<1>8. \A n \in DOMAIN history' : Saved(history'[n], runs')
  <2> SUFFICES ASSUME NEW n \in DOMAIN history PROVE Saved(history[n], runs')
    BY <1>4
  <2>1. Saved(history[n], runs)
    BY DEF WholeInv
  <2>2. history[n].run \in DOMAIN runs' /\ runs'[history[n].run].todo = << >>
    BY <1>4, <1>5, <1>6, <2>1 DEF Saved
  <2> QED
    BY <2>1, <2>2 DEF Saved
<1>9. \A j \in DOMAIN runs' : j = last \/ j \in DOMAIN runs
  BY <1>4, <1>6
<1>10. \A j \in DOMAIN runs' : Elems(runs'[j].todo) \subseteq Allowed(runs'[j].kind)
  BY <1>3, <1>5, <1>6, <1>9, SMTT(30) DEF WholeInv
<1>11. ASSUME NEW j \in DOMAIN runs', runs'[j].calm, NEW k \in DOMAIN runs', k < j
       PROVE  ~Active(k)'
  <2>1. k \in DOMAIN runs /\ runs'[k].todo = runs[k].todo
    BY <1>4, <1>5, <1>6, <1>11
  <2>2. CASE j = last
    <3>1. Running = {}
      BY <1>3, <1>6, <1>11, <2>2
    <3> QED
      BY <2>1, <3>1 DEF Running, Active
  <2>3. CASE j # last
    <3>1. j \in DOMAIN runs /\ old[j].calm
      BY <1>6, <1>9, <1>11, <2>3
    <3>2. runs[j].calm
      BY <1>5, <3>1
    <3> QED
      BY <1>11, <2>1, <3>1, <3>2 DEF WholeInv, Active
  <2> QED
    BY <2>2, <2>3
<1>12. ASSUME NEW j \in Running', runs'[j].calm, runs'[j].kind # "tool"
       PROVE  OnItsWay(runs'[j], content', issues')
  <2>1. j = last
    <3> SUFFICES ASSUME j # last PROVE FALSE
      OBVIOUS
    <3>1. j \in DOMAIN runs /\ j \in Running /\ old[j].calm
      BY <1>5, <1>6, <1>9, <1>12 DEF Running, Active
    <3> QED
      BY <1>5, <3>1
  <2>2. runs'[j] = r /\ kind # "tool"
    BY <1>3, <1>6, <1>12, <2>1
  <2>3. Underway(r, content')
    BY <1>3, <1>7, <2>2, PartKinds DEF Underway
  <2>4. ShownSoFar(r, content', issues')
    <3>1. content'[Main] = None /\ content'[Seo] = None
      BY <1>7, <2>2, PartKinds
    <3>2. Findings(content', {Seo}, {"text"}) = {} /\ Findings(content', {Main}, {"grounding"}) = {}
      BY <3>1 DEF Findings
    <3>3. kind \in {"slug", "faq"} => \A p \in Part : content'[p] = None
      BY <1>7, <2>2
    <3>4. kind \in {"slug", "faq"} => Findings(content', Part, All) = {}
      BY <3>3 DEF Findings
    <3> QED
      BY <1>3, <3>2, <3>3, <3>4 DEF ShownSoFar
  <2> QED
    BY <2>2, <2>3, <2>4 DEF OnItsWay
<1>13. FindingsAreShown'
  <2>1. \A k \in Kept' : k \in Kept /\ kind = "tool" /\ runs'[k].kind = runs[k].kind
    <3> SUFFICES ASSUME NEW k \in Kept'
                 PROVE  k \in Kept /\ kind = "tool" /\ runs'[k].kind = runs[k].kind
      OBVIOUS
    <3>1. /\ k \in DOMAIN runs' /\ runs'[k].calm /\ runs'[k].kind # "tool"
          /\ \A j \in DOMAIN runs' : runs'[j].kind # "tool" => j <= k
          /\ history # << >> /\ history[1].run = k
      BY <1>4 DEF Kept, Latest
    <3>2. k \in DOMAIN runs
      <4>1. 1 \in DOMAIN history
        <5>1. Len(history) \in Nat /\ DOMAIN history = 1..Len(history) /\ Len(history) # 0
          BY <1>4, <3>1, LenProperties, EmptySeq
        <5> QED
          BY <5>1
      <4> QED
        BY <3>1, <4>1 DEF WholeInv, Saved
    <3>3. kind = "tool"
      BY <1>3, <1>4, <1>6, <3>1, <3>2
    <3>4. runs'[k] = old[k]
      BY <1>6, <3>2
    <3>5. runs[k].calm /\ runs[k].kind = runs'[k].kind
      BY <1>5, <3>1, <3>2, <3>4, Zenon
    <3>6. \A j \in DOMAIN runs : runs[j].kind # "tool" => j <= k
      <4>1. \A j \in DOMAIN runs : runs'[j].kind = runs[j].kind
        BY <1>5, <1>6
      <4>2. \A j \in DOMAIN runs : j \in DOMAIN runs'
        BY <1>4, <1>6
      <4> QED
        BY <3>1, <4>1, <4>2
    <3> QED
      BY <3>1, <3>2, <3>3, <3>5, <3>6 DEF Kept, Latest
  <2> QED
    BY <1>7, <2>1 DEF WholeInv, FindingsAreShown
<1> QED
  BY <1>7, <1>8, <1>10, <1>11, <1>12, <1>13 DEF WholeInv

LEMMA InitWhole == Init => WholeInv
<1> SUFFICES ASSUME Init PROVE WholeInv
  OBVIOUS
<1>1. runs = << >> /\ DOMAIN runs = {} /\ history = << >> /\ DOMAIN history = {} /\ content = Empty
  BY EmptySeq DEF Init
<1>2. Plausible(content)
  BY <1>1 DEF Plausible, Empty
<1> QED
  BY <1>1, <1>2 DEF WholeInv, FindingsAreShown, Kept, Latest, Running

LEMMA NextWhole == OrchestratorInv /\ WholeInv /\ [Next]_vars => WholeInv'
<1> SUFFICES ASSUME OrchestratorInv, WholeInv, [Next]_vars PROVE WholeInv'
  OBVIOUS
<1>1. CASE clearHistory
  <2>1. history' = << >> /\ DOMAIN history' = {} /\ UNCHANGED <<content, runs, issues>>
    BY <1>1, EmptySeq DEF clearHistory
  <2>2. FindingsAreShown'
    BY <2>1 DEF FindingsAreShown, Kept
  <2> QED
    BY <2>1, <2>2 DEF WholeInv, Running, Active
<1>2. CASE FetchStarts \/ UNCHANGED vars
  <2>1. UNCHANGED <<content, runs, issues, history>>
    BY <1>2 DEF FetchStarts, vars
  <2>2. FindingsAreShown'
    BY <2>1 DEF WholeInv, FindingsAreShown, Kept, Latest
  <2> QED
    BY <2>1, <2>2 DEF WholeInv, Running, Active
<1> QED
  BY <1>1, <1>2, StartWhole, RunStepWhole, RestoreWhole, ClearWhole, FetchEndsWhole, ReloadWhole DEF Next

THEOREM WholeInvariance == Spec => []WholeInv
BY InitWhole, NextWhole, OrchestratorInvariance, PTL DEF Spec
-----------------------------------------------------------------------------
(* An entry saved by a run nobody interfered with holds that product alone,    *)
(* all the texts of its kind, and no translated FAQ without its master,        *)
(* whichever parts failed or were left out, and whatever else ran.             *)
THEOREM EntriesAreWhole == Spec => []EntryIsWhole
<1>1. WholeInv => EntryIsWhole
  BY WholeEntries DEF WholeInv, Saved
<1> QED
  BY <1>1, WholeInvariance, PTL

(* After a run, every finding of a part it left is shown, also those that only *)
(* a gate knew, until the user interferes or the next run begins.              *)
THEOREM FindingsStayShown == Spec => []FindingsAreShown
<1>1. WholeInv => FindingsAreShown
  BY DEF WholeInv
<1> QED
  BY <1>1, WholeInvariance, PTL
=============================================================================

--------------------------- MODULE GenerateHandler ---------------------------
(***************************************************************************)
(* The generate route of the Image Studio server (handlers.js): requests   *)
(* handled side by side in one event loop.  A request counts the tokens of *)
(* its turns with a few workers (countAll), takes one unit of the limiter, *)
(* makes the paid call, and writes a usage row before it answers.  Every   *)
(* upstream call runs in the retry loop (runWithRetry), with a backoff     *)
(* that ends when the client goes away.                                    *)
(*                                                                         *)
(* Promise.all answers with the first worker that fails; the others are    *)
(* still in their retry loops then, after the request was answered.        *)
(***************************************************************************)
EXTENDS FiniteSets, Naturals

CONSTANTS
  Request,       \* generate requests of one client address
  Turns,         \* turns to count: the retained history and the new turn
  Concurrency,   \* COUNT_TOKENS_CONCURRENCY
  Retries,       \* how many delays RETRY_DELAYS_MS holds
  Limit          \* units the limiter has left in this window

ASSUME HandlerAssumption ==
  /\ IsFiniteSet(Request)
  /\ Turns \in Nat \ {0} /\ Concurrency \in Nat \ {0}
  /\ Retries \in Nat /\ Limit \in Nat

VARIABLES
  req,       \* the handler of every request: its place in the code and its locals
  worker,    \* the workers of its countAll
  call,      \* its paid call, in the same retry loop
  granted,   \* units the limiter gave out
  rows       \* the requests a usage row was written for

vars == <<req, worker, call, granted, rows>>

Position == 1 .. Turns
Worker == 1 .. Concurrency

(* Passed on: an upstream 4xx.  Exhausted: 429 or 5xx after the retries. *)
Answer == {"200 images", "200 other", "400", "413", "429", "410 FILE_MISSING",
           "500 price", "502 empty", "passed on", "exhausted"}

RequestState ==
  [pc : {"new", "counting", "generating", "recording", "over"},
   gone : BOOLEAN,             \* the response closed early: the signal is aborted
   expired : BOOLEAN,          \* the first turn holds a file uri the provider dropped
   next : 1 .. Turns + 1,      \* countAll: the next position, and whether one failed
   failed : BOOLEAN,
   counted : SUBSET Position,
   paid : BOOLEAN,             \* history: the paid call was begun
   missing : BOOLEAN,          \* history: what ended it said that the file is missing
   answer : Answer \cup {"none"}]

(* One runWithRetry: an operation in flight or the wait before the next. *)
Loop == [pc : {"off", "calling", "waiting"}, turn : 0 .. Turns, attempt : 0 .. Retries]
Off == [pc |-> "off", turn |-> 0, attempt |-> 0]
Calling(turn) == [pc |-> "calling", turn |-> turn, attempt |-> 0]

Status == {"4xx", "missing", "transient"}   \* missing: a 404 that names the file

(* An aborted call rejects: the provider hands the signal to the SDK.      *)
Resolves(r) == ~req[r].gone

(* Faulty variant: attempts are not counted. *)
TriesAgainUncounted(loop) == [loop EXCEPT !.pc = "calling"]

(* What the retry loop does with a failed attempt of `loop`. *)
GivesUp(r, loop, status) ==
  status # "transient" \/ req[r].gone \/ loop.attempt = Retries
Waits(loop) == [loop EXCEPT !.pc = "waiting"]
TriesAgain(loop) == [loop EXCEPT !.pc = "calling", !.attempt = @ + 1]

(* answerError and the 200s: nothing is written to a client that went away. *)
Answered(r, answer) ==
  [req[r] EXCEPT !.pc = "over", !.answer = IF req[r].gone THEN @ ELSE answer]

FailureAnswer(status, loop) ==
  IF status = "transient" /\ loop.attempt = Retries THEN "exhausted" ELSE "passed on"

CanFail(r, status, turn) == status = "missing" => req[r].expired /\ turn <= 1

-----------------------------------------------------------------------------
Init ==
  /\ \E expired \in [Request -> BOOLEAN] :
       req = [r \in Request |->
                [pc |-> "new", gone |-> FALSE, expired |-> expired[r], next |-> 1,
                 failed |-> FALSE, counted |-> {}, paid |-> FALSE, missing |-> FALSE,
                 answer |-> "none"]]
  /\ worker = [r \in Request |-> [w \in Worker |-> Off]]
  /\ call = [r \in Request |-> Off]
  /\ granted = 0
  /\ rows = {}

(* Validation, the key check and the size trim refuse the request. *)
Refuse(r) ==
  /\ req[r].pc = "new"
  /\ \E answer \in {"400", "413"} : req' = [req EXCEPT ![r] = Answered(r, answer)]
  /\ UNCHANGED <<worker, call, granted, rows>>

(* countAll: each worker takes the next position, up to `concurrency`. *)
StartCounting(r) ==
  LET busy == {w \in Worker : w <= Turns} IN
  /\ req[r].pc = "new"
  /\ req' = [req EXCEPT ![r].pc = "counting", ![r].next = Cardinality(busy) + 1]
  /\ worker' = [worker EXCEPT ![r] = [w \in Worker |-> IF w \in busy THEN Calling(w) ELSE Off]]
  /\ UNCHANGED <<call, granted, rows>>

-----------------------------------------------------------------------------
(* A count arrives and others are missing: the worker takes the next one   *)
(* unless some worker failed.                                              *)
Counted(r, w) ==
  LET mine == worker[r][w]
      more == ~req[r].failed /\ req[r].next <= Turns
  IN
  /\ mine.pc = "calling" /\ Resolves(r)
  /\ req[r].counted \cup {mine.turn} # Position
  /\ req' = [req EXCEPT ![r].counted = @ \cup {mine.turn},
                        ![r].next = IF more THEN @ + 1 ELSE @]
  /\ worker' = [worker EXCEPT ![r][w] = IF more THEN Calling(req[r].next) ELSE Off]
  /\ UNCHANGED <<call, granted, rows>>

(* Faulty variant: the unit is taken by a step of its own, after a check    *)
(* that only looks at the count.                                           *)
LimiterStepUncounted(r) ==
  \/ /\ granted < Limit
     /\ req' = [req EXCEPT ![r].pc = "generating", ![r].paid = TRUE,
                            ![r].counted = Position]
     /\ call' = [call EXCEPT ![r] = Calling(0)]
     /\ UNCHANGED granted
  \/ /\ granted = Limit
     /\ req' = [req EXCEPT ![r] = [Answered(r, "429") EXCEPT !.counted = Position]]
     /\ UNCHANGED <<call, granted>>

(* tryConsume, one synchronous step, and the paid call it admits. *)
LimiterStep(r) ==
  \/ /\ granted < Limit
     /\ granted' = granted + 1
     /\ req' = [req EXCEPT ![r].pc = "generating", ![r].paid = TRUE,
                            ![r].counted = Position]
     /\ call' = [call EXCEPT ![r] = Calling(0)]
  \/ /\ granted = Limit
     /\ req' = [req EXCEPT ![r] = [Answered(r, "429") EXCEPT !.counted = Position]]
     /\ UNCHANGED <<call, granted>>

(* Faulty variant: the last position taken is counted, not all of them. *)
AllTaken(r, w) ==
  LET mine == worker[r][w] IN
  /\ mine.pc = "calling" /\ Resolves(r)
  /\ req[r].next > Turns /\ req[r].pc = "counting"
  /\ worker' = [worker EXCEPT ![r][w] = Off]
  /\ LimiterStep(r)
  /\ UNCHANGED rows

(* The last count arrives: the token trim, then the limiter. *)
AllCounted(r, w) ==
  LET mine == worker[r][w] IN
  /\ mine.pc = "calling" /\ Resolves(r)
  /\ req[r].counted \cup {mine.turn} = Position
  /\ worker' = [worker EXCEPT ![r][w] = Off]
  /\ \/ LimiterStep(r)
     \/ /\ req' = [req EXCEPT ![r] = [Answered(r, "413") EXCEPT !.counted = Position]]
        /\ UNCHANGED <<call, granted>>
  /\ UNCHANGED rows

(* Faulty variant: every worker that fails answers. *)
CountFailsAgain(r, w) ==
  LET mine == worker[r][w] IN
  /\ mine.pc = "calling"
  /\ \E status \in Status :
       /\ CanFail(r, status, mine.turn)
       /\ GivesUp(r, mine, status)
       /\ req' = [req EXCEPT ![r] = [Answered(r, FailureAnswer(status, mine)) EXCEPT !.failed = TRUE]]
  /\ worker' = [worker EXCEPT ![r][w] = Off]
  /\ UNCHANGED <<call, granted, rows>>

(* A count fails for good: the first failure answers, later ones are lost. *)
CountFails(r, w) ==
  LET mine == worker[r][w] IN
  /\ mine.pc = "calling"
  /\ \E status \in Status :
       /\ CanFail(r, status, mine.turn)
       /\ GivesUp(r, mine, status)
       /\ req' = IF req[r].failed THEN req
                 ELSE [req EXCEPT ![r] = [Answered(r, FailureAnswer(status, mine))
                                            EXCEPT !.failed = TRUE, !.missing = status = "missing"]]
  /\ worker' = [worker EXCEPT ![r][w] = Off]
  /\ UNCHANGED <<call, granted, rows>>

CountWaits(r, w) ==
  LET mine == worker[r][w] IN
  /\ mine.pc = "calling" /\ ~GivesUp(r, mine, "transient")
  /\ worker' = [worker EXCEPT ![r][w] = Waits(mine)]
  /\ UNCHANGED <<req, call, granted, rows>>

CountAgain(r, w) ==
  LET mine == worker[r][w] IN
  /\ mine.pc = "waiting"
  /\ worker' = [worker EXCEPT ![r][w] = TriesAgain(mine)]
  /\ UNCHANGED <<req, call, granted, rows>>

-----------------------------------------------------------------------------
(* The paid call. *)

(* Faulty variant: the client's answer is written before the row. *)
GenerateAnswersFirst(r) ==
  /\ call[r].pc = "calling" /\ Resolves(r)
  /\ call' = [call EXCEPT ![r] = Off]
  /\ \E answer \in {"200 other", "502 empty", "500 price", "200 images"} :
       req' = [req EXCEPT ![r] = Answered(r, answer)]
  /\ rows' \in {rows, rows \cup {r}}
  /\ UNCHANGED <<worker, granted>>

(* It resolves: the response is classified and priced; images go on to the *)
(* usage row.                                                              *)
GenerateAnswers(r) ==
  /\ call[r].pc = "calling" /\ Resolves(r)
  /\ call' = [call EXCEPT ![r] = Off]
  /\ \/ \E answer \in {"200 other", "502 empty", "500 price"} :
          req' = [req EXCEPT ![r] = Answered(r, answer)]
     \/ req' = [req EXCEPT ![r].pc = "recording"]
  /\ UNCHANGED <<worker, granted, rows>>

(* A 404 that names the file, of a request that carried one, is FILE_MISSING. *)
GenerateFails(r) ==
  /\ call[r].pc = "calling"
  /\ \E status \in Status :
       /\ CanFail(r, status, 1)
       /\ GivesUp(r, call[r], status)
       /\ req' = [req EXCEPT ![r] =
                    [Answered(r, IF status = "missing" THEN "410 FILE_MISSING"
                                 ELSE FailureAnswer(status, call[r]))
                       EXCEPT !.missing = status = "missing"]]
  /\ call' = [call EXCEPT ![r] = Off]
  /\ UNCHANGED <<worker, granted, rows>>

GenerateWaits(r) ==
  /\ call[r].pc = "calling" /\ ~GivesUp(r, call[r], "transient")
  /\ call' = [call EXCEPT ![r] = Waits(call[r])]
  /\ UNCHANGED <<req, worker, granted, rows>>

GenerateAgain(r) ==
  /\ call[r].pc = "waiting"
  /\ call' = [call EXCEPT ![r] = TriesAgain(call[r])]
  /\ UNCHANGED <<req, worker, granted, rows>>

(* insertUsage ends, with the row or with an error that is only logged. *)
Recorded(r) ==
  /\ req[r].pc = "recording"
  /\ rows' \in {rows, rows \cup {r}}
  /\ req' = [req EXCEPT ![r] = Answered(r, "200 images")]
  /\ UNCHANGED <<worker, call, granted>>

(* Faulty variant: the backoff does not hear the abort. *)
ClientGoneUnheard(r) ==
  /\ req[r].pc \in {"counting", "generating", "recording"} /\ ~req[r].gone
  /\ req' = [req EXCEPT ![r].gone = TRUE]
  /\ UNCHANGED <<worker, call, granted, rows>>

(* The response closes before it finished: the signal is aborted and every *)
(* backoff rejects, which ends the handler; a call in flight ends later.    *)
ClientGone(r) ==
  LET waiting == {w \in Worker : worker[r][w].pc = "waiting"}
      ends == waiting # {} \/ call[r].pc = "waiting"
  IN
  /\ req[r].pc \in {"counting", "generating", "recording"} /\ ~req[r].gone
  /\ req' = [req EXCEPT ![r].gone = TRUE,
                        ![r].failed = @ \/ waiting # {},
                        ![r].pc = IF ends THEN "over" ELSE @]
  /\ worker' = [worker EXCEPT ![r] = [w \in Worker |-> IF w \in waiting THEN Off ELSE @[w]]]
  /\ call' = [call EXCEPT ![r] = IF @.pc = "waiting" THEN Off ELSE @]
  /\ UNCHANGED <<granted, rows>>

-----------------------------------------------------------------------------
CountEnds(r, w) == Counted(r, w) \/ AllCounted(r, w) \/ CountFails(r, w) \/ CountWaits(r, w)
GenerateEnds(r) == GenerateAnswers(r) \/ GenerateFails(r) \/ GenerateWaits(r)

Next ==
  \E r \in Request :
    \/ Refuse(r) \/ StartCounting(r) \/ ClientGone(r)
    \/ \E w \in Worker : CountEnds(r, w) \/ CountAgain(r, w)
    \/ GenerateEnds(r) \/ GenerateAgain(r) \/ Recorded(r)

Spec == Init /\ [][Next]_vars

(* A request that arrived is handled; every upstream call ends, at the     *)
(* latest by its timeout (UPSTREAM_TIMEOUT_MS); timers fire; SQLite answers.*)
Fairness ==
  \A r \in Request :
    /\ WF_vars(Refuse(r) \/ StartCounting(r))
    /\ \A w \in Worker : WF_vars(CountEnds(r, w)) /\ WF_vars(CountAgain(r, w))
    /\ WF_vars(GenerateEnds(r)) /\ WF_vars(GenerateAgain(r)) /\ WF_vars(Recorded(r))

FairSpec == Spec /\ Fairness

-----------------------------------------------------------------------------
(* Properties. *)

(* The types; an attempt stays in 0 .. Retries (runWithRetry), the units    *)
(* given out in 0 .. Limit (tryConsume).                                   *)
TypeOK ==
  /\ req \in [Request -> RequestState]
  /\ worker \in [Request -> [Worker -> Loop]]
  /\ call \in [Request -> Loop]
  /\ granted \in 0 .. Limit
  /\ rows \subseteq Request

Active(loop) == loop.pc # "off"

(* The paid call is begun only when every turn was counted, and no count is *)
(* under way then or later: one count that failed, in whatever order the   *)
(* workers ended, ends the request without a paid call (FR-27, FR-40).     *)
PaidAfterCounting ==
  \A r \in Request : req[r].paid =>
    req[r].counted = Position /\ ~req[r].failed /\ \A w \in Worker : ~Active(worker[r][w])

(* A request takes one unit of the limiter when its paid call begins and   *)
(* none for its counts, its retries, its refusals or its aborts (FR-66).   *)
UnitPerPaidRequest == granted = Cardinality({r \in Request : req[r].paid})

(* A request is answered once, by what ended it first, and a client that   *)
(* went away is not answered at all (answerError; Promise.all in countAll).*)
AnsweredOnce ==
  [][\A r \in Request : req'[r].answer # req[r].answer =>
       req[r].answer = "none" /\ ~req[r].gone]_vars

(* A usage row belongs to a paid call; its client got the images or left   *)
(* while the row was being written (FR-69).                                *)
RowsAreForImages ==
  \A r \in rows : req[r].paid /\ (req[r].answer = "200 images" \/ req[r].gone)

Begins(loop, next) == next.pc = "calling" /\ next # loop

(* "no further upstream call is made after it": once the client is gone no *)
(* attempt begins for it, from a worker, a backoff or the handler (FR-21). *)
QuietAfterClose ==
  [][\A r \in Request : req[r].gone =>
       /\ ~Begins(call[r], call'[r])
       /\ \A w \in Worker : ~Begins(worker[r][w], worker'[r][w])]_vars

(* After a count failed for good no other turn is begun to be counted: the *)
(* workers that are left only finish the turn they are at (countAll).      *)
NoTurnAfterFailure ==
  [][\A r \in Request, w \in Worker : req[r].failed =>
       worker'[r][w].turn \in {0, worker[r][w].turn}]_vars

(* Every request is over in the end, and all its workers with it.          *)
Settles ==
  \A r \in Request :
    <>[](req[r].pc = "over" /\ ~Active(call[r]) /\ \A w \in Worker : ~Active(worker[r][w]))

(* FR-17, FR-61: when the upstream says the file of the request is missing *)
(* the answer is 410 FILE_MISSING, also when a count is told so.           *)
MissingFileIs410 ==
  \A r \in Request : req[r].missing => req[r].answer \in {"none", "410 FILE_MISSING"}
=============================================================================

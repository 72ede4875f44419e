------------------------ MODULE GenerateHandlerProofs ------------------------
(***************************************************************************)
(* Proofs about the generate route, for every number of requests, turns,   *)
(* workers, retries and units: type correctness, one answer per request,   *)
(* no upstream call after the client left, no paid call before all turns   *)
(* were counted, one unit of the limiter per paid call.                    *)
(***************************************************************************)
EXTENDS GenerateHandler, FiniteSetTheorems, TLAPS

(* The turns the workers `ws` are at: each has its own, taken before `next` *)
(* and not counted yet.                                                    *)
TurnsApart(q, ws) ==
  /\ \A w \in Worker : Active(ws[w]) =>
       ws[w].turn \in Position /\ ws[w].turn < q.next /\ ws[w].turn \notin q.counted
  /\ \A w, v \in Worker : Active(ws[w]) /\ Active(ws[v]) /\ ws[w].turn = ws[v].turn => w = v
  /\ \A p \in q.counted : p < q.next

(* The turn of the worker that failed is counted by no one any more. *)
TurnIsLost(q, ws) ==
  \E p \in Position : p < q.next /\ p \notin q.counted
                      /\ \A w \in Worker : Active(ws[w]) => ws[w].turn # p

NoWorker(ws) == \A w \in Worker : ~Active(ws[w])

(* The attempts of a retry loop: one that waits has another one left, and   *)
(* none waits for a client that left.                                      *)
LoopFits(q, loop) == loop.pc = "waiting" => loop.attempt < Retries /\ ~q.gone

(* Where a request stands fits its workers, its call and what it has had.   *)
PlaceFits(q, ws, c) ==
  /\ q.pc = "new" => NoWorker(ws) /\ ~q.paid /\ ~q.gone /\ ~q.failed /\ q.counted = {}
  /\ q.pc # "over" => q.answer = "none"
  /\ q.failed => q.pc = "over" /\ TurnIsLost(q, ws)
  /\ ~NoWorker(ws) /\ ~q.failed => q.pc = "counting"
  /\ Active(c) => q.pc = "generating"
  /\ q.pc \in {"generating", "recording"} => q.paid
  /\ q.paid => q.counted = Position /\ ~q.failed /\ NoWorker(ws)

Fits(q, ws, c) ==
  /\ TurnsApart(q, ws)
  /\ \A w \in Worker : LoopFits(q, ws[w])
  /\ LoopFits(q, c)
  /\ PlaceFits(q, ws, c)

RequestsFit == \A r \in Request : Fits(req[r], worker[r], call[r])

RequestsTyped ==
  /\ req \in [Request -> RequestState]
  /\ worker \in [Request -> [Worker -> Loop]]
  /\ call \in [Request -> Loop]

RowsFit == \A r \in rows : req[r].pc = "over" /\ req[r].paid
                           /\ (req[r].answer = "200 images" \/ req[r].gone)

RestOK == granted \in 0 .. Limit /\ rows \subseteq Request /\ RowsFit

Inv == RequestsTyped /\ RequestsFit /\ RestOK

-----------------------------------------------------------------------------
(* Values. *)

(* A loop that is off, begins, waits or tries again is a loop. *)
LEMMA LoopType ==
  /\ Off \in Loop
  /\ \A turn \in 0 .. Turns : Calling(turn) \in Loop
  /\ \A loop \in Loop : Waits(loop) \in Loop
  /\ \A loop \in Loop : loop.attempt < Retries => TriesAgain(loop) \in Loop
  <1>1. Off \in Loop
    BY HandlerAssumption DEF Loop, Off
  <1>2. \A turn \in 0 .. Turns : Calling(turn) \in Loop
    BY HandlerAssumption DEF Loop, Calling
  <1>3. \A loop \in Loop : Waits(loop) \in Loop
    BY DEF Loop, Waits
  <1>4. \A loop \in Loop : loop.attempt < Retries => TriesAgain(loop) \in Loop
    <2> SUFFICES ASSUME NEW loop \in Loop, loop.attempt < Retries PROVE TriesAgain(loop) \in Loop
      OBVIOUS
    <2>1. loop.attempt + 1 \in 0 .. Retries
      BY HandlerAssumption DEF Loop
    <2> QED
      BY <2>1 DEF Loop, TriesAgain
  <1> QED
    BY <1>1, <1>2, <1>3, <1>4

(* Which loops are under way. *)
LEMMA LoopActive ==
  /\ ~Active(Off)
  /\ \A turn : Active(Calling(turn)) /\ Calling(turn).turn = turn /\ Calling(turn).pc = "calling"
  /\ \A loop \in Loop : Active(Waits(loop)) /\ Waits(loop).turn = loop.turn
                        /\ Waits(loop).pc = "waiting" /\ Waits(loop).attempt = loop.attempt
  /\ \A loop \in Loop : Active(TriesAgain(loop)) /\ TriesAgain(loop).turn = loop.turn
                        /\ TriesAgain(loop).pc = "calling"
  BY DEF Loop, Off, Calling, Waits, TriesAgain, Active

(* An answered request is over; it keeps everything but its answer, which   *)
(* only changes for a client that is there.                                *)
LEMMA AnsweredType ==
  ASSUME RequestsTyped, NEW r \in Request, NEW answer \in Answer
  PROVE  LET q == Answered(r, answer) IN
         /\ q \in RequestState /\ q.pc = "over"
         /\ q.answer = (IF req[r].gone THEN req[r].answer ELSE answer)
         /\ q.gone = req[r].gone /\ q.next = req[r].next /\ q.failed = req[r].failed
         /\ q.counted = req[r].counted /\ q.paid = req[r].paid
  <1>1. req[r] \in RequestState
    BY DEF RequestsTyped
  <1> QED
    BY <1>1 DEF Answered, RequestState

(* A step of one request leaves the others as they fit. *)
LEMMA OneRequest ==
  ASSUME Inv, NEW r \in Request,
         NEW q \in RequestState, NEW ws \in [Worker -> Loop], NEW c \in Loop,
         req' = [req EXCEPT ![r] = q], worker' = [worker EXCEPT ![r] = ws],
         call' = [call EXCEPT ![r] = c], Fits(q, ws, c)
  PROVE  RequestsTyped' /\ RequestsFit'
  <1>1. RequestsTyped'
    BY DEF Inv, RequestsTyped
  <1>2. ASSUME NEW s \in Request PROVE Fits(req'[s], worker'[s], call'[s])
    <2>1. CASE s = r
      BY <2>1 DEF Inv, RequestsTyped
    <2>2. CASE s # r
      BY <2>2 DEF Inv, RequestsTyped, RequestsFit
    <2> QED BY <2>1, <2>2
  <1> QED
    BY <1>1, <1>2 DEF RequestsFit

(* What the invariant says of one request. *)
LEMMA RequestFits ==
  ASSUME Inv, NEW r \in Request
  PROVE  /\ req[r] \in RequestState /\ worker[r] \in [Worker -> Loop] /\ call[r] \in Loop
         /\ Fits(req[r], worker[r], call[r])
  BY DEF Inv, RequestsTyped, RequestsFit

(* A variable that does not change is updated at r with its own value. *)
LEMMA Unmoved ==
  ASSUME Inv, NEW r \in Request
  PROVE  /\ req = [req EXCEPT ![r] = req[r]]
         /\ worker = [worker EXCEPT ![r] = worker[r]]
         /\ call = [call EXCEPT ![r] = call[r]]
  BY DEF Inv, RequestsTyped

(* Only a request that is not over yet can change what its row rests on. *)
LEMMA RestKept ==
  ASSUME Inv, NEW r \in Request, NEW q,
         req' = [req EXCEPT ![r] = q], rows' = rows, granted' = granted,
         req[r].pc = "over" => /\ q.pc = "over" /\ q.paid = req[r].paid
                               /\ q.answer = req[r].answer /\ (req[r].gone => q.gone)
  PROVE  RestOK'
  <1>1. ASSUME NEW s \in rows
        PROVE  req'[s].pc = "over" /\ req'[s].paid /\ (req'[s].answer = "200 images" \/ req'[s].gone)
    BY <1>1 DEF Inv, RequestsTyped, RestOK, RowsFit
  <1> QED
    BY <1>1 DEF Inv, RestOK, RowsFit

-----------------------------------------------------------------------------
(* The counts. *)

(* A count that arrives: the worker goes on with a turn of its own. *)
LEMMA CountedKeeps ==
  ASSUME Inv, NEW r \in Request, NEW w \in Worker, Counted(r, w)
  PROVE  Inv'
  <1> DEFINE q == req[r]
             ws == worker[r]
             mine == worker[r][w]
             more == ~q.failed /\ q.next <= Turns
             nq == [q EXCEPT !.counted = @ \cup {mine.turn}, !.next = IF more THEN @ + 1 ELSE @]
             nws == [ws EXCEPT ![w] = IF more THEN Calling(q.next) ELSE Off]
  <1>1. /\ q \in RequestState /\ ws \in [Worker -> Loop] /\ call[r] \in Loop
        /\ Fits(q, ws, call[r]) /\ mine \in Loop
    BY RequestFits
  <1>2. /\ mine.pc = "calling" /\ Active(mine) /\ ~q.gone
        /\ req' = [req EXCEPT ![r] = nq] /\ worker' = [worker EXCEPT ![r] = nws]
        /\ call' = [call EXCEPT ![r] = call[r]] /\ granted' = granted /\ rows' = rows
    BY Unmoved DEF Counted, Resolves, Active, Inv, RequestsTyped
  <1>3. mine.turn \in Position /\ mine.turn < q.next /\ mine.turn \notin q.counted
    BY <1>1, <1>2 DEF Fits, TurnsApart
  <1>4. q.next \in 1 .. Turns + 1 /\ q.counted \subseteq Position
    BY <1>1 DEF RequestState
  <1>5. /\ nq \in RequestState /\ nq.counted = q.counted \cup {mine.turn}
        /\ nq.next = (IF more THEN q.next + 1 ELSE q.next)
        /\ nq.pc = q.pc /\ nq.gone = q.gone /\ nq.failed = q.failed /\ nq.paid = q.paid
        /\ nq.answer = q.answer
    <2>1. /\ (IF more THEN q.next + 1 ELSE q.next) \in 1 .. Turns + 1
          /\ q.counted \cup {mine.turn} \in SUBSET Position
      BY <1>3, <1>4, HandlerAssumption
    <2> QED
      BY <2>1, <1>1 DEF RequestState
  <1>6. nws \in [Worker -> Loop]
    BY <1>1, <1>4, LoopType
  <1>7. \A v \in Worker : nws[v] = IF v = w THEN (IF more THEN Calling(q.next) ELSE Off) ELSE ws[v]
    BY <1>1
  <1>8. TurnsApart(nq, nws)
    <2>1. ASSUME NEW v \in Worker, Active(nws[v])
          PROVE  nws[v].turn \in Position /\ nws[v].turn < nq.next /\ nws[v].turn \notin nq.counted
      <3>1. CASE v = w
        BY <2>1, <3>1, <1>1, <1>3, <1>4, <1>5, <1>7, LoopActive, HandlerAssumption
          DEF Fits, TurnsApart, Position
      <3>2. CASE v # w
        <4>1. nws[v] = ws[v] /\ Active(ws[v])
          BY <2>1, <3>2, <1>7
        <4>2. ws[v].turn \in Position /\ ws[v].turn < q.next /\ ws[v].turn \notin q.counted
              /\ ws[v].turn # mine.turn
          BY <4>1, <3>2, <1>1, <1>2 DEF Fits, TurnsApart
        <4> QED
          BY <4>1, <4>2, <1>4, <1>5 DEF Position
      <3> QED BY <3>1, <3>2
    <2>2. ASSUME NEW v \in Worker, NEW u \in Worker, Active(nws[v]), Active(nws[u]),
                 nws[v].turn = nws[u].turn
          PROVE  v = u
      <3>1. CASE v # w /\ u # w
        BY <2>2, <3>1, <1>1, <1>7 DEF Fits, TurnsApart
      <3>2. \A x \in Worker : x # w /\ Active(nws[x]) => nws[x].turn < q.next /\ nws[x].turn \in Nat
        BY <1>1, <1>7 DEF Fits, TurnsApart, Position
      <3>3. Active(nws[w]) => nws[w].turn = q.next
        BY <1>7, LoopActive
      <3> QED
        BY <2>2, <3>1, <3>2, <3>3, <1>4
    <2>3. \A p \in nq.counted : p < nq.next
      BY <1>1, <1>3, <1>4, <1>5 DEF Fits, TurnsApart, Position
    <2> QED
      BY <2>1, <2>2, <2>3 DEF TurnsApart
  <1>9. \A v \in Worker : LoopFits(nq, nws[v])
    BY <1>1, <1>2, <1>5, <1>7 DEF Fits, LoopFits, Calling, Off
  <1>10. LoopFits(nq, call[r])
    BY <1>1, <1>5 DEF Fits, LoopFits
  <1>11. PlaceFits(nq, nws, call[r])
    <2>1. q.pc # "new" /\ ~q.paid /\ ~NoWorker(ws)
      BY <1>1, <1>2 DEF Fits, PlaceFits, NoWorker
    <2>2. q.failed => TurnIsLost(nq, nws)
      BY <1>1, <1>2, <1>5, <1>7, LoopActive DEF Fits, PlaceFits, TurnIsLost
    <2> QED
      BY <2>1, <2>2, <1>1, <1>5 DEF Fits, PlaceFits
  <1>12. Fits(nq, nws, call[r])
    BY <1>8, <1>9, <1>10, <1>11 DEF Fits
  <1>13. RequestsTyped' /\ RequestsFit'
    BY <1>1, <1>2, <1>5, <1>6, <1>12, OneRequest
  <1>14. RestOK'
    BY <1>2, <1>5, RestKept
  <1> QED
    BY <1>13, <1>14 DEF Inv

(* When the last count arrives nothing failed, no one else counts, and the  *)
(* request was not paid for.                                               *)
LEMMA AllCountedAlone ==
  ASSUME Inv, NEW r \in Request, NEW w \in Worker, AllCounted(r, w)
  PROVE  /\ ~req[r].failed /\ req[r].pc = "counting" /\ ~req[r].paid /\ ~req[r].gone
         /\ req[r].answer = "none" /\ ~Active(call[r])
         /\ NoWorker([worker[r] EXCEPT ![w] = Off])
         /\ \A p \in Position : p < req[r].next
  <1> DEFINE q == req[r]
             ws == worker[r]
             mine == worker[r][w]
  <1>1. /\ q \in RequestState /\ ws \in [Worker -> Loop]
        /\ TurnsApart(q, ws) /\ PlaceFits(q, ws, call[r])
    BY RequestFits DEF Fits
  <1>2. Active(mine) /\ ~q.gone /\ q.counted \cup {mine.turn} = Position
    BY DEF AllCounted, Resolves, Active
  <1>3. ~q.failed
    BY <1>1, <1>2 DEF PlaceFits, TurnIsLost
  <1>4. q.pc = "counting" /\ ~q.paid
    BY <1>1, <1>2, <1>3 DEF PlaceFits, NoWorker
  <1>5. NoWorker([ws EXCEPT ![w] = Off])
    BY <1>1, <1>2, LoopActive DEF TurnsApart, NoWorker
  <1>6. \A p \in Position : p < q.next
    BY <1>1, <1>2 DEF TurnsApart
  <1> QED
    BY <1>1, <1>2, <1>3, <1>4, <1>5, <1>6 DEF PlaceFits

(* A request without workers that counted all turns fits where it goes.     *)
LEMMA AllCountedFits ==
  ASSUME NEW q, NEW ws, NEW c, NoWorker(ws), q.counted = Position, q.counted \in SUBSET Position,
         \A p \in Position : p < q.next, ~q.failed, ~q.gone,
         c.pc # "waiting",
         \/ q.pc = "over" /\ ~Active(c) /\ ~q.paid
         \/ q.pc = "generating" /\ q.paid /\ q.answer = "none"
  PROVE  Fits(q, ws, c)
  <1>1. TurnsApart(q, ws)
    BY DEF TurnsApart, NoWorker
  <1>2. \A v \in Worker : LoopFits(q, ws[v])
    BY DEF LoopFits, NoWorker, Active
  <1>3. LoopFits(q, c)
    BY DEF LoopFits
  <1>4. PlaceFits(q, ws, c)
    BY DEF PlaceFits
  <1> QED
    BY <1>1, <1>2, <1>3, <1>4 DEF Fits

(* The last count: the paid call begins, or the request is refused. *)
LEMMA AllCountedKeeps ==
  ASSUME Inv, NEW r \in Request, NEW w \in Worker, AllCounted(r, w)
  PROVE  Inv'
  <1> DEFINE q == req[r]
             nws == [worker[r] EXCEPT ![w] = Off]
             paid == [q EXCEPT !.pc = "generating", !.paid = TRUE, !.counted = Position]
             refused(answer) == [Answered(r, answer) EXCEPT !.counted = Position]
  <1>1. q \in RequestState /\ worker[r] \in [Worker -> Loop] /\ call[r] \in Loop
    BY RequestFits
  <1>2. /\ ~q.failed /\ q.pc = "counting" /\ ~q.paid /\ ~q.gone /\ q.answer = "none"
        /\ ~Active(call[r]) /\ NoWorker(nws) /\ \A p \in Position : p < q.next
    BY AllCountedAlone
  <1>3. worker' = [worker EXCEPT ![r] = nws] /\ rows' = rows
    BY DEF AllCounted, Inv, RequestsTyped
  <1>4. nws \in [Worker -> Loop]
    BY <1>1, LoopType
  <1>5. Position \in SUBSET Position /\ 0 \in 0 .. Turns
    BY HandlerAssumption
  <1>6. CASE /\ granted < Limit /\ granted' = granted + 1
             /\ req' = [req EXCEPT ![r] = paid] /\ call' = [call EXCEPT ![r] = Calling(0)]
    <2>1. /\ paid \in RequestState /\ paid.counted = Position /\ paid.next = q.next
          /\ ~paid.failed /\ ~paid.gone /\ paid.pc = "generating" /\ paid.paid
          /\ paid.answer = "none"
      BY <1>1, <1>2, <1>5 DEF RequestState
    <2>2. Calling(0) \in Loop /\ Calling(0).pc # "waiting"
      BY <1>5, LoopType, LoopActive
    <2>3. Fits(paid, nws, Calling(0))
      BY <1>2, <1>5, <2>1, <2>2, AllCountedFits
    <2>4. RequestsTyped' /\ RequestsFit'
      BY <1>3, <1>4, <1>6, <2>1, <2>2, <2>3, OneRequest
    <2>5. RowsFit'
      BY <1>2, <1>3, <1>6 DEF Inv, RequestsTyped, RestOK, RowsFit
    <2> QED
      BY <1>3, <1>6, <2>4, <2>5, HandlerAssumption DEF Inv, RestOK
  <1>7. ASSUME NEW answer \in Answer, req' = [req EXCEPT ![r] = refused(answer)],
               UNCHANGED <<call, granted>>
        PROVE  Inv'
    <2>1. /\ Answered(r, answer) \in RequestState /\ Answered(r, answer).pc = "over"
          /\ Answered(r, answer).gone = q.gone /\ Answered(r, answer).next = q.next
          /\ Answered(r, answer).failed = q.failed /\ Answered(r, answer).paid = q.paid
      BY AnsweredType DEF Inv
    <2>2. /\ refused(answer) \in RequestState /\ refused(answer).counted = Position
          /\ refused(answer).next = q.next /\ ~refused(answer).failed /\ ~refused(answer).gone
          /\ refused(answer).pc = "over" /\ ~refused(answer).paid
      BY <1>2, <1>5, <2>1 DEF RequestState
    <2>3. call[r].pc # "waiting"
      BY <1>2 DEF Active
    <2>4. Fits(refused(answer), nws, call[r])
      BY <1>2, <1>5, <2>2, <2>3, AllCountedFits
    <2>5. call' = [call EXCEPT ![r] = call[r]]
      BY <1>7, Unmoved
    <2>6. RequestsTyped' /\ RequestsFit'
      BY <1>1, <1>3, <1>4, <1>7, <2>2, <2>4, <2>5, OneRequest
    <2>7. RestOK'
      BY <1>2, <1>3, <1>7, RestKept
    <2> QED
      BY <2>6, <2>7 DEF Inv
  <1>8. \/ /\ granted < Limit /\ granted' = granted + 1
           /\ req' = [req EXCEPT ![r] = paid] /\ call' = [call EXCEPT ![r] = Calling(0)]
        \/ \E answer \in {"429", "413"} :
             req' = [req EXCEPT ![r] = refused(answer)] /\ UNCHANGED <<call, granted>>
    BY DEF AllCounted, LimiterStep, Inv, RequestsTyped
  <1> QED
    BY <1>6, <1>7, <1>8 DEF Answer

(* A count that fails for good: its turn is lost, and the first one answers. *)
LEMMA CountFailsKeeps ==
  ASSUME Inv, NEW r \in Request, NEW w \in Worker, CountFails(r, w)
  PROVE  Inv'
  <1> DEFINE q == req[r]
             ws == worker[r]
             mine == worker[r][w]
             nws == [ws EXCEPT ![w] = Off]
  <1>1. /\ q \in RequestState /\ ws \in [Worker -> Loop] /\ call[r] \in Loop /\ mine \in Loop
        /\ Fits(q, ws, call[r]) /\ TurnsApart(q, ws) /\ PlaceFits(q, ws, call[r])
    BY RequestFits DEF Fits
  <1>2. /\ Active(mine) /\ worker' = [worker EXCEPT ![r] = nws]
        /\ call' = [call EXCEPT ![r] = call[r]] /\ granted' = granted /\ rows' = rows
    BY Unmoved DEF CountFails, Active, Inv, RequestsTyped
  <1>3. nws \in [Worker -> Loop] /\ \A v \in Worker : nws[v] = IF v = w THEN Off ELSE ws[v]
    BY <1>1, LoopType
  <1>4. q.pc # "new" /\ ~q.paid
    BY <1>1, <1>2 DEF PlaceFits, NoWorker
  <1>5. CASE q.failed
    <2>1. req' = [req EXCEPT ![r] = q]
      BY <1>5, Unmoved DEF CountFails
    <2>2. TurnsApart(q, nws)
      BY <1>1, <1>3, LoopActive DEF TurnsApart
    <2>3. \A v \in Worker : LoopFits(q, nws[v])
      BY <1>1, <1>3 DEF Fits, LoopFits, Off
    <2>4. TurnIsLost(q, nws)
      BY <1>1, <1>3, <1>5, LoopActive DEF PlaceFits, TurnIsLost
    <2>5. PlaceFits(q, nws, call[r])
      BY <1>1, <1>4, <1>5, <2>4 DEF PlaceFits
    <2>6. Fits(q, nws, call[r])
      BY <1>1, <2>2, <2>3, <2>5 DEF Fits
    <2>7. RequestsTyped' /\ RequestsFit'
      BY <1>1, <1>2, <1>3, <2>1, <2>6, OneRequest
    <2>8. RestOK'
      BY <1>2, <2>1, RestKept
    <2> QED
      BY <2>7, <2>8 DEF Inv
  <1>6. CASE ~q.failed
    <2>1. PICK answer \in Answer, missing \in BOOLEAN :
            req' = [req EXCEPT ![r] = [Answered(r, answer) EXCEPT !.failed = TRUE, !.missing = missing]]
      BY <1>6 DEF CountFails, FailureAnswer, Answer
    <2> DEFINE aq == Answered(r, answer)
               nq == [aq EXCEPT !.failed = TRUE, !.missing = missing]
    <2>2. /\ aq \in RequestState /\ aq.pc = "over" /\ aq.gone = q.gone /\ aq.next = q.next
          /\ aq.counted = q.counted /\ aq.paid = q.paid
      BY AnsweredType DEF Inv
    <2>3. /\ nq \in RequestState /\ nq.pc = "over" /\ nq.gone = q.gone /\ nq.next = q.next
          /\ nq.counted = q.counted /\ nq.paid = q.paid /\ nq.failed
      BY <2>2 DEF RequestState
    <2>4. q.pc = "counting" /\ ~Active(call[r])
      BY <1>1, <1>2, <1>6 DEF PlaceFits, NoWorker
    <2>5. TurnsApart(nq, nws)
      BY <1>1, <1>3, <2>3, LoopActive DEF TurnsApart
    <2>6. TurnIsLost(nq, nws)
      <3>1. /\ mine.turn \in Position /\ mine.turn < q.next /\ mine.turn \notin q.counted
            /\ \A v \in Worker : Active(nws[v]) => nws[v].turn # mine.turn
        BY <1>1, <1>2, <1>3, LoopActive DEF TurnsApart
      <3> QED
        BY <2>3, <3>1 DEF TurnIsLost
    <2>7. (\A v \in Worker : LoopFits(nq, nws[v])) /\ LoopFits(nq, call[r])
      BY <1>1, <1>3, <2>3 DEF Fits, LoopFits, Off
    <2>8. PlaceFits(nq, nws, call[r])
      BY <1>4, <2>3, <2>4, <2>6 DEF PlaceFits
    <2>9. Fits(nq, nws, call[r])
      BY <2>5, <2>7, <2>8 DEF Fits
    <2>10. RequestsTyped' /\ RequestsFit'
      BY <1>1, <1>2, <1>3, <2>1, <2>3, <2>9, OneRequest
    <2>11. RestOK'
      BY <1>2, <2>1, <2>4, RestKept
    <2> QED
      BY <2>10, <2>11 DEF Inv
  <1> QED
    BY <1>5, <1>6

(* A count that waits or is tried again stays at its turn. *)
LEMMA CountRetriesKeep ==
  ASSUME Inv, NEW r \in Request, NEW w \in Worker, CountWaits(r, w) \/ CountAgain(r, w)
  PROVE  Inv'
  <1> DEFINE q == req[r]
             ws == worker[r]
             mine == worker[r][w]
  <1>1. /\ q \in RequestState /\ ws \in [Worker -> Loop] /\ call[r] \in Loop /\ mine \in Loop
        /\ Fits(q, ws, call[r]) /\ TurnsApart(q, ws) /\ PlaceFits(q, ws, call[r])
        /\ LoopFits(q, mine)
    BY RequestFits DEF Fits
  <1>2. PICK loop \in Loop :
          /\ worker' = [worker EXCEPT ![r] = [ws EXCEPT ![w] = loop]]
          /\ Active(mine) /\ Active(loop) /\ loop.turn = mine.turn /\ LoopFits(q, loop)
    <2>1. CASE CountWaits(r, w)
      <3>1. ~q.gone /\ mine.attempt < Retries
        BY <1>1, <2>1, HandlerAssumption, SMTT(30) DEF CountWaits, GivesUp, Loop
      <3>2. worker' = [worker EXCEPT ![r] = [ws EXCEPT ![w] = Waits(mine)]] /\ Active(mine)
        BY <2>1 DEF CountWaits, Active, Inv, RequestsTyped
      <3>3. /\ Waits(mine) \in Loop /\ Active(Waits(mine)) /\ Waits(mine).turn = mine.turn
            /\ LoopFits(q, Waits(mine))
        BY <1>1, <3>1, LoopType, LoopActive DEF LoopFits
      <3> QED
        BY <3>2, <3>3
    <2>2. CASE CountAgain(r, w)
      BY <1>1, <2>2, LoopType, LoopActive DEF CountAgain, LoopFits, Active, Inv, RequestsTyped
    <2> QED
      BY <2>1, <2>2
  <1> DEFINE nws == [ws EXCEPT ![w] = loop]
  <1>3. /\ req' = [req EXCEPT ![r] = q] /\ call' = [call EXCEPT ![r] = call[r]]
        /\ granted' = granted /\ rows' = rows
    BY Unmoved DEF CountWaits, CountAgain
  <1>4. nws \in [Worker -> Loop] /\ \A v \in Worker : nws[v] = IF v = w THEN loop ELSE ws[v]
    BY <1>1
  <1>5. \A v \in Worker : (Active(nws[v]) <=> Active(ws[v])) /\ nws[v].turn = ws[v].turn
    BY <1>2, <1>4
  <1>6. TurnsApart(q, nws)
    BY <1>1, <1>5 DEF TurnsApart
  <1>7. \A v \in Worker : LoopFits(q, nws[v])
    BY <1>1, <1>2, <1>4 DEF Fits
  <1>8. PlaceFits(q, nws, call[r])
    <2>1. NoWorker(nws) <=> NoWorker(ws)
      BY <1>5 DEF NoWorker
    <2>2. TurnIsLost(q, ws) => TurnIsLost(q, nws)
      BY <1>5 DEF TurnIsLost
    <2> QED
      BY <1>1, <2>1, <2>2 DEF PlaceFits
  <1>9. Fits(q, nws, call[r])
    BY <1>1, <1>6, <1>7, <1>8 DEF Fits
  <1>10. RequestsTyped' /\ RequestsFit'
    BY <1>1, <1>2, <1>3, <1>4, <1>9, OneRequest
  <1>11. RestOK'
    BY <1>3, RestKept
  <1> QED
    BY <1>10, <1>11 DEF Inv

-----------------------------------------------------------------------------
(* The other steps of a request. *)

(* A request that is refused at once, or whose workers begin. *)
LEMMA BeginKeeps ==
  ASSUME Inv, NEW r \in Request, Refuse(r) \/ StartCounting(r)
  PROVE  Inv'
  <1> DEFINE q == req[r]
             ws == worker[r]
  <1>1. /\ q \in RequestState /\ ws \in [Worker -> Loop] /\ call[r] \in Loop
        /\ Fits(q, ws, call[r]) /\ TurnsApart(q, ws) /\ PlaceFits(q, ws, call[r])
    BY RequestFits DEF Fits
  <1>2. /\ q.pc = "new" /\ call' = [call EXCEPT ![r] = call[r]] /\ granted' = granted
        /\ rows' = rows
    BY Unmoved DEF Refuse, StartCounting
  <1>3. /\ NoWorker(ws) /\ ~q.paid /\ ~q.gone /\ ~q.failed /\ q.counted = {}
        /\ q.answer = "none" /\ ~Active(call[r])
    BY <1>1, <1>2 DEF PlaceFits
  <1>4. CASE Refuse(r)
    <2>1. PICK answer \in Answer : req' = [req EXCEPT ![r] = Answered(r, answer)]
      BY <1>4 DEF Refuse, Answer
    <2> DEFINE nq == Answered(r, answer)
    <2>2. /\ nq \in RequestState /\ nq.pc = "over" /\ nq.gone = q.gone /\ nq.next = q.next
          /\ nq.counted = q.counted /\ nq.paid = q.paid /\ nq.failed = q.failed
      BY AnsweredType DEF Inv
    <2>3. worker' = [worker EXCEPT ![r] = ws]
      BY <1>4, Unmoved DEF Refuse
    <2>4. Fits(nq, ws, call[r])
      BY <1>1, <1>3, <2>2 DEF Fits, TurnsApart, LoopFits, PlaceFits
    <2>5. RequestsTyped' /\ RequestsFit'
      BY <1>1, <1>2, <2>1, <2>2, <2>3, <2>4, OneRequest
    <2>6. RestOK'
      BY <1>2, <2>1, RestKept
    <2> QED
      BY <2>5, <2>6 DEF Inv
  <1>5. CASE StartCounting(r)
    <2> DEFINE busy == {w \in Worker : w <= Turns}
               most == IF Concurrency <= Turns THEN Concurrency ELSE Turns
               nq == [q EXCEPT !.pc = "counting", !.next = Cardinality(busy) + 1]
               nws == [w \in Worker |-> IF w \in busy THEN Calling(w) ELSE Off]
    <2>1. req' = [req EXCEPT ![r] = nq] /\ worker' = [worker EXCEPT ![r] = nws]
      BY <1>5 DEF StartCounting, Inv, RequestsTyped
    <2>2. busy = 1 .. most /\ most \in 1 .. Turns
      BY HandlerAssumption DEF Worker
    <2>3. Cardinality(busy) = most
      <3>1. Cardinality(1 .. most) = IF 1 > most THEN 0 ELSE most - 1 + 1
        BY <2>2, FS_Interval
      <3> HIDE DEF busy, most
      <3>2. Cardinality(busy) = Cardinality(1 .. most)
        BY <2>2
      <3>3. most \in Nat /\ ~(1 > most)
        BY <2>2, HandlerAssumption
      <3> QED
        BY <3>1, <3>2, <3>3
    <2>4. most + 1 \in 1 .. Turns + 1
      BY <2>2, HandlerAssumption
    <2>5. /\ nq \in RequestState /\ nq.next = most + 1 /\ nq.pc = "counting"
          /\ nq.gone = q.gone /\ nq.counted = q.counted /\ nq.paid = q.paid
          /\ nq.failed = q.failed /\ nq.answer = q.answer
      BY <1>1, <2>3, <2>4 DEF RequestState
    <2>6. nws \in [Worker -> Loop]
      <3>1. \A w \in busy : w \in 0 .. Turns
        BY <2>2, HandlerAssumption
      <3> QED
        BY <3>1, LoopType
    <2>7. \A w \in Worker : /\ Active(nws[w]) => w \in busy /\ nws[w].turn = w
                            /\ nws[w].pc # "waiting"
      BY LoopActive DEF Off
    <2>8. TurnsApart(nq, nws)
      <3>1. \A w \in busy : w \in Position /\ w < most + 1
        BY <2>2, HandlerAssumption DEF Position
      <3> HIDE DEF nq, nws, busy, most
      <3>2. \A w \in Worker : Active(nws[w]) => w \in busy /\ nws[w].turn = w
        BY <2>7
      <3>3. \A w \in Worker : Active(nws[w]) =>
              nws[w].turn \in Position /\ nws[w].turn < nq.next /\ nws[w].turn \notin nq.counted
        BY <1>3, <2>5, <3>1, <3>2
      <3>4. nq.counted = {}
        BY <1>3, <2>5
      <3> QED
        BY <3>2, <3>3, <3>4 DEF TurnsApart
    <2>9. \A w \in Worker : LoopFits(nq, nws[w])
      BY <2>7 DEF LoopFits
    <2>10. LoopFits(nq, call[r]) /\ PlaceFits(nq, nws, call[r])
      BY <1>3, <2>5 DEF LoopFits, PlaceFits, Active
    <2>11. Fits(nq, nws, call[r])
      BY <2>8, <2>9, <2>10 DEF Fits
    <2>12. RequestsTyped' /\ RequestsFit'
      BY <1>1, <1>2, <2>1, <2>5, <2>6, <2>11, OneRequest
    <2>13. RestOK'
      BY <1>2, <2>1, RestKept
    <2> QED
      BY <2>12, <2>13 DEF Inv
  <1> QED
    BY <1>4, <1>5

(* A request whose workers rest fits wherever its call and its end take it. *)
LEMMA PaidFits ==
  ASSUME NEW q, NEW ws, NEW c, NEW nq, NEW nc, Fits(q, ws, c), q.pc \in {"generating", "recording"},
         nq.next = q.next, nq.counted = q.counted, nq.failed = q.failed, nq.gone = q.gone,
         nq.paid = q.paid,
         LoopFits(nq, nc),
         \/ nq.pc = "over" /\ ~Active(nc)
         \/ nq.pc = "recording" /\ ~Active(nc) /\ nq.answer = q.answer
         \/ nq.pc = "generating" /\ nq.answer = q.answer
  PROVE  Fits(nq, ws, nc)
  <1>1. TurnsApart(nq, ws)
    BY DEF Fits, TurnsApart
  <1>2. \A w \in Worker : LoopFits(nq, ws[w])
    BY DEF Fits, LoopFits
  <1>3. PlaceFits(nq, ws, nc)
    BY DEF Fits, PlaceFits
  <1> QED
    BY <1>1, <1>2, <1>3 DEF Fits

(* The paid call resolves, fails for good, waits or is tried again. *)
LEMMA GenerateKeeps ==
  ASSUME Inv, NEW r \in Request, GenerateEnds(r) \/ GenerateAgain(r)
  PROVE  Inv'
  <1> DEFINE q == req[r]
             c == call[r]
  <1>1. /\ q \in RequestState /\ worker[r] \in [Worker -> Loop] /\ c \in Loop
        /\ Fits(q, worker[r], c) /\ LoopFits(q, c)
    BY RequestFits DEF Fits
  <1>2. /\ Active(c) /\ worker' = [worker EXCEPT ![r] = worker[r]]
        /\ granted' = granted /\ rows' = rows
    BY Unmoved DEF GenerateEnds, GenerateAnswers, GenerateFails, GenerateWaits, GenerateAgain, Active
  <1>3. q.pc = "generating"
    BY <1>1, <1>2 DEF Fits, PlaceFits
  <1>4. ASSUME NEW nq \in RequestState, NEW nc \in Loop,
               req' = [req EXCEPT ![r] = nq], call' = [call EXCEPT ![r] = nc],
               Fits(nq, worker[r], nc)
        PROVE  Inv'
    <2>1. RequestsTyped' /\ RequestsFit'
      BY <1>1, <1>2, <1>4, OneRequest
    <2>2. RestOK'
      BY <1>2, <1>3, <1>4, RestKept
    <2> QED
      BY <2>1, <2>2 DEF Inv
  <1>5. Off \in Loop /\ ~Active(Off) /\ \A nq : LoopFits(nq, Off)
    BY LoopType, LoopActive DEF LoopFits, Off
  <1>6. CASE GenerateAnswers(r)
    <2>1. CASE \E answer \in {"200 other", "502 empty", "500 price"} :
                 req' = [req EXCEPT ![r] = Answered(r, answer)]
      <3>1. PICK answer \in Answer : req' = [req EXCEPT ![r] = Answered(r, answer)]
        BY <2>1 DEF Answer
      <3> DEFINE nq == Answered(r, answer)
      <3>2. /\ nq \in RequestState /\ nq.pc = "over" /\ nq.gone = q.gone /\ nq.next = q.next
            /\ nq.counted = q.counted /\ nq.paid = q.paid /\ nq.failed = q.failed
        BY AnsweredType DEF Inv
      <3>3. Fits(nq, worker[r], Off)
        BY <1>1, <1>3, <1>5, <3>2, PaidFits
      <3>4. call' = [call EXCEPT ![r] = Off]
        BY <1>6 DEF GenerateAnswers
      <3> QED
        BY <1>4, <1>5, <3>1, <3>2, <3>3, <3>4
    <2>2. CASE req' = [req EXCEPT ![r].pc = "recording"]
      <3> DEFINE nq == [q EXCEPT !.pc = "recording"]
      <3>1. req' = [req EXCEPT ![r] = nq] /\ call' = [call EXCEPT ![r] = Off]
        BY <1>6, <2>2 DEF GenerateAnswers, Inv, RequestsTyped
      <3>2. /\ nq \in RequestState /\ nq.pc = "recording" /\ nq.gone = q.gone /\ nq.next = q.next
            /\ nq.counted = q.counted /\ nq.paid = q.paid /\ nq.failed = q.failed
            /\ nq.answer = q.answer
        BY <1>1 DEF RequestState
      <3>3. Fits(nq, worker[r], Off)
        <4> HIDE DEF nq, q
        <4> QED
          BY <1>1, <1>3, <1>5, <3>2, PaidFits
      <3> QED
        BY <1>4, <1>5, <3>1, <3>2, <3>3
    <2> QED
      BY <1>6, <2>1, <2>2 DEF GenerateAnswers
  <1>7. CASE GenerateFails(r)
    <2>1. PICK answer \in Answer, missing \in BOOLEAN :
            req' = [req EXCEPT ![r] = [Answered(r, answer) EXCEPT !.missing = missing]]
      BY <1>7 DEF GenerateFails, FailureAnswer, Answer
    <2> DEFINE aq == Answered(r, answer)
               nq == [aq EXCEPT !.missing = missing]
    <2>2. /\ aq \in RequestState /\ aq.pc = "over" /\ aq.gone = q.gone /\ aq.next = q.next
          /\ aq.counted = q.counted /\ aq.paid = q.paid /\ aq.failed = q.failed
      BY AnsweredType DEF Inv
    <2>3. /\ nq \in RequestState /\ nq.pc = "over" /\ nq.gone = q.gone /\ nq.next = q.next
          /\ nq.counted = q.counted /\ nq.paid = q.paid /\ nq.failed = q.failed
      BY <2>2 DEF RequestState
    <2>4. Fits(nq, worker[r], Off)
      <3> HIDE DEF nq, q
      <3> QED
        BY <1>1, <1>3, <1>5, <2>3, PaidFits
    <2>5. call' = [call EXCEPT ![r] = Off]
      BY <1>7 DEF GenerateFails
    <2> QED
      BY <1>4, <1>5, <2>1, <2>3, <2>4, <2>5
  <1>8. CASE GenerateWaits(r)
    <2>1. ~q.gone /\ c.attempt < Retries
      BY <1>1, <1>8, HandlerAssumption DEF GenerateWaits, GivesUp, Loop
    <2>2. Waits(c) \in Loop /\ LoopFits(q, Waits(c))
      BY <1>1, <2>1, LoopType, LoopActive DEF LoopFits
    <2>3. Fits(q, worker[r], Waits(c))
      BY <1>1, <1>3, <2>2, PaidFits
    <2>4. req' = [req EXCEPT ![r] = q] /\ call' = [call EXCEPT ![r] = Waits(c)]
      BY <1>8, Unmoved DEF GenerateWaits
    <2> QED
      BY <1>1, <1>4, <2>2, <2>3, <2>4
  <1>9. CASE GenerateAgain(r)
    <2>1. TriesAgain(c) \in Loop /\ LoopFits(q, TriesAgain(c))
      BY <1>1, <1>9, LoopType, LoopActive DEF GenerateAgain, LoopFits
    <2>2. Fits(q, worker[r], TriesAgain(c))
      BY <1>1, <1>3, <2>1, PaidFits
    <2>3. req' = [req EXCEPT ![r] = q] /\ call' = [call EXCEPT ![r] = TriesAgain(c)]
      BY <1>9, Unmoved DEF GenerateAgain
    <2> QED
      BY <1>1, <1>4, <2>1, <2>2, <2>3
  <1> QED
    BY <1>6, <1>7, <1>8, <1>9 DEF GenerateEnds

(* The usage row is written or not, and the client gets its images. *)
LEMMA RecordedKeeps ==
  ASSUME Inv, NEW r \in Request, Recorded(r)
  PROVE  Inv'
  <1> DEFINE q == req[r]
             nq == Answered(r, "200 images")
  <1>1. /\ q \in RequestState /\ worker[r] \in [Worker -> Loop] /\ call[r] \in Loop
        /\ Fits(q, worker[r], call[r]) /\ PlaceFits(q, worker[r], call[r])
        /\ LoopFits(q, call[r])
    BY RequestFits DEF Fits
  <1>2. /\ req' = [req EXCEPT ![r] = nq] /\ worker' = [worker EXCEPT ![r] = worker[r]]
        /\ call' = [call EXCEPT ![r] = call[r]] /\ granted' = granted
        /\ rows' \in {rows, rows \cup {r}} /\ q.pc = "recording"
    BY Unmoved DEF Recorded
  <1>3. q.answer = "none" /\ q.paid /\ ~Active(call[r])
    BY <1>1, <1>2 DEF PlaceFits
  <1>4. /\ nq \in RequestState /\ nq.pc = "over" /\ nq.gone = q.gone /\ nq.next = q.next
        /\ nq.counted = q.counted /\ nq.paid = q.paid /\ nq.failed = q.failed
        /\ nq.answer = (IF q.gone THEN q.answer ELSE "200 images")
    BY AnsweredType, ZenonT(60) DEF Inv, Answer
  <1>5. Fits(nq, worker[r], call[r])
    <2>1. LoopFits(nq, call[r])
      BY <1>3 DEF LoopFits, Active
    <2> HIDE DEF nq, q
    <2> QED
      BY <1>1, <1>2, <1>3, <1>4, <2>1, PaidFits
  <1>6. RequestsTyped' /\ RequestsFit'
    BY <1>1, <1>2, <1>4, <1>5, OneRequest
  <1>7. RowsFit'
    <2>1. ASSUME NEW s \in rows', s # r
          PROVE  req'[s].pc = "over" /\ req'[s].paid /\ (req'[s].answer = "200 images" \/ req'[s].gone)
      BY <1>2, <2>1 DEF Inv, RequestsTyped, RestOK, RowsFit
    <2>2. req'[r].pc = "over" /\ req'[r].paid /\ (req'[r].answer = "200 images" \/ req'[r].gone)
      BY <1>2, <1>3, <1>4 DEF Inv, RequestsTyped
    <2> QED
      BY <2>1, <2>2 DEF RowsFit
  <1> QED
    BY <1>2, <1>6, <1>7 DEF Inv, RestOK

(* The client leaves: whatever waits for it ends. *)
LEMMA ClientGoneKeeps ==
  ASSUME Inv, NEW r \in Request, ClientGone(r)
  PROVE  Inv'
  <1> DEFINE q == req[r]
             ws == worker[r]
             c == call[r]
             waiting == {w \in Worker : ws[w].pc = "waiting"}
             ends == waiting # {} \/ c.pc = "waiting"
             nq == [q EXCEPT !.gone = TRUE, !.failed = @ \/ waiting # {},
                             !.pc = IF ends THEN "over" ELSE @]
             nws == [w \in Worker |-> IF w \in waiting THEN Off ELSE ws[w]]
             nc == IF c.pc = "waiting" THEN Off ELSE c
  <1>1. /\ q \in RequestState /\ ws \in [Worker -> Loop] /\ c \in Loop
        /\ Fits(q, ws, c) /\ TurnsApart(q, ws) /\ PlaceFits(q, ws, c)
    BY RequestFits DEF Fits
  <1>2. /\ q.pc \in {"counting", "generating", "recording"}
        /\ req' = [req EXCEPT ![r] = nq] /\ worker' = [worker EXCEPT ![r] = nws]
        /\ call' = [call EXCEPT ![r] = nc] /\ granted' = granted /\ rows' = rows
    BY DEF ClientGone, Inv, RequestsTyped
  <1>3. /\ nq \in RequestState /\ nq.gone /\ nq.failed = (q.failed \/ waiting # {})
        /\ nq.pc = (IF ends THEN "over" ELSE q.pc) /\ nq.next = q.next
        /\ nq.counted = q.counted /\ nq.paid = q.paid /\ nq.answer = q.answer
    BY <1>1 DEF RequestState
  <1>4. nws \in [Worker -> Loop] /\ nc \in Loop
    BY <1>1, LoopType
  <1>5. /\ \A w \in Worker : /\ Active(nws[w]) => Active(ws[w]) /\ nws[w] = ws[w] /\ w \notin waiting
                             /\ nws[w].pc # "waiting"
        /\ Active(nc) => Active(c) /\ c.pc # "waiting"
        /\ nc.pc # "waiting"
    BY LoopActive DEF Off
  <1>6. ~q.failed /\ q.answer = "none"
    BY <1>1, <1>2 DEF PlaceFits
  <1> HIDE DEF nq, nws, nc
  <1>7. TurnsApart(nq, nws)
    BY <1>1, <1>3, <1>5 DEF TurnsApart
  <1>8. (\A w \in Worker : LoopFits(nq, nws[w])) /\ LoopFits(nq, nc)
    BY <1>5 DEF LoopFits
  <1>9. nq.failed => nq.pc = "over" /\ TurnIsLost(nq, nws)
    <2> SUFFICES ASSUME nq.failed PROVE nq.pc = "over" /\ TurnIsLost(nq, nws)
      OBVIOUS
    <2>1. PICK w \in waiting : TRUE
      BY <1>3, <1>6
    <2>2. w \in Worker /\ Active(ws[w])
      BY <2>1 DEF Active
    <2>3. /\ ws[w].turn \in Position /\ ws[w].turn < q.next /\ ws[w].turn \notin q.counted
          /\ \A v \in Worker : Active(nws[v]) => nws[v].turn # ws[w].turn
      BY <1>1, <1>5, <2>1, <2>2 DEF TurnsApart
    <2> QED
      BY <1>3, <2>1, <2>3 DEF TurnIsLost
  <1>10. PlaceFits(nq, nws, nc)
    <2>1. ~NoWorker(nws) => ~NoWorker(ws)
      BY <1>5 DEF NoWorker
    <2>2. NoWorker(ws) => waiting = {}
      BY DEF NoWorker, Active
    <2>3. ~nq.failed => waiting = {}
      BY <1>3
    <2>4. ~NoWorker(nws) /\ ~nq.failed => nq.pc = "counting"
      <3> SUFFICES ASSUME ~NoWorker(nws), ~nq.failed PROVE nq.pc = "counting"
        OBVIOUS
      <3>1. q.pc = "counting"
        BY <1>1, <1>6, <2>1 DEF PlaceFits
      <3>2. c.pc # "waiting"
        BY <1>1, <3>1 DEF PlaceFits, Active
      <3> QED
        BY <1>3, <2>3, <3>1, <3>2
    <2>5. Active(nc) => nq.pc = "generating"
      <3> SUFFICES ASSUME Active(nc) PROVE nq.pc = "generating"
        OBVIOUS
      <3>1. q.pc = "generating" /\ c.pc # "waiting"
        BY <1>1, <1>5 DEF PlaceFits
      <3>2. NoWorker(ws)
        BY <1>1, <3>1 DEF PlaceFits
      <3> QED
        BY <1>3, <2>2, <3>1, <3>2
    <2>6. nq.paid => nq.counted = Position /\ ~nq.failed /\ NoWorker(nws)
      BY <1>1, <1>3, <1>6, <2>1, <2>2 DEF PlaceFits
    <2>7. nq.pc \in {"generating", "recording"} => nq.paid
      BY <1>1, <1>3 DEF PlaceFits
    <2>8. nq.pc # "new" /\ nq.answer = "none"
      BY <1>2, <1>3, <1>6
    <2> QED
      BY <1>9, <2>4, <2>5, <2>6, <2>7, <2>8 DEF PlaceFits
  <1>11. Fits(nq, nws, nc)
    BY <1>7, <1>8, <1>10 DEF Fits
  <1>12. RequestsTyped' /\ RequestsFit'
    BY <1>2, <1>3, <1>4, <1>11, OneRequest
  <1>13. RestOK'
    BY <1>2, RestKept
  <1> QED
    BY <1>12, <1>13 DEF Inv

-----------------------------------------------------------------------------
(* The invariant. *)

(* The invariant holds of requests that just arrived. *)
LEMMA InitInv == Init => Inv
  <1> SUFFICES ASSUME Init PROVE Inv
    OBVIOUS
  <1>1. PICK expired \in [Request -> BOOLEAN] :
          req = [r \in Request |->
                   [pc |-> "new", gone |-> FALSE, expired |-> expired[r], next |-> 1,
                    failed |-> FALSE, counted |-> {}, paid |-> FALSE, missing |-> FALSE,
                    answer |-> "none"]]
    BY DEF Init
  <1>2. 1 \in 1 .. Turns + 1 /\ {} \in SUBSET Position
    BY HandlerAssumption
  <1>3. RequestsTyped
    <2>1. req \in [Request -> RequestState]
      BY <1>1, <1>2 DEF RequestState
    <2> QED
      BY <2>1, LoopType DEF Init, RequestsTyped
  <1>4. ASSUME NEW r \in Request PROVE Fits(req[r], worker[r], call[r])
    <2>1. /\ req[r].pc = "new" /\ ~req[r].gone /\ ~req[r].failed /\ req[r].counted = {}
          /\ ~req[r].paid /\ req[r].answer = "none"
      BY <1>1
    <2>2. call[r] = Off /\ \A w \in Worker : worker[r][w] = Off
      BY DEF Init
    <2>3. NoWorker(worker[r]) /\ ~Active(call[r])
      BY <2>2, LoopActive DEF NoWorker
    <2>4. \A w \in Worker : LoopFits(req[r], worker[r][w])
      BY <2>2 DEF LoopFits, Off
    <2>5. LoopFits(req[r], call[r])
      BY <2>2 DEF LoopFits, Off
    <2>6. TurnsApart(req[r], worker[r])
      BY <2>1, <2>3 DEF TurnsApart, NoWorker
    <2>7. PlaceFits(req[r], worker[r], call[r])
      BY <2>1, <2>3 DEF PlaceFits
    <2> QED
      BY <2>4, <2>5, <2>6, <2>7 DEF Fits
  <1>5. RestOK
    BY HandlerAssumption DEF Init, RestOK, RowsFit
  <1> QED
    BY <1>3, <1>4, <1>5 DEF Inv, RequestsFit

(* Every step keeps it. *)
LEMMA NextInv == Inv /\ [Next]_vars => Inv'
  <1> SUFFICES ASSUME Inv, [Next]_vars PROVE Inv'
    OBVIOUS
  <1>1. CASE UNCHANGED vars
    BY <1>1 DEF vars, Inv, RequestsTyped, RequestsFit, RestOK, RowsFit
  <1>2. CASE Next
    <2>1. PICK r \in Request :
            \/ Refuse(r) \/ StartCounting(r) \/ ClientGone(r)
            \/ \E w \in Worker : CountEnds(r, w) \/ CountAgain(r, w)
            \/ GenerateEnds(r) \/ GenerateAgain(r) \/ Recorded(r)
      BY <1>2 DEF Next
    <2>2. CASE Refuse(r) \/ StartCounting(r)
      BY <2>2, BeginKeeps
    <2>3. CASE ClientGone(r)
      BY <2>3, ClientGoneKeeps
    <2>4. CASE \E w \in Worker : CountEnds(r, w) \/ CountAgain(r, w)
      BY <2>4, CountedKeeps, AllCountedKeeps, CountFailsKeeps, CountRetriesKeep DEF CountEnds
    <2>5. CASE GenerateEnds(r) \/ GenerateAgain(r)
      BY <2>5, GenerateKeeps
    <2>6. CASE Recorded(r)
      BY <2>6, RecordedKeeps
    <2> QED
      BY <2>1, <2>2, <2>3, <2>4, <2>5, <2>6
  <1> QED
    BY <1>1, <1>2

(* So it always holds. *)
LEMMA SpecInv == Spec => []Inv
  BY InitInv, NextInv, PTL DEF Spec

(* Every state of the route is typed: an attempt stays within the retries,   *)
(* the units given out within the limit (runWithRetry, tryConsume).         *)
THEOREM HandlerTypeCorrect == Spec => []TypeOK
  <1>1. Inv => TypeOK
    BY DEF Inv, RequestsTyped, RestOK, TypeOK
  <1> QED
    BY SpecInv, <1>1, PTL

(* A paid call is begun only when every turn was counted and no worker is    *)
(* left, in whatever order counts arrive and fail (handlers.js, countAll).  *)
THEOREM PaidOnlyAfterCounting == Spec => []PaidAfterCounting
  <1>1. Inv => PaidAfterCounting
    BY DEF Inv, RequestsFit, Fits, PlaceFits, NoWorker, PaidAfterCounting
  <1> QED
    BY SpecInv, <1>1, PTL

(* A usage row belongs to a paid call whose client got the images or left    *)
(* (insertUsage before the answer in handlers.js).                          *)
THEOREM RowsOnlyForImages == Spec => []RowsAreForImages
  <1>1. Inv => RowsAreForImages
    BY DEF Inv, RestOK, RowsFit, RowsAreForImages
  <1> QED
    BY SpecInv, <1>1, PTL

-----------------------------------------------------------------------------
(* One answer. *)

AnswerStep ==
  \A r \in Request : req'[r].answer # req[r].answer => req[r].answer = "none" /\ ~req[r].gone

(* A step that leaves every answer as it was is none. *)
LEMMA AnswerOf ==
  ASSUME Inv, NEW r \in Request, NEW q, req' = [req EXCEPT ![r] = q],
         q.answer # req[r].answer => req[r].answer = "none" /\ ~req[r].gone
  PROVE  AnswerStep
  BY DEF Inv, RequestsTyped, AnswerStep

(* An answer is given to a request that is not over, by Answered. *)
LEMMA AnswerGiven ==
  ASSUME Inv, NEW r \in Request, req[r].pc # "over", NEW answer \in Answer, NEW q,
         q.answer = Answered(r, answer).answer, req' = [req EXCEPT ![r] = q]
  PROVE  AnswerStep
  <1>1. Answered(r, answer).answer = (IF req[r].gone THEN req[r].answer ELSE answer)
    BY AnsweredType DEF Inv
  <1>2. req[r].answer = "none"
    BY RequestFits DEF Fits, PlaceFits
  <1> QED
    BY <1>1, <1>2, AnswerOf

(* The steps that neither answer a request nor begin its paid call.        *)
LEMMA Unanswered ==
  ASSUME Inv, NEW r \in Request,
         \/ StartCounting(r) \/ ClientGone(r)
         \/ \E w \in Worker : Counted(r, w) \/ CountWaits(r, w) \/ CountAgain(r, w)
         \/ GenerateWaits(r) \/ GenerateAgain(r)
  PROVE  /\ \A s \in Request : req'[s].answer = req[s].answer /\ req'[s].paid = req[s].paid
         /\ granted' = granted
  <1> DEFINE q == req[r]
  <1>1. q \in RequestState
    BY RequestFits
  <1>2. ASSUME NEW nq, nq.answer = q.answer, nq.paid = q.paid, req' = [req EXCEPT ![r] = nq]
        PROVE  \A s \in Request : req'[s].answer = req[s].answer /\ req'[s].paid = req[s].paid
    BY <1>2 DEF Inv, RequestsTyped
  <1>3. CASE StartCounting(r)
    <2> DEFINE busy == {w \in Worker : w <= Turns}
               nq == [q EXCEPT !.pc = "counting", !.next = Cardinality(busy) + 1]
    <2>1. req' = [req EXCEPT ![r] = nq] /\ granted' = granted
      BY <1>3 DEF StartCounting, Inv, RequestsTyped
    <2>2. nq.answer = q.answer /\ nq.paid = q.paid
      BY <1>1 DEF RequestState
    <2> QED
      BY <2>1, <2>2, <1>2
  <1>4. CASE ClientGone(r)
    <2> DEFINE waiting == {w \in Worker : worker[r][w].pc = "waiting"}
               ends == waiting # {} \/ call[r].pc = "waiting"
               nq == [q EXCEPT !.gone = TRUE, !.failed = @ \/ waiting # {},
                               !.pc = IF ends THEN "over" ELSE @]
    <2>1. req' = [req EXCEPT ![r] = nq] /\ granted' = granted
      BY <1>4 DEF ClientGone, Inv, RequestsTyped
    <2>2. nq.answer = q.answer /\ nq.paid = q.paid
      BY <1>1 DEF RequestState
    <2> QED
      BY <2>1, <2>2, <1>2
  <1>5. ASSUME NEW w \in Worker, Counted(r, w)
        PROVE  /\ \A s \in Request : req'[s].answer = req[s].answer /\ req'[s].paid = req[s].paid
               /\ granted' = granted
    <2> DEFINE more == ~q.failed /\ q.next <= Turns
               nq == [q EXCEPT !.counted = @ \cup {worker[r][w].turn},
                               !.next = IF more THEN @ + 1 ELSE @]
    <2>1. req' = [req EXCEPT ![r] = nq] /\ granted' = granted
      BY <1>5 DEF Counted, Inv, RequestsTyped
    <2>2. nq.answer = q.answer /\ nq.paid = q.paid
      BY <1>1 DEF RequestState
    <2> QED
      BY <2>1, <2>2, <1>2
  <1>6. ASSUME \/ \E w \in Worker : CountWaits(r, w) \/ CountAgain(r, w)
               \/ GenerateWaits(r) \/ GenerateAgain(r)
        PROVE  UNCHANGED <<req, granted>>
    BY <1>6 DEF CountWaits, CountAgain, GenerateWaits, GenerateAgain
  <1> QED
    BY <1>3, <1>4, <1>5, <1>6

(* Every step answers one request that is not over, or none. *)
LEMMA NextAnswers == Inv /\ [Next]_vars => AnswerStep
  <1> SUFFICES ASSUME Inv, [Next]_vars PROVE AnswerStep
    OBVIOUS
  <1>1. ASSUME NEW r \in Request, NEW answer \in Answer
        PROVE  Answered(r, answer) \in RequestState
    BY <1>1, AnsweredType DEF Inv
  <1>2. CASE UNCHANGED req
    BY <1>2 DEF AnswerStep
  <1>3. ASSUME NEW r \in Request, Refuse(r) PROVE AnswerStep
    <2>1. PICK answer \in Answer : req' = [req EXCEPT ![r] = Answered(r, answer)]
      BY <1>3 DEF Refuse, Answer
    <2> QED
      BY <1>3, <2>1, AnswerGiven DEF Refuse
  <1>4. ASSUME NEW r \in Request, NEW w \in Worker, AllCounted(r, w) PROVE AnswerStep
    <2>1. req[r].pc = "counting" /\ req[r] \in RequestState
      BY <1>4, AllCountedAlone, RequestFits
    <2>2. \/ req' = [req EXCEPT ![r] = [req[r] EXCEPT !.pc = "generating", !.paid = TRUE,
                                                      !.counted = Position]]
          \/ \E answer \in {"429", "413"} :
               req' = [req EXCEPT ![r] = [Answered(r, answer) EXCEPT !.counted = Position]]
      BY <1>4 DEF AllCounted, LimiterStep, Inv, RequestsTyped
    <2>3. CASE req' = [req EXCEPT ![r] = [req[r] EXCEPT !.pc = "generating", !.paid = TRUE,
                                                        !.counted = Position]]
      BY <2>1, <2>3, AnswerOf DEF RequestState
    <2>4. ASSUME NEW answer \in Answer,
                 req' = [req EXCEPT ![r] = [Answered(r, answer) EXCEPT !.counted = Position]]
          PROVE  AnswerStep
      <3> DEFINE nq == [Answered(r, answer) EXCEPT !.counted = Position]
      <3>1. nq.answer = Answered(r, answer).answer
        BY <1>1 DEF RequestState
      <3> QED
        BY <2>1, <2>4, <3>1, AnswerGiven
    <2> QED
      BY <2>2, <2>3, <2>4 DEF Answer
  <1>5. ASSUME NEW r \in Request, NEW w \in Worker, CountFails(r, w) PROVE AnswerStep
    <2>1. CASE req[r].failed
      BY <1>2, <1>5, <2>1 DEF CountFails
    <2>2. CASE ~req[r].failed
      <3>1. PICK answer \in Answer, missing \in BOOLEAN :
              req' = [req EXCEPT ![r] = [Answered(r, answer) EXCEPT !.failed = TRUE,
                                                                    !.missing = missing]]
        BY <1>5, <2>2 DEF CountFails, FailureAnswer, Answer
      <3> DEFINE nq == [Answered(r, answer) EXCEPT !.failed = TRUE, !.missing = missing]
      <3>2. nq.answer = Answered(r, answer).answer
        BY <1>1 DEF RequestState
      <3>3. req[r].pc = "counting"
        BY <1>5, <2>2, RequestFits DEF CountFails, Fits, PlaceFits, NoWorker, Active
      <3> QED
        BY <3>1, <3>2, <3>3, AnswerGiven
    <2> QED
      BY <2>1, <2>2
  <1>6. ASSUME NEW r \in Request, GenerateAnswers(r) \/ GenerateFails(r) PROVE AnswerStep
    <2>1. req[r].pc = "generating" /\ req[r] \in RequestState
      BY <1>6, RequestFits DEF GenerateAnswers, GenerateFails, Fits, PlaceFits, Active
    <2>2. \/ req' = [req EXCEPT ![r] = [req[r] EXCEPT !.pc = "recording"]]
          \/ \E answer \in Answer : req' = [req EXCEPT ![r] = Answered(r, answer)]
          \/ \E answer \in Answer, missing \in BOOLEAN :
               req' = [req EXCEPT ![r] = [Answered(r, answer) EXCEPT !.missing = missing]]
      BY <1>6 DEF GenerateAnswers, GenerateFails, FailureAnswer, Answer, Inv, RequestsTyped
    <2>3. CASE req' = [req EXCEPT ![r] = [req[r] EXCEPT !.pc = "recording"]]
      BY <2>1, <2>3, AnswerOf DEF RequestState
    <2>4. CASE \E answer \in Answer : req' = [req EXCEPT ![r] = Answered(r, answer)]
      BY <2>1, <2>4, AnswerGiven
    <2>5. ASSUME NEW answer \in Answer, NEW missing \in BOOLEAN,
                 req' = [req EXCEPT ![r] = [Answered(r, answer) EXCEPT !.missing = missing]]
          PROVE  AnswerStep
      <3> DEFINE nq == [Answered(r, answer) EXCEPT !.missing = missing]
      <3>1. nq.answer = Answered(r, answer).answer
        BY <1>1 DEF RequestState
      <3> QED
        BY <2>1, <2>5, <3>1, AnswerGiven
    <2> QED
      BY <2>2, <2>3, <2>4, <2>5
  <1>7. ASSUME NEW r \in Request, Recorded(r) PROVE AnswerStep
    BY <1>7, AnswerGiven DEF Recorded, Answer
  <1>8. ASSUME NEW r \in Request,
               \/ StartCounting(r) \/ ClientGone(r)
               \/ \E w \in Worker : Counted(r, w) \/ CountWaits(r, w) \/ CountAgain(r, w)
               \/ GenerateWaits(r) \/ GenerateAgain(r)
        PROVE  AnswerStep
    BY <1>8, Unanswered DEF AnswerStep
  <1> QED
    BY <1>2, <1>3, <1>4, <1>5, <1>6, <1>7, <1>8 DEF Next, vars, CountEnds, GenerateEnds

(* A request is answered once, by what ended it first, and never after its   *)
(* client left (answerError; Promise.all in countAll).                      *)
THEOREM AnsweredAtMostOnce == Spec => AnsweredOnce
  BY SpecInv, NextAnswers, PTL DEF Spec, AnsweredOnce, AnswerStep

-----------------------------------------------------------------------------
(* One unit per paid call. *)

(* A unit is given out together with the first paid call of one request. *)
UnitStep ==
  \/ granted' = granted /\ \A s \in Request : req'[s].paid = req[s].paid
  \/ \E r \in Request :
       /\ granted' = granted + 1 /\ ~req[r].paid /\ req'[r].paid
       /\ \A s \in Request \ {r} : req'[s] = req[s]

(* A step that leaves what was paid as it was takes no unit. *)
LEMMA UnitOf ==
  ASSUME Inv, NEW r \in Request, NEW q, q.paid = req[r].paid,
         req' = [req EXCEPT ![r] = q], granted' = granted
  PROVE  UnitStep
  BY DEF Inv, RequestsTyped, UnitStep

(* Every step takes one unit for one request that was not paid for, or none. *)
LEMMA NextUnits == Inv /\ [Next]_vars => UnitStep
  <1> SUFFICES ASSUME Inv, [Next]_vars PROVE UnitStep
    OBVIOUS
  <1>1. ASSUME NEW r \in Request, NEW answer \in Answer
        PROVE  Answered(r, answer) \in RequestState /\ Answered(r, answer).paid = req[r].paid
    BY <1>1, AnsweredType DEF Inv
  <1>2. CASE UNCHANGED vars
    BY <1>2 DEF vars, UnitStep
  <1>3. ASSUME NEW r \in Request, Refuse(r) PROVE UnitStep
    <2>1. PICK answer \in Answer : req' = [req EXCEPT ![r] = Answered(r, answer)]
      BY <1>3 DEF Refuse, Answer
    <2> QED
      BY <1>1, <1>3, <2>1, UnitOf DEF Refuse
  <1>4. ASSUME NEW r \in Request, NEW w \in Worker, AllCounted(r, w) PROVE UnitStep
    <2>1. ~req[r].paid /\ req[r] \in RequestState
      BY <1>4, AllCountedAlone, RequestFits
    <2>2. \/ /\ granted' = granted + 1
             /\ req' = [req EXCEPT ![r] = [req[r] EXCEPT !.pc = "generating", !.paid = TRUE,
                                                         !.counted = Position]]
          \/ /\ granted' = granted
             /\ \E answer \in {"429", "413"} :
                  req' = [req EXCEPT ![r] = [Answered(r, answer) EXCEPT !.counted = Position]]
      BY <1>4 DEF AllCounted, LimiterStep, Inv, RequestsTyped
    <2>3. CASE /\ granted' = granted + 1
               /\ req' = [req EXCEPT ![r] = [req[r] EXCEPT !.pc = "generating", !.paid = TRUE,
                                                           !.counted = Position]]
      <3> DEFINE nq == [req[r] EXCEPT !.pc = "generating", !.paid = TRUE, !.counted = Position]
      <3>1. nq.paid
        BY <2>1 DEF RequestState
      <3>2. req'[r].paid /\ \A s \in Request \ {r} : req'[s] = req[s]
        BY <2>3, <3>1 DEF Inv, RequestsTyped
      <3> QED
        BY <2>1, <2>3, <3>2 DEF UnitStep
    <2>4. ASSUME NEW answer \in Answer, granted' = granted,
                 req' = [req EXCEPT ![r] = [Answered(r, answer) EXCEPT !.counted = Position]]
          PROVE  UnitStep
      <3> DEFINE nq == [Answered(r, answer) EXCEPT !.counted = Position]
      <3>1. nq.paid = req[r].paid
        BY <1>1 DEF RequestState
      <3> QED
        BY <2>4, <3>1, UnitOf
    <2> QED
      BY <2>2, <2>3, <2>4 DEF Answer
  <1>5. ASSUME NEW r \in Request, NEW w \in Worker, CountFails(r, w) PROVE UnitStep
    <2>1. CASE req[r].failed
      BY <1>5, <2>1 DEF CountFails, UnitStep
    <2>2. CASE ~req[r].failed
      <3>1. PICK answer \in Answer, missing \in BOOLEAN :
              req' = [req EXCEPT ![r] = [Answered(r, answer) EXCEPT !.failed = TRUE,
                                                                    !.missing = missing]]
        BY <1>5, <2>2 DEF CountFails, FailureAnswer, Answer
      <3> DEFINE nq == [Answered(r, answer) EXCEPT !.failed = TRUE, !.missing = missing]
      <3>2. nq.paid = req[r].paid
        BY <1>1 DEF RequestState
      <3> QED
        BY <1>5, <3>1, <3>2, UnitOf DEF CountFails
    <2> QED
      BY <2>1, <2>2
  <1>6. ASSUME NEW r \in Request, GenerateAnswers(r) \/ GenerateFails(r) PROVE UnitStep
    <2>1. granted' = granted /\ req[r] \in RequestState
      BY <1>6, RequestFits DEF GenerateAnswers, GenerateFails
    <2>2. \/ req' = [req EXCEPT ![r] = [req[r] EXCEPT !.pc = "recording"]]
          \/ \E answer \in Answer : req' = [req EXCEPT ![r] = Answered(r, answer)]
          \/ \E answer \in Answer, missing \in BOOLEAN :
               req' = [req EXCEPT ![r] = [Answered(r, answer) EXCEPT !.missing = missing]]
      BY <1>6 DEF GenerateAnswers, GenerateFails, FailureAnswer, Answer, Inv, RequestsTyped
    <2>3. CASE req' = [req EXCEPT ![r] = [req[r] EXCEPT !.pc = "recording"]]
      BY <2>1, <2>3, UnitOf DEF RequestState
    <2>4. CASE \E answer \in Answer : req' = [req EXCEPT ![r] = Answered(r, answer)]
      BY <1>1, <2>1, <2>4, UnitOf
    <2>5. ASSUME NEW answer \in Answer, NEW missing \in BOOLEAN,
                 req' = [req EXCEPT ![r] = [Answered(r, answer) EXCEPT !.missing = missing]]
          PROVE  UnitStep
      <3> DEFINE nq == [Answered(r, answer) EXCEPT !.missing = missing]
      <3>1. nq.paid = req[r].paid
        BY <1>1 DEF RequestState
      <3> QED
        BY <2>1, <2>5, <3>1, UnitOf
    <2> QED
      BY <2>2, <2>3, <2>4, <2>5
  <1>7. ASSUME NEW r \in Request, Recorded(r) PROVE UnitStep
    BY <1>1, <1>7, UnitOf DEF Recorded, Answer
  <1>8. ASSUME NEW r \in Request,
               \/ StartCounting(r) \/ ClientGone(r)
               \/ \E w \in Worker : Counted(r, w) \/ CountWaits(r, w) \/ CountAgain(r, w)
               \/ GenerateWaits(r) \/ GenerateAgain(r)
        PROVE  UnitStep
    BY <1>8, Unanswered DEF UnitStep
  <1> QED
    BY <1>2, <1>3, <1>4, <1>5, <1>6, <1>7, <1>8 DEF Next, CountEnds, GenerateEnds

(* The units given out are the requests a paid call was begun for, however  *)
(* the requests interleave (tryConsume before the paid call, FR-66).       *)
THEOREM OneUnitPerPaidRequest == Spec => []UnitPerPaidRequest
  <1> DEFINE Paid == {r \in Request : req[r].paid}
  <1>1. Init => UnitPerPaidRequest
    <2> SUFFICES ASSUME Init PROVE UnitPerPaidRequest
      OBVIOUS
    <2>1. Paid = {}
      BY DEF Init
    <2> QED
      BY <2>1, FS_EmptySet DEF Init, UnitPerPaidRequest
  <1>2. Inv /\ UnitPerPaidRequest /\ [Next]_vars => UnitPerPaidRequest'
    <2> SUFFICES ASSUME Inv, UnitPerPaidRequest, [Next]_vars PROVE UnitPerPaidRequest'
      OBVIOUS
    <2>1. UnitStep
      BY NextUnits
    <2>2. IsFiniteSet(Paid) /\ granted = Cardinality(Paid)
      BY HandlerAssumption, FS_Subset DEF UnitPerPaidRequest
    <2>3. CASE granted' = granted /\ \A s \in Request : req'[s].paid = req[s].paid
      <3>1. Paid' = Paid
        BY <2>3
      <3> QED
        BY <2>2, <2>3, <3>1 DEF UnitPerPaidRequest
    <2>4. ASSUME NEW r \in Request, granted' = granted + 1, ~req[r].paid, req'[r].paid,
                 \A s \in Request \ {r} : req'[s] = req[s]
          PROVE  UnitPerPaidRequest'
      <3>1. Paid' = Paid \cup {r} /\ r \notin Paid
        BY <2>4
      <3>2. Cardinality(Paid \cup {r}) = Cardinality(Paid) + 1
        BY <2>2, <3>1, FS_AddElement
      <3> QED
        BY <2>2, <2>4, <3>1, <3>2 DEF UnitPerPaidRequest
    <2> QED
      BY <2>1, <2>3, <2>4 DEF UnitStep
  <1> QED
    BY SpecInv, <1>1, <1>2, PTL DEF Spec

-----------------------------------------------------------------------------
(* What the loops of a request may begin. *)

(* Nothing for a client that left, and no other turn after a failure. *)
LoopsStep ==
  \A r \in Request :
    /\ req[r].gone => ~Begins(call[r], call'[r])
    /\ \A w \in Worker :
         /\ req[r].gone => ~Begins(worker[r][w], worker'[r][w])
         /\ req[r].failed => worker'[r][w].turn \in {0, worker[r][w].turn}

(* Any step of a request whose client is there and of which no count failed. *)
LEMMA FreshMoved ==
  ASSUME Inv, NEW r \in Request, ~req[r].gone, ~req[r].failed,
         \A s \in Request \ {r} : worker'[s] = worker[s] /\ call'[s] = call[s]
  PROVE  LoopsStep
  BY DEF LoopsStep, Begins

(* A step of one worker. *)
LEMMA WorkerMoved ==
  ASSUME Inv, NEW r \in Request, NEW w \in Worker, NEW loop,
         worker' = [worker EXCEPT ![r][w] = loop], call' = call,
         req[r].gone => ~Begins(worker[r][w], loop),
         req[r].failed => loop.turn \in {0, worker[r][w].turn}
  PROVE  LoopsStep
  <1>1. \A s \in Request : \A v \in Worker :
          worker'[s][v] = IF s = r /\ v = w THEN loop ELSE worker[s][v]
    BY DEF Inv, RequestsTyped
  <1> QED
    BY <1>1 DEF LoopsStep, Begins

(* A step of one paid call. *)
LEMMA CallMoved ==
  ASSUME Inv, NEW r \in Request, NEW loop,
         call' = [call EXCEPT ![r] = loop], worker' = worker,
         req[r].gone => ~Begins(call[r], loop)
  PROVE  LoopsStep
  BY DEF LoopsStep, Begins, Inv, RequestsTyped

(* Every step begins only what it may. *)
LEMMA NextLoops == Inv /\ [Next]_vars => LoopsStep
  <1> SUFFICES ASSUME Inv, [Next]_vars PROVE LoopsStep
    OBVIOUS
  <1>1. CASE UNCHANGED <<worker, call>>
    BY <1>1 DEF LoopsStep, Begins
  <1>2. \A loop \in Loop : ~Begins(loop, Off) /\ ~Begins(loop, Waits(loop))
                           /\ Off.turn = 0 /\ Waits(loop).turn = loop.turn
    BY LoopActive DEF Begins, Off
  <1>3. ASSUME NEW r \in Request, StartCounting(r) PROVE LoopsStep
    <2>1. ~req[r].gone /\ ~req[r].failed
      BY <1>3, RequestFits DEF StartCounting, Fits, PlaceFits
    <2> QED
      BY <1>3, <2>1, FreshMoved DEF StartCounting, Inv, RequestsTyped
  <1>4. ASSUME NEW r \in Request, ClientGone(r) PROVE LoopsStep
    <2>1. ~req[r].gone /\ ~req[r].failed
      BY <1>4, RequestFits DEF ClientGone, Fits, PlaceFits
    <2> QED
      BY <1>4, <2>1, FreshMoved DEF ClientGone, Inv, RequestsTyped
  <1>5. ASSUME NEW r \in Request, NEW w \in Worker, AllCounted(r, w) PROVE LoopsStep
    <2>1. ~req[r].gone /\ ~req[r].failed
      BY <1>5, AllCountedAlone
    <2> QED
      BY <1>5, <2>1, FreshMoved DEF AllCounted, LimiterStep, Inv, RequestsTyped
  <1>6. ASSUME NEW r \in Request, NEW w \in Worker, Counted(r, w) PROVE LoopsStep
    <2> DEFINE more == ~req[r].failed /\ req[r].next <= Turns
               loop == IF more THEN Calling(req[r].next) ELSE Off
    <2>1. /\ ~req[r].gone /\ worker' = [worker EXCEPT ![r][w] = loop] /\ call' = call
      BY <1>6 DEF Counted, Resolves
    <2>2. req[r].failed => loop.turn \in {0, worker[r][w].turn}
      BY DEF Off
    <2> QED
      BY <2>1, <2>2, WorkerMoved
  <1>7. ASSUME NEW r \in Request, NEW w \in Worker, CountFails(r, w) PROVE LoopsStep
    <2>1. worker[r][w] \in Loop /\ worker' = [worker EXCEPT ![r][w] = Off] /\ call' = call
      BY <1>7, RequestFits DEF CountFails
    <2> QED
      BY <1>2, <2>1, WorkerMoved
  <1>8. ASSUME NEW r \in Request, NEW w \in Worker, CountWaits(r, w) PROVE LoopsStep
    <2>1. /\ worker[r][w] \in Loop /\ call' = call
          /\ worker' = [worker EXCEPT ![r][w] = Waits(worker[r][w])]
      BY <1>8, RequestFits DEF CountWaits
    <2> QED
      BY <1>2, <2>1, WorkerMoved
  <1>9. ASSUME NEW r \in Request, NEW w \in Worker, CountAgain(r, w) PROVE LoopsStep
    <2>1. /\ worker[r][w] \in Loop /\ call' = call
          /\ worker' = [worker EXCEPT ![r][w] = TriesAgain(worker[r][w])]
      BY <1>9, RequestFits DEF CountAgain
    <2>2. ~req[r].gone
      BY <1>9, RequestFits DEF CountAgain, Fits, LoopFits
    <2> QED
      BY <2>1, <2>2, LoopActive, WorkerMoved, ZenonT(60)
  <1>10. ASSUME NEW r \in Request, GenerateAnswers(r) \/ GenerateFails(r) PROVE LoopsStep
    <2>1. call[r] \in Loop /\ call' = [call EXCEPT ![r] = Off] /\ worker' = worker
      BY <1>10, RequestFits DEF GenerateAnswers, GenerateFails
    <2> QED
      BY <1>2, <2>1, CallMoved
  <1>11. ASSUME NEW r \in Request, GenerateWaits(r) PROVE LoopsStep
    <2>1. call[r] \in Loop /\ call' = [call EXCEPT ![r] = Waits(call[r])] /\ worker' = worker
      BY <1>11, RequestFits DEF GenerateWaits
    <2> QED
      BY <1>2, <2>1, CallMoved
  <1>12. ASSUME NEW r \in Request, GenerateAgain(r) PROVE LoopsStep
    <2>1. ~req[r].gone
      BY <1>12, RequestFits DEF GenerateAgain, Fits, LoopFits
    <2> QED
      BY <1>12, <2>1, CallMoved DEF GenerateAgain
  <1>13. ASSUME NEW r \in Request, Refuse(r) \/ Recorded(r) PROVE LoopsStep
    BY <1>13, <1>1 DEF Refuse, Recorded
  <1> QED
    BY <1>1, <1>3, <1>4, <1>5, <1>6, <1>7, <1>8, <1>9, <1>10, <1>11, <1>12, <1>13
      DEF Next, vars, CountEnds, GenerateEnds

(* No attempt begins for a client that left: every backoff ended with it    *)
(* and an aborted call does not resolve (abortableDelay, FR-21).            *)
THEOREM QuietOnceClosed == Spec => QuietAfterClose
  <1>1. LoopsStep => \A r \in Request : req[r].gone =>
          /\ ~Begins(call[r], call'[r])
          /\ \A w \in Worker : ~Begins(worker[r][w], worker'[r][w])
    BY DEF LoopsStep
  <1> QED
    BY SpecInv, NextLoops, <1>1, PTL DEF Spec, QuietAfterClose

(* After a count failed for good the workers left only finish their turn    *)
(* (`failed` in countAll).                                                 *)
THEOREM NoTurnOnceFailed == Spec => NoTurnAfterFailure
  <1>1. LoopsStep => \A r \in Request, w \in Worker : req[r].failed =>
          worker'[r][w].turn \in {0, worker[r][w].turn}
    BY DEF LoopsStep
  <1> QED
    BY SpecInv, NextLoops, <1>1, PTL DEF Spec, NoTurnAfterFailure
=============================================================================

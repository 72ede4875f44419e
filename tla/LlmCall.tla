------------------------------- MODULE LlmCall -------------------------------
(***************************************************************************)
(* One call of a text model, from the browser to the provider.  The client   *)
(* (llm.service.ts) posts and repeats a post nobody answered (http-retry.ts);*)
(* the server (index.js) asks the provider, which retries by the class of    *)
(* the failure (utils/retry.js) and may end with another model (gemini.js,   *)
(* anthropic.js).  The server is not told that a connection dropped: a       *)
(* repeated post runs beside the one it replaces.                            *)
(***************************************************************************)
EXTENDS Naturals, FiniteSets

CONSTANTS
  ClientAttempts,    \* maxAttempts of retryTransport
  MaxRetries,        \* maxRetries of withRetry: all but the policy class
  MaxPolicyRetries,  \* maxPolicyRetries of withRetry
  AltRetries,        \* both budgets of the call of the other model
  HasFallback        \* whether the configured model is not the other one

ASSUME CallAssumption ==
  /\ {ClientAttempts, MaxRetries, MaxPolicyRetries, AltRetries} \subseteq Nat \ {0}
  /\ HasFallback \in BOOLEAN

VARIABLES
  client,  \* what the browser does: wait for a reply, back off, or be done
  posts,   \* posts made
  req,     \* the request of each post, at the server
  heard    \* history: the posts whose reply reached the browser

callVars == <<client, posts, req, heard>>

(* What can go wrong with one call of the provider; see withRetry. *)
Failure == {"policy", "transport", "incomplete", "deterministic"}

Idle == [at |-> "none", model |-> "primary", attempt |-> 0, last |-> "none", calls |-> 0,
         hung |-> 0]

Post == 1..ClientAttempts
Budget(r, failure) ==
  IF r.model = "alt" THEN AltRetries
  ELSE IF failure = "policy" THEN MaxPolicyRetries ELSE MaxRetries

(* Mutant of GoesOn: the budget counts the repetitions. *)
GoesOnOnce(r, failure) == failure # "deterministic" /\ r.attempt <= Budget(r, failure)

GoesOn(r, failure) == failure # "deterministic" /\ r.attempt < Budget(r, failure)

Falls(r, failure) ==
  /\ HasFallback /\ r.model = "primary" /\ ~GoesOn(r, failure)
  /\ failure \in {"policy", "incomplete"}

Asking(r) == [r EXCEPT !.at = "calling", !.attempt = @ + 1, !.calls = @ + 1]
AskingOther(r) == [r EXCEPT !.at = "calling", !.model = "alt", !.attempt = 1, !.calls = @ + 1]

Failed(r, failure) ==
  LET noted == [r EXCEPT !.last = failure,
                         !.hung = IF failure = "transport" THEN @ + 1 ELSE @]
  IN  IF GoesOn(r, failure) THEN [noted EXCEPT !.at = "backoff"]
      ELSE IF Falls(r, failure) THEN AskingOther(noted)
      ELSE [noted EXCEPT !.at = "error"]

Working(r) == r.at \in {"calling", "backoff"}
-----------------------------------------------------------------------------
CallInit ==
  /\ client = "waiting" /\ posts = 1 /\ heard = {}
  /\ req = [i \in Post |-> IF i = 1 THEN [Idle EXCEPT !.at = "sent"] ELSE Idle]

(* The route resolves provider and model and calls generate(). *)
Arrives(i) ==
  /\ req[i].at = "sent"
  /\ req' = [req EXCEPT ![i] = Asking(@)]
  /\ UNCHANGED <<client, posts, heard>>

(* No route is reached, or the request names no known provider. *)
Rejected(i) ==
  /\ req[i].at = "sent"
  /\ req' = [req EXCEPT ![i].at = "error"]
  /\ UNCHANGED <<client, posts, heard>>

(* An answer is a result only when it is whole: a cut JSON body fails. *)
ProviderAnswers(i) ==
  /\ req[i].at = "calling"
  /\ req' = [req EXCEPT ![i].at = "result"]
  /\ UNCHANGED <<client, posts, heard>>

ProviderFails(i) ==
  /\ req[i].at = "calling"
  /\ \E failure \in Failure : req' = [req EXCEPT ![i] = Failed(@, failure)]
  /\ UNCHANGED <<client, posts, heard>>

BackoffEnds(i) ==
  /\ req[i].at = "backoff"
  /\ req' = [req EXCEPT ![i] = Asking(@)]
  /\ UNCHANGED <<client, posts, heard>>

(* The reply carries the result or the server's own error envelope. *)
Replied ==
  /\ client = "waiting" /\ req[posts].at \in {"result", "error"}
  /\ client' = IF req[posts].at = "result" THEN "answered" ELSE "failed"
  /\ heard' = heard \union {posts}
  /\ UNCHANGED <<posts, req>>

(* isUpstreamTransportFailure: something in front of the server answers, or *)
(* nothing does.  The request may be lost, or go on unheard.                *)
Unheard == client' = IF posts < ClientAttempts THEN "backoff" ELSE "failed"

ConnectionDrops ==
  /\ client = "waiting" /\ Unheard
  /\ req' = IF req[posts].at = "sent" THEN [req EXCEPT ![posts].at = "gone"] ELSE req
  /\ UNCHANGED <<posts, heard>>

(* The process ends and another takes its place: nothing it did goes on. *)
ServerRestarts ==
  /\ \E i \in Post : Working(req[i])
  /\ req' = [i \in Post |-> IF req[i].at = "none" THEN req[i] ELSE [req[i] EXCEPT !.at = "gone"]]
  /\ IF client = "waiting" THEN Unheard ELSE UNCHANGED client
  /\ UNCHANGED <<posts, heard>>

PostsAgain ==
  /\ client = "backoff"
  /\ client' = "waiting" /\ posts' = posts + 1
  /\ req' = [req EXCEPT ![posts + 1].at = "sent"]
  /\ UNCHANGED heard

Serves(i) ==
  \/ Arrives(i) \/ Rejected(i) \/ ProviderAnswers(i) \/ ProviderFails(i) \/ BackoffEnds(i)

CallNext ==
  \/ \E i \in Post : Serves(i)
  \/ Replied \/ ConnectionDrops \/ ServerRestarts \/ PostsAgain

CallSpec == CallInit /\ [][CallNext]_callVars
-----------------------------------------------------------------------------
(* What one call may cost, whatever the order of the failures' classes: a    *)
(* post that was answered is the last one; each post asks the configured     *)
(* model within the wide budget, and within the small one when it died of a  *)
(* dead connection (withRetry: "a hung connection still fails in the same    *)
(* bounded time it always has"); the other model comes only after a budget   *)
(* was spent.                                                                *)
CostIsBounded ==
  /\ \A i \in heard : i = posts /\ client \in {"answered", "failed"}
  /\ \A i \in 1..posts :
       LET first == IF req[i].model = "alt" THEN req[i].calls - req[i].attempt ELSE req[i].calls
       IN  /\ first <= MaxPolicyRetries
           /\ req[i].model = "alt" => MaxRetries <= first /\ req[i].attempt <= AltRetries
           /\ req[i].model = "primary" => req[i].hung <= MaxRetries

(* timeouts.js: a wedged call hangs for "3 withRetry attempts".  Two calls of *)
(* the configured model and two of the other one can hang.                   *)
HangsAreBounded == \A i \in 1..posts : req[i].hung <= MaxRetries
=============================================================================

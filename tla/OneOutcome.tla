------------------------------ MODULE OneOutcome ------------------------------
(***************************************************************************)
(* What run() of the generation runner promises its caller, with the work  *)
(* in between left out: a user action is opened once and ends once, with   *)
(* one outcome of a closed set, and the live region says T-16 while it is  *)
(* open, T-17 after images and nothing after any other end.                *)
(***************************************************************************)
EXTENDS Naturals

CONSTANTS MaxRuns       \* user actions, one after the other

VARIABLES
  outcome,   \* what each user action ended with
  said       \* the text in the live region and the action it is about

vars == <<outcome, said>>

Run == 1 .. MaxRuns
Failure == {"missing", "lost", "timeout", "refused"}
Outcome == {"images", "reply", "discarded", "cancelled", "blocked"} \cup Failure

Started(r) == outcome[r] # "none"
Open(r) == outcome[r] = "open"

Init ==
  /\ outcome = [r \in Run |-> "none"]
  /\ said = [text |-> "", run |-> 0]

Begin(r) ==
  /\ ~Started(r)
  /\ \A q \in Run : q < r => Started(q) /\ ~Open(q)
  /\ outcome' = [outcome EXCEPT ![r] = "open"]
  /\ said' = [text |-> "T-16", run |-> r]

End(r) ==
  /\ Open(r)
  /\ \E o \in Outcome :
       /\ outcome' = [outcome EXCEPT ![r] = o]
       /\ said' = [text |-> IF o = "images" THEN "T-17" ELSE "", run |-> r]

Next == \E r \in Run : Begin(r) \/ End(r)

Spec == Init /\ [][Next]_vars
===============================================================================

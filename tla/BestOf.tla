-------------------------------- MODULE BestOf --------------------------------
(***************************************************************************)
(* What the repair gate promises about the generations it pays for, with   *)
(* the repairs left out: of all candidates offered, one after the other,    *)
(* the first of those with the fewest errors is kept, and what is done to   *)
(* the kept one afterwards never adds an error.                            *)
(***************************************************************************)
EXTENDS Naturals

CONSTANTS
  MaxErrors,    \* errors a candidate can have
  MaxRepairs    \* candidates after the first one

VARIABLES
  offered,      \* candidates offered so far
  kept          \* the errors of the one that is kept, and when it was offered

vars == <<offered, kept>>

Init == offered = 0 /\ kept = [errors |-> 0, attempt |-> 0]

Offer ==
  /\ offered <= MaxRepairs
  /\ offered' = offered + 1
  /\ \E e \in 0 .. MaxErrors :
       kept' = IF offered = 0 \/ e < kept.errors
               THEN [errors |-> e, attempt |-> offered] ELSE kept

(* The kept candidate is touched up; it may lose errors, never gain one. *)
Polish ==
  /\ offered > 0
  /\ \E e \in 0 .. kept.errors : kept' = [kept EXCEPT !.errors = e]
  /\ UNCHANGED offered

Next == Offer \/ Polish

Spec == Init /\ [][Next]_vars
=============================================================================

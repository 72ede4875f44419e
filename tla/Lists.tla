------------------------------- MODULE Lists -------------------------------
(***************************************************************************)
(* Array.filter, written so that it can be proved about: by the places that  *)
(* stay, and not by a recursion over the list.                               *)
(***************************************************************************)
EXTENDS Naturals, Sequences, FiniteSets

(* The entries at these places of the list, in its order.                    *)
Filtered(list, places) ==
  LET nth(n) == CHOOSE k \in places : Cardinality({j \in places : j <= k}) = n
  IN  [n \in 1 .. Cardinality(places) |-> list[nth(n)]]
=============================================================================

------------------------------- MODULE Nothing -------------------------------
(* The value of a field that is left out and of a lookup that finds nothing: *)
(* Python's None, and where a function raises, its answer too.               *)
EXTENDS Naturals

CONSTANT None

ASSUME NoneAssumption == None \notin STRING /\ None \notin BOOLEAN /\ None \notin Nat
==============================================================================

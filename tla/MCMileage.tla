----------------------------- MODULE MCMileage -----------------------------
(* Instances of Mileage for TLC: visitors are interchangeable, and so are   *)
(* records.                                                                 *)
EXTENDS Mileage, TLC

Symmetry == Permutations(Visitors) \cup Permutations(Records)
=============================================================================

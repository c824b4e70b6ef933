---------------------------- MODULE MCRecallCheck ----------------------------
(* Instances of RecallCheck for TLC: checkers are interchangeable, and so   *)
(* are campaigns.                                                           *)
EXTENDS RecallCheck, TLC

CheckerSymmetry == Permutations(Checkers)
Symmetry        == CheckerSymmetry \cup Permutations(Campaigns)
=============================================================================

------------------------------ MODULE MCLimits ------------------------------
(* Limits for TLC.                                                         *)
EXTENDS Limits, TLC

Symmetry == Permutations(Operators)
=============================================================================

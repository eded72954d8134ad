----------------------------- MODULE MCEventLog -----------------------------
(* EventLog for TLC.                                                       *)
EXTENDS EventLog, TLC

Symmetry == Permutations(Operators)
=============================================================================

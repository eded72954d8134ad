---------------------------- MODULE MCAddresses ----------------------------
(* Addresses for TLC, with the mishaps alone and together.                 *)
EXTENDS Addresses, TLC

MCMixes == { {}, {"asked too soon"}, Mishaps }

MCSymmetry == Permutations(Users) \union Permutations(Outputs) \union Permutations(Operators)
=============================================================================

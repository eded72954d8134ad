------------------------------ MODULE MCLedger ------------------------------
(* Ledger for TLC.                                                         *)
EXTENDS Ledger, TLC

Symmetry == Permutations(UserTxs) \union Permutations(ExchangeTxs)
              \union Permutations(OrderIds) \union Permutations(RequestIds)

OneEvent == { {"reorg"}, {"switch"}, {"altered"} }

Quiet == { {} }
=============================================================================

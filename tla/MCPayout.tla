------------------------------ MODULE MCPayout ------------------------------
(* Payout for TLC.                                                         *)
EXTENDS Payout

(* Nothing goes wrong; the hot wallet's own faults; the adapter's; all.    *)
EachSideAndAll == { {}, {"crash", "store"}, {"reply", "late"}, FaultKinds }
=============================================================================

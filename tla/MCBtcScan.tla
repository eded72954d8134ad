----------------------------- MODULE MCBtcScan -----------------------------
(* BtcScan for TLC, with the faults that each property allows.             *)
EXTENDS BtcScan

MCScenarios ==
    { {"reorg"}, {"reorg", "double spend"},
      {"reorg", "adapter stops"},
      {"double spend", "adapter stops", "hot wallet stops"} }
=============================================================================

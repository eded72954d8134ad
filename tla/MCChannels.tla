----------------------------- MODULE MCChannels -----------------------------
(* Channels for TLC: small capacities stand for 1000.                      *)
EXTENDS Channels
=============================================================================

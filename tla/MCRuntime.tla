----------------------------- MODULE MCRuntime -----------------------------
(* Runtime for TLC.                                                        *)
EXTENDS Runtime
=============================================================================

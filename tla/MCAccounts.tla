----------------------------- MODULE MCAccounts -----------------------------
(* Accounts for TLC.                                                       *)
EXTENDS Accounts

CONSTANTS alice, bob, i1, i2

OwnInvite == [n \in {alice, bob} |-> IF n = alice THEN i1 ELSE i2]

With(disturbances, who, n) == [ mix |-> disturbances, names |-> who, requests |-> n ]

Looks == { With({"share", "adapter", "store"}, {alice, bob}, 4),
           With({}, {alice, bob}, 4),
           With({"toggle", "adapter", "store", "refresh"}, {alice}, 3),
           With({"toggle", "adapter"}, {alice}, 4),
           With({"toggle", "refresh"}, {alice}, 3),
           With({"refresh"}, {alice, bob}, 2),
           With({"refresh", "explorer"}, {alice, bob}, 2),
           With({"pay"}, {alice}, 1) }
=============================================================================

--------------------------- MODULE PayoutPromise ----------------------------
(***************************************************************************)
(* What the hot wallet promises about a withdrawal that needs the          *)
(* operators: it is decided once, paid at most once, never paid before it  *)
(* is approved, and closed at most once.  Queues, tasks, adapters and      *)
(* crashes do not appear here; Payout implements this.                     *)
(***************************************************************************)
EXTENDS Naturals

CONSTANT RequestIds

VARIABLES stage,   \* how far the request has come
          paid     \* how often it has been paid

Stages == {"none", "open", "approved", "refused", "closed"}

Init ==
    /\ stage = [id \in RequestIds |-> "none"]
    /\ paid = [id \in RequestIds |-> 0]

Move(id, from, to) ==
    /\ stage[id] = from
    /\ stage' = [stage EXCEPT ![id] = to]
    /\ UNCHANGED paid

Open(id)    == Move(id, "none", "open")
Approve(id) == Move(id, "open", "approved")
Refuse(id)  == Move(id, "open", "refused")
Close(id)   == Move(id, "approved", "closed")

(* A payment can still be made after the wallet has given up on it.        *)
Pay(id) ==
    /\ stage[id] \in {"approved", "closed"}
    /\ paid[id] = 0
    /\ paid' = [paid EXCEPT ![id] = 1]
    /\ UNCHANGED stage

Next == \E id \in RequestIds :
            Open(id) \/ Approve(id) \/ Refuse(id) \/ Close(id) \/ Pay(id)

Spec == Init /\ [][Next]_<<stage, paid>>
=============================================================================

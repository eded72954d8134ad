----------------------------- MODULE Withdrawal -----------------------------
(***************************************************************************)
(* Withdrawal requests as hexstody-db's State keeps them, and the vote of  *)
(* the operators on them.  All updates of State are applied one after the  *)
(* other by update_worker, so one handler of apply_update is one action;   *)
(* an update that ends in a StateUpdateErr leaves the state as it was and  *)
(* is therefore a guard here.                                              *)
(*                                                                         *)
(* The lists of decisions of a request are sets of operators: a handler    *)
(* pushes a key only after it has found the list not to hold it.           *)
(***************************************************************************)
EXTENDS Integers, FiniteSets

CONSTANTS RequestIds,   \* withdrawal request ids (fresh UUIDs, never reused)
          Operators,    \* operator public keys given to the hot wallet
          Kinds,        \* request types users file, see RequestKinds
          Currencies,   \* currencies users withdraw, see AllCurrencies
          NoRequest     \* marks an id nobody has used yet

VARIABLE requests       \* withdrawal_requests of all users and currencies

-----------------------------------------------------------------------------
REQUIRED_NUMBER_OF_CONFIRMATIONS == 2

RequestKinds == {"UnderLimit", "OverLimit"}

AllCurrencies == {"BTC", "ETH"}

WithdrawalRequestStatus ==
    {"InProgress", "Confirmed", "Completed", "OpRejected", "NodeRejected"}

ASSUME WithdrawalConstants ==
    /\ IsFiniteSet(Operators)
    /\ Kinds \subseteq RequestKinds
    /\ Currencies \subseteq AllCurrencies

(* n is the number carried by InProgress(n); other statuses carry none.    *)
WithdrawalRequest ==
    [ kind          : Kinds,
      currency      : Currencies,
      status        : WithdrawalRequestStatus,
      n             : Int,
      confirmations : SUBSET Operators,
      rejections    : SUBSET Operators ]

(* An id that nobody has used has no request: Option::None.                *)
ASSUME NoRequestIsNone == NoRequest \notin WithdrawalRequest

Known == { id \in RequestIds : requests[id] # NoRequest }

Fresh(kind, currency) ==
    [ kind |-> kind, currency |-> currency, status |-> "InProgress", n |-> 0,
      confirmations |-> {}, rejections |-> {} ]

-----------------------------------------------------------------------------
(* Mutant: changing sides counts as a fresh vote.                          *)
ConfirmWeightAlwaysOne(r, op) == 1

(* A vote weighs 2 when the operator changes sides: the earlier vote is    *)
(* withdrawn and the new one counted.                                      *)
ConfirmWeight(r, op) == IF op \in r.rejections THEN 2 ELSE 1
RejectWeight(r, op)  == IF op \in r.confirmations THEN 2 ELSE 1

(* Mutant: one confirmation too many is asked for.                         *)
ConfirmsOneLate(r, op) == r.n = REQUIRED_NUMBER_OF_CONFIRMATIONS

(* The vote that settles the request.                                      *)
Confirms(r, op) == r.n = REQUIRED_NUMBER_OF_CONFIRMATIONS - ConfirmWeight(r, op)
Rejects(r, op)  == r.n = RejectWeight(r, op) - REQUIRED_NUMBER_OF_CONFIRMATIONS

(* Mutant: the operator's earlier rejection stays in the list.             *)
WithConfirmationKeepingRejection(r, op) ==
    [ r EXCEPT !.confirmations = @ \union {op},
               !.status        = IF Confirms(r, op) THEN "Confirmed" ELSE @,
               !.n             = IF Confirms(r, op) THEN 0
                                 ELSE @ + ConfirmWeight(r, op) ]

WithConfirmation(r, op) ==
    [ r EXCEPT !.confirmations = @ \union {op},
               !.rejections    = @ \ {op},
               !.status        = IF Confirms(r, op) THEN "Confirmed" ELSE @,
               !.n             = IF Confirms(r, op) THEN 0
                                 ELSE @ + ConfirmWeight(r, op) ]

WithRejection(r, op) ==
    [ r EXCEPT !.rejections    = @ \union {op},
               !.confirmations = @ \ {op},
               !.status        = IF Rejects(r, op) THEN "OpRejected" ELSE @,
               !.n             = IF Rejects(r, op) THEN 0
                                 ELSE @ - RejectWeight(r, op) ]

(* Mutant: the status is not looked at.                                    *)
CanRejectAnyStatus(r, op) == op \notin r.rejections

CanConfirm(r, op) == r.status = "InProgress" /\ op \notin r.confirmations
CanReject(r, op)  == r.status = "InProgress" /\ op \notin r.rejections

-----------------------------------------------------------------------------
Init == requests = [id \in RequestIds |-> NoRequest]

(* A user files a request: only BTC withdrawals can be under the limit.    *)
Create(id, kind, currency) ==
    /\ id \notin Known
    /\ kind = "UnderLimit" => currency = "BTC"
    /\ requests' = [requests EXCEPT ![id] = Fresh(kind, currency)]

Confirm(op, id) ==
    /\ id \in Known
    /\ CanConfirm(requests[id], op)
    /\ requests' = [requests EXCEPT ![id] = WithConfirmation(@, op)]

Reject(op, id) ==
    /\ id \in Known
    /\ CanReject(requests[id], op)
    /\ requests' = [requests EXCEPT ![id] = WithRejection(@, op)]

(* set_withdrawal_request_completed and _node_rejected overwrite whatever  *)
(* status the request has.                                                 *)
SetStatus(id, status) ==
    requests' = IF id \in Known
                THEN [requests EXCEPT ![id] = [@ EXCEPT !.status = status, !.n = 0]]
                ELSE requests

Next ==
    \E id \in RequestIds :
        \/ \E kind \in Kinds, currency \in Currencies : Create(id, kind, currency)
        \/ \E op \in Operators : Confirm(op, id) \/ Reject(op, id)

Spec == Init /\ [][Next]_requests

-----------------------------------------------------------------------------
Net(r) == Cardinality(r.confirmations) - Cardinality(r.rejections)

TypeOK == requests \in [RequestIds -> WithdrawalRequest \union {NoRequest}]

(* "Number of confirmations minus number of rejections received": the      *)
(* running number that with_withdrawal_request_decision keeps in           *)
(* InProgress(n) is the difference of the two lists of decisions, whatever *)
(* the order in which operators vote and change sides, and no operator is  *)
(* in both lists.                                                          *)
TallyIsNetVote ==
    \A id \in Known :
        LET r == requests[id] IN
        /\ r.confirmations \intersect r.rejections = {}
        /\ r.status = "InProgress" => r.n = Net(r)

(* A request is Confirmed (or OpRejected) only on a majority of exactly    *)
(* two: at least two distinct operators stand behind the decision when     *)
(* with_withdrawal_request_decision takes it.                              *)
DecidedByQuorum ==
    \A id \in Known :
        LET r == requests[id] IN
        /\ r.status = "Confirmed"  => /\ Net(r) = REQUIRED_NUMBER_OF_CONFIRMATIONS
                                      /\ Cardinality(r.confirmations) >= 2
        /\ r.status = "OpRejected" => /\ Net(r) = -REQUIRED_NUMBER_OF_CONFIRMATIONS
                                      /\ Cardinality(r.rejections) >= 2

(* A request that has the required net number of votes is decided, as long *)
(* as at most two operators have voted on it.  With three, one who changes *)
(* sides can carry the tally past the equality tests of                    *)
(* with_withdrawal_request_decision, from 1 to 3, and nobody decides then. *)
DecidedAtThreshold ==
    \A id \in Known :
        LET r == requests[id] IN
        /\ r.status = "InProgress"
        /\ Cardinality(r.confirmations \union r.rejections) <= 2
        =>  /\ Net(r) < REQUIRED_NUMBER_OF_CONFIRMATIONS
            /\ Net(r) > -REQUIRED_NUMBER_OF_CONFIRMATIONS

=============================================================================

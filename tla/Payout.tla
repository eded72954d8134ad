------------------------------- MODULE Payout -------------------------------
(***************************************************************************)
(* The way of a withdrawal from the operators' decision to the node and    *)
(* back, through three tasks of the hot wallet and two other programs:     *)
(*                                                                         *)
(*   update_worker  applies an update, stores it, and queues the result    *)
(*                  of an approved withdrawal (hexstody-db);               *)
(*   update_results_worker  takes one result at a time, has the adapter    *)
(*                  pay it and queues the outcome as a new update          *)
(*                  (hexstody-hot);                                        *)
(*   the adapter    hexstody-btc or hexstody-eth, has the node broadcast   *)
(*                  the transaction.                                       *)
(*                                                                         *)
(* The updates and results queues live in memory.  Only the stored updates *)
(* survive a crash, from which State is rebuilt: an update is stored       *)
(* before it is visible, so the requests are exactly the stored ones.      *)
(* A crash between storing an update and queueing its result is Crash      *)
(* right after the action.                                                 *)
(***************************************************************************)
EXTENDS Withdrawal, Sequences

CONSTANTS Scenarios,   \* sets of faults to look at, see FaultKinds
          Idle         \* the results worker is waiting for a result

VARIABLES faults,      \* what may go wrong in this behaviour
          updates,     \* settlement updates queued for update_worker
          results,     \* UpdateResults queued for update_results_worker
          payer,       \* the withdrawal update_results_worker is paying
          posted,      \* withdrawals the adapter has and did not answer
          accepted,    \* answered with success
          refused,     \* answered with an error
          broadcasts   \* transactions the node has sent for each request

pipeline == <<updates, results, payer, posted, accepted, refused, broadcasts>>
state == <<requests, pipeline>>
vars == <<state, faults>>

-----------------------------------------------------------------------------
(* crash : the hot wallet stops and is started again                       *)
(* store : Postgres refuses an update, which update_worker drops           *)
(* reply : the connection to the adapter breaks before the answer          *)
(* late  : the adapter fails after the node took the transaction           *)
(* reorg : the node takes back the transaction of a completed withdrawal   *)
(*         that pays a deposit address of the wallet                       *)
FaultKinds == {"crash", "store", "reply", "late", "reorg"}

ASSUME PayoutConstants == Scenarios \subseteq SUBSET FaultKinds

Results == [ result : {"WithdrawConfirmed", "WithdrawalUnderlimit"}, id : RequestIds ]

Settlements == [ status : {"Completed", "NodeRejected"}, id : RequestIds ]

(* What is posted to the adapter: the result and the number of             *)
(* confirmations over rejections among the signatures that go with it.     *)
ConfirmedWithdrawal ==
    [ result : {"WithdrawConfirmed", "WithdrawalUnderlimit"}, id : RequestIds, net : Int ]

ASSUME IdleIsNoWithdrawal == Idle \notin ConfirmedWithdrawal

WithdrawConfirmed(id)    == [ result |-> "WithdrawConfirmed", id |-> id ]
WithdrawalUnderlimit(id) == [ result |-> "WithdrawalUnderlimit", id |-> id ]

ToPay(res) ==
    [ result |-> res.result, id |-> res.id,
      net |-> IF res.result = "WithdrawConfirmed" THEN Net(requests[res.id]) ELSE 0 ]

(* withdraw_btc counts the signatures again; withdraw_btc_under_limit and  *)
(* the ETH adapter take the request as it comes.                           *)
AdapterAgrees(cw) ==
    \/ cw.result = "WithdrawalUnderlimit"
    \/ requests[cw.id].currency = "ETH"
    \/ cw.net >= REQUIRED_NUMBER_OF_CONFIRMATIONS

-----------------------------------------------------------------------------
PayoutInit ==
    /\ Init
    /\ faults \in Scenarios
    /\ updates = <<>>
    /\ results = <<>>
    /\ payer = Idle
    /\ posted = {} /\ accepted = {} /\ refused = {}
    /\ broadcasts = [id \in RequestIds |-> 0]

(* update_worker applies CreateWithdrawalRequest.                          *)
PostWithdraw(id, kind, currency) ==
    /\ Create(id, kind, currency)
    /\ results' = IF kind = "UnderLimit"
                  THEN Append(results, WithdrawalUnderlimit(id)) ELSE results
    /\ UNCHANGED <<updates, payer, posted, accepted, refused, broadcasts>>

(* update_worker applies WithdrawalRequestDecision.                        *)
ConfirmDecision(op, id) ==
    /\ Confirm(op, id)
    /\ results' = IF Confirms(requests[id], op)
                  THEN Append(results, WithdrawConfirmed(id)) ELSE results
    /\ UNCHANGED <<updates, payer, posted, accepted, refused, broadcasts>>

RejectDecision(op, id) == Reject(op, id) /\ UNCHANGED pipeline

(* update_worker applies WithdrawalRequestComplete or ...NodeRejected, or  *)
(* fails to store it and drops it.                                         *)
ApplySettlement ==
    /\ updates # <<>>
    /\ updates' = Tail(updates)
    /\ SetStatus(Head(updates).id, Head(updates).status)
    /\ UNCHANGED <<results, payer, posted, accepted, refused, broadcasts>>

StoreFails ==
    /\ "store" \in faults
    /\ updates # <<>>
    /\ updates' = Tail(updates)
    /\ UNCHANGED <<requests, results, payer, posted, accepted, refused, broadcasts>>

(* update_results_worker takes a result and calls the adapter.             *)
TakeResult ==
    /\ payer = Idle
    /\ results # <<>>
    /\ results' = Tail(results)
    /\ payer' = ToPay(Head(results))
    /\ posted' = posted \union {ToPay(Head(results))}
    /\ UNCHANGED <<requests, updates, accepted, refused, broadcasts>>

(* The adapter has the node send the transaction.  What it does after      *)
(* that (get_transaction, decoding) can still fail.                        *)
AdapterPays(cw) ==
    /\ cw \in posted
    /\ AdapterAgrees(cw)
    /\ broadcasts' = [broadcasts EXCEPT ![cw.id] = @ + 1]
    /\ posted' = posted \ {cw}
    /\ \/ accepted' = accepted \union {cw} /\ refused' = refused
       \/ "late" \in faults /\ refused' = refused \union {cw} /\ accepted' = accepted
    /\ UNCHANGED <<requests, updates, results, payer>>

(* Mutant: the adapter answers with an error and tries again later.        *)
AdapterRefusesAndRetries(cw) ==
    /\ cw \in posted
    /\ refused' = refused \union {cw}
    /\ UNCHANGED <<requests, updates, results, payer, posted, accepted, broadcasts>>

AdapterRefuses(cw) ==
    /\ cw \in posted
    /\ posted' = posted \ {cw}
    /\ refused' = refused \union {cw}
    /\ UNCHANGED <<requests, updates, results, payer, accepted, broadcasts>>

(* Mutant: a BTC payment is only logged, as an ETH payment is.             *)
ReportSuccessOnlyLogs ==
    /\ payer # Idle
    /\ payer \in accepted
    /\ accepted' = accepted \ {payer}
    /\ payer' = Idle
    /\ UNCHANGED <<requests, updates, results, posted, refused, broadcasts>>

(* update_results_worker gets an answer.  A successful ETH payment is only *)
(* logged, no update is sent.                                              *)
ReportSuccess ==
    /\ payer # Idle
    /\ payer \in accepted
    /\ updates' = IF requests[payer.id].currency = "BTC"
                  THEN Append(updates, [ status |-> "Completed", id |-> payer.id ])
                  ELSE updates
    /\ accepted' = accepted \ {payer}
    /\ payer' = Idle
    /\ UNCHANGED <<requests, results, posted, refused, broadcasts>>

(* Mutant: a failed payment is only logged.                                *)
ReportFailureOnlyLogs ==
    /\ payer # Idle
    /\ payer \in refused
    /\ refused' = refused \ {payer}
    /\ payer' = Idle
    /\ UNCHANGED <<requests, updates, results, posted, accepted, broadcasts>>

ReportFailure ==
    /\ payer # Idle
    /\ payer \in refused \/ "reply" \in faults
    /\ updates' = Append(updates, [ status |-> "NodeRejected", id |-> payer.id ])
    /\ refused' = refused \ {payer}
    /\ payer' = Idle
    /\ UNCHANGED <<requests, results, posted, accepted, broadcasts>>

(* with_btc_tx_cancel finds a completed withdrawal by its txid.            *)
CancelWithdrawalTx(id) ==
    /\ "reorg" \in faults
    /\ id \in Known
    /\ requests[id].currency = "BTC"
    /\ requests[id].status = "Completed"
    /\ SetStatus(id, "NodeRejected")
    /\ UNCHANGED pipeline

(* Mutant: the payment that was under way is tried again after a restart.  *)
CrashRequeues ==
    /\ "crash" \in faults
    /\ updates' = <<>>
    /\ results' = IF payer = Idle THEN <<>>
                  ELSE << [ result |-> payer.result, id |-> payer.id ] >>
    /\ payer' = Idle
    /\ UNCHANGED <<requests, posted, accepted, refused, broadcasts>>

(* The adapter runs on and may still pay what was posted to it.            *)
Crash ==
    /\ "crash" \in faults
    /\ updates' = <<>>
    /\ results' = <<>>
    /\ payer' = Idle
    /\ UNCHANGED <<requests, posted, accepted, refused, broadcasts>>

-----------------------------------------------------------------------------
Adapter == \E cw \in posted : AdapterPays(cw) \/ AdapterRefuses(cw)

ResultsWorker == TakeResult \/ ReportSuccess \/ ReportFailure

PayoutNext ==
    /\ UNCHANGED faults
    /\ \/ \E id \in RequestIds :
             \/ \E kind \in Kinds, currency \in Currencies :
                   PostWithdraw(id, kind, currency)
             \/ \E op \in Operators : ConfirmDecision(op, id) \/ RejectDecision(op, id)
             \/ CancelWithdrawalTx(id)
       \/ ApplySettlement
       \/ StoreFails
       \/ ResultsWorker
       \/ Adapter
       \/ Crash

PayoutSpec == PayoutInit /\ [][PayoutNext]_vars

(* The tasks of the hot wallet are loops that tokio keeps polling, and an  *)
(* HTTP call to an adapter that runs is answered.  Users and operators     *)
(* owe nothing.                                                            *)
FairPayoutSpec ==
    /\ PayoutSpec
    /\ WF_state(ApplySettlement)
    /\ WF_state(ResultsWorker)
    /\ WF_state(Adapter)

-----------------------------------------------------------------------------
PayoutTypeOK ==
    /\ TypeOK
    /\ faults \in Scenarios
    /\ updates \in Seq(Settlements)
    /\ results \in Seq(Results)
    /\ payer \in ConfirmedWithdrawal \union {Idle}
    /\ posted \subseteq ConfirmedWithdrawal
    /\ accepted \subseteq ConfirmedWithdrawal
    /\ refused \subseteq ConfirmedWithdrawal
    /\ broadcasts \in [RequestIds -> Nat]

OverLimit(id) == id \in Known /\ requests[id].kind = "OverLimit"

(* No request that needs the operators is paid without the approval of     *)
(* the required net number of them, even if their votes keep arriving      *)
(* while the payment is under way.                                         *)
PaidOnlyIfApproved ==
    \A id \in RequestIds :
        OverLimit(id) /\ broadcasts[id] > 0 =>
            Net(requests[id]) = REQUIRED_NUMBER_OF_CONFIRMATIONS

(* As long as every answer of the adapter is the truth and arrives, and no *)
(* block is lost, a request over the limit that is rejected, by operators  *)
(* or node, has not been paid, even if the hot wallet stops in between.    *)
(* Not true if withdraw_btc fails after the node took the transaction.     *)
RejectedIsUnpaid ==
    faults \subseteq {"crash", "store"} =>
        \A id \in RequestIds :
            OverLimit(id) /\ requests[id].status \in {"OpRejected", "NodeRejected"}
              => broadcasts[id] = 0

InFlight(id) ==
    \/ payer # Idle /\ payer.id = id
    \/ \E cw \in posted : cw.id = id
    \/ \E i \in DOMAIN updates : updates[i].id = id

(* "Confirmed by operators, but not yet sent to the node": without faults, *)
(* once nothing is under way for it, a BTC request that is still Confirmed *)
(* has not been sent.                                                      *)
ConfirmedIsUnsent ==
    faults = {} =>
        \A id \in Known :
            /\ requests[id].currency = "BTC"
            /\ requests[id].status = "Confirmed"
            /\ ~InFlight(id)
            => broadcasts[id] = 0

(* A settled request over the limit stays as it is: late answers, a second *)
(* outcome or further votes never move it to another status.  Only a lost  *)
(* block takes back a completed one.                                       *)
SettlementIsFinal ==
    [][ \A id \in RequestIds :
          OverLimit(id) /\ requests[id].status \in {"Completed", "OpRejected", "NodeRejected"}
            => \/ requests'[id] = requests[id]
               \/ /\ "reorg" \in faults
                  /\ requests[id].status = "Completed"
                  /\ requests'[id] = [requests[id] EXCEPT !.status = "NodeRejected"] ]_vars

BtcDue(id) ==
    /\ id \in Known
    /\ requests[id].currency = "BTC"
    /\ requests[id].status = "Confirmed" \/ requests[id].kind = "UnderLimit"

(* Without faults every BTC request the operators confirm is eventually    *)
(* settled, and every one under the limit without them.                    *)
EverySettled ==
    \A id \in RequestIds :
        (faults = {} /\ BtcDue(id))
        ~> (id \in Known /\ requests[id].status \in {"Completed", "NodeRejected"})

-----------------------------------------------------------------------------
(* Requests under the limit are no part of the promise.                    *)
StageOf(id) ==
    IF ~OverLimit(id) THEN "none"
    ELSE CASE requests[id].status = "InProgress" -> "open"
           [] requests[id].status = "Confirmed"  -> "approved"
           [] requests[id].status = "OpRejected" -> "refused"
           [] OTHER                              -> "closed"

Promise == INSTANCE PayoutPromise
              WITH stage <- [id \in RequestIds |-> StageOf(id)],
                   paid  <- [id \in RequestIds |-> IF OverLimit(id) THEN broadcasts[id]
                                                    ELSE 0]

(* Withdrawals over the limit keep the promise of PayoutPromise under      *)
(* every fault: decided once, confirmed by the operators before anything   *)
(* is sent, paid at most once whatever crashes, lost answers and failed    *)
(* stores come in between, closed once.  Not so of requests under the      *)
(* limit, which stay open for the operators while they are paid.           *)
KeepsPromise == Promise!Spec
=============================================================================

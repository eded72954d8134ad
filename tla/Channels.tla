------------------------------ MODULE Channels ------------------------------
(***************************************************************************)
(* Who waits for whom in the hot wallet: State behind one tokio mutex, the *)
(* bounded channel of updates, the bounded channel of results, and the     *)
(* tasks that use them.  btc_worker and the handlers that allocate an      *)
(* Ethereum address send to the channel of updates while they hold State;  *)
(* update_worker, the only reader of that channel, needs State for every   *)
(* update it takes, and sends to the channel of results while it holds     *)
(* State.  What the updates say is left out: the channels are counted.     *)
(***************************************************************************)
EXTENDS Integers

CONSTANTS UpdatesCapacity,   \* mpsc::channel(1000) of StateUpdate
          ResultsCapacity,   \* mpsc::channel(1000) of UpdateResult
          MaxBatch,          \* updates that come out of one poll of the BTC adapter
          MaxOutstanding     \* bound: the largest load looked at

VARIABLES load,       \* at most so many updates and results are under way
          lock,       \* the task that holds State
          updates,    \* number of updates in their channel
          results,    \* number of results in theirs
          senders,    \* handlers and cron jobs about to send without State
          askers,     \* handlers waiting for State to allocate an address
          batch,      \* updates btc_worker has still to send
          updater,    \* where update_worker is
          payer       \* where update_results_worker is

vars == <<lock, updates, results, senders, askers, batch, updater, payer>>

ASSUME ChannelsConstants ==
    /\ UpdatesCapacity \in Nat \ {0}
    /\ ResultsCapacity \in Nat \ {0}
    /\ MaxBatch \in Nat
    /\ MaxOutstanding \in Nat

(* A load under which the channels never fill.                             *)
Roomy == load <= UpdatesCapacity /\ load <= ResultsCapacity

-----------------------------------------------------------------------------
One(busy) == IF busy THEN 1 ELSE 0

Outstanding ==
    updates + results + senders + askers + batch
      + One(lock \in {"handler", "address"}) + One(updater # "recv") + One(payer # "recv")

Admits(n) == Outstanding + n <= load

Init ==
    /\ load \in 0..MaxOutstanding
    /\ lock = "free"
    /\ updates = 0 /\ results = 0
    /\ senders = 0 /\ askers = 0
    /\ batch = 0
    /\ updater = "recv"
    /\ payer = "recv"

-----------------------------------------------------------------------------
(* Handlers that read State, release it, and send: most of the APIs, and   *)
(* the cron jobs.                                                          *)
Request ==
    /\ Admits(1)
    /\ senders' = senders + 1
    /\ UNCHANGED <<lock, updates, results, askers, batch, updater, payer>>

RequestSends ==
    /\ senders > 0
    /\ updates < UpdatesCapacity
    /\ senders' = senders - 1
    /\ updates' = updates + 1
    /\ UNCHANGED <<lock, results, askers, batch, updater, payer>>

(* get_deposit_address: asks the ETH adapter and sends with State held.    *)
AddressRequest ==
    /\ Admits(1)
    /\ askers' = askers + 1
    /\ UNCHANGED <<lock, updates, results, senders, batch, updater, payer>>

AddressLocks ==
    /\ askers > 0
    /\ lock = "free"
    /\ lock' = "handler"
    /\ askers' = askers - 1
    /\ UNCHANGED <<updates, results, senders, batch, updater, payer>>

(* The adapter has given an address, which the handler goes on to send.    *)
AddressAllocated ==
    /\ lock = "handler"
    /\ lock' = "address"
    /\ UNCHANGED <<updates, results, senders, askers, batch, updater, payer>>

AddressSends ==
    /\ lock = "address"
    /\ updates < UpdatesCapacity
    /\ updates' = updates + 1
    /\ lock' = "free"
    /\ UNCHANGED <<results, senders, askers, batch, updater, payer>>

(* The user has an address already, or the adapter answers with an error.  *)
AddressKnown ==
    /\ lock = "handler"
    /\ lock' = "free"
    /\ UNCHANGED <<updates, results, senders, askers, batch, updater, payer>>

(* btc_worker polls the adapter; process_btc_events takes State and sends  *)
(* the whole batch before it releases it.                                  *)
Poll(n) ==
    /\ batch = 0
    /\ Admits(n)
    /\ batch' = n
    /\ UNCHANGED <<lock, updates, results, senders, askers, updater, payer>>

EventsLock ==
    /\ batch > 0
    /\ lock = "free"
    /\ lock' = "btc_worker"
    /\ UNCHANGED <<updates, results, senders, askers, batch, updater, payer>>

(* Mutant: an event is sent again and again.                               *)
EventsSendTwice ==
    /\ lock = "btc_worker"
    /\ updates < UpdatesCapacity
    /\ updates' = updates + 1
    /\ batch' \in {batch, batch - 1}
    /\ lock' = IF batch' = 0 THEN "free" ELSE lock
    /\ UNCHANGED <<results, senders, askers, updater, payer>>

(* Mutant: State is not released after the last event.                     *)
EventsSendAndKeep ==
    /\ lock = "btc_worker"
    /\ batch > 0
    /\ updates < UpdatesCapacity
    /\ updates' = updates + 1
    /\ batch' = batch - 1
    /\ UNCHANGED <<lock, results, senders, askers, updater, payer>>

(* Mutant: an event there is no room for is left out.                      *)
EventsTrySend ==
    /\ lock = "btc_worker"
    /\ updates' = IF updates < UpdatesCapacity THEN updates + 1 ELSE updates
    /\ batch' = batch - 1
    /\ lock' = IF batch = 1 THEN "free" ELSE lock
    /\ UNCHANGED <<results, senders, askers, updater, payer>>

EventsSend ==
    /\ lock = "btc_worker"
    /\ updates < UpdatesCapacity
    /\ updates' = updates + 1
    /\ batch' = batch - 1
    /\ lock' = IF batch = 1 THEN "free" ELSE lock
    /\ UNCHANGED <<results, senders, askers, updater, payer>>

-----------------------------------------------------------------------------
(* update_worker takes an update, then State.                              *)
UpdateReceive ==
    /\ updater = "recv"
    /\ updates > 0
    /\ updates' = updates - 1
    /\ updater' = "lock"
    /\ UNCHANGED <<lock, results, senders, askers, batch, payer>>

UpdateLock ==
    /\ updater = "lock"
    /\ lock = "free"
    /\ lock' = "update_worker"
    /\ updater' = "apply"
    /\ UNCHANGED <<updates, results, senders, askers, batch, payer>>

(* The update has no result, or failed, or could not be stored ...         *)
UpdateApply ==
    /\ updater = "apply"
    /\ updater' = "recv"
    /\ lock' = "free"
    /\ UNCHANGED <<updates, results, senders, askers, batch, payer>>

(* ... or it approves a withdrawal, and the result is sent under the lock. *)
UpdateApprove ==
    /\ updater = "apply"
    /\ updater' = "result"
    /\ UNCHANGED <<lock, updates, results, senders, askers, batch, payer>>

UpdateSendResult ==
    /\ updater = "result"
    /\ results < ResultsCapacity
    /\ results' = results + 1
    /\ updater' = "recv"
    /\ lock' = "free"
    /\ UNCHANGED <<updates, senders, askers, batch, payer>>

(* update_results_worker looks a confirmed withdrawal up in State; one     *)
(* under the limit comes with its result.                                  *)
ResultReceive ==
    /\ payer = "recv"
    /\ results > 0
    /\ results' = results - 1
    /\ payer' \in {"lock", "pay"}
    /\ UNCHANGED <<lock, updates, senders, askers, batch, updater>>

ResultLooksUp ==
    /\ payer = "lock"
    /\ lock = "free"
    /\ payer' \in {"pay", "recv"}
    /\ UNCHANGED <<lock, updates, results, senders, askers, batch, updater>>

(* Mutant: a failed payment is looked up and tried again.                  *)
ResultPaidOrRetried ==
    /\ payer = "pay"
    /\ payer' \in {"report", "recv", "lock"}
    /\ UNCHANGED <<lock, updates, results, senders, askers, batch, updater>>

(* The adapter answers; there is nothing to send for a paid ETH request.   *)
ResultPaid ==
    /\ payer = "pay"
    /\ payer' \in {"report", "recv"}
    /\ UNCHANGED <<lock, updates, results, senders, askers, batch, updater>>

ResultReports ==
    /\ payer = "report"
    /\ updates < UpdatesCapacity
    /\ updates' = updates + 1
    /\ payer' = "recv"
    /\ UNCHANGED <<lock, results, senders, askers, batch, updater>>

-----------------------------------------------------------------------------
Arrivals == Request \/ AddressRequest \/ \E n \in 1..MaxBatch : Poll(n)

Handlers ==
    RequestSends \/ AddressLocks \/ AddressAllocated \/ AddressSends \/ AddressKnown

BtcWorker == EventsLock \/ EventsSend

UpdateWorker ==
    \/ UpdateReceive \/ UpdateLock \/ UpdateApply \/ UpdateApprove \/ UpdateSendResult

ResultsWorker == ResultReceive \/ ResultLooksUp \/ ResultPaid \/ ResultReports

Tasks == Handlers \/ BtcWorker \/ UpdateWorker \/ ResultsWorker

Next == (Arrivals \/ Tasks) /\ UNCHANGED load

Spec == Init /\ [][Next]_<<vars, load>>

(* tokio's mutex is first come, first served, so a task that asks for State *)
(* again and again gets it (SF); every other step waits for nobody else.   *)
FairSpec ==
    /\ Spec
    /\ SF_vars(EventsLock) /\ SF_vars(UpdateLock) /\ SF_vars(ResultLooksUp)
    /\ SF_vars(AddressLocks)
    /\ WF_vars(AddressAllocated \/ AddressKnown) /\ WF_vars(AddressSends)
    /\ WF_vars(EventsSend)
    /\ WF_vars(UpdateReceive) /\ WF_vars(UpdateApply \/ UpdateApprove)
    /\ WF_vars(UpdateSendResult)
    /\ WF_vars(ResultReceive) /\ WF_vars(ResultPaid) /\ WF_vars(ResultReports)

-----------------------------------------------------------------------------
TypeOK ==
    /\ load \in Nat
    /\ lock \in {"free", "handler", "address", "btc_worker", "update_worker"}
    /\ updates \in 0..UpdatesCapacity
    /\ results \in 0..ResultsCapacity
    /\ senders \in Nat
    /\ askers \in Nat
    /\ batch \in Nat
    /\ updater \in {"recv", "lock", "apply", "result"}
    /\ payer \in {"recv", "lock", "pay", "report"}

(* Who holds State is where it says it is: update_worker from apply_update *)
(* to the result, btc_worker while it has events left.                     *)
LockDiscipline ==
    /\ lock = "update_worker" <=> updater \in {"apply", "result"}
    /\ lock = "btc_worker" => batch > 0

(* Under a load the channels have room for, no task ever waits for room in *)
(* a channel, in particular not while it holds State, which the reader of  *)
(* the channel needs: process_btc_events, get_deposit_address,             *)
(* update_worker's send of a result, and update_results_worker's reports.  *)
NobodyWaitsForRoom ==
    Roomy =>
      /\ lock \in {"btc_worker", "address"} => updates < UpdatesCapacity
      /\ updater = "result" => results < ResultsCapacity
      /\ payer = "report" \/ senders > 0 => updates < UpdatesCapacity

(* btc_worker, or a handler with a new address, holds State and waits for  *)
(* room in the channel of updates; its reader has an update in hand and    *)
(* waits for State.                                                        *)
StuckOnUpdates ==
    lock \in {"btc_worker", "address"} /\ updates = UpdatesCapacity /\ updater = "lock"

(* update_worker holds State and waits for room in the channel of results; *)
(* its reader waits for State, or for room in the channel of updates.      *)
StuckOnResults ==
    /\ updater = "result" /\ results = ResultsCapacity
    /\ payer = "lock" \/ (payer = "report" /\ updates = UpdatesCapacity)

(* With work to do, the tasks can only all be stopped in these two ways,   *)
(* each with a full channel: the lock alone, passed between the four kinds *)
(* of tasks, stops nobody, nor does a full channel nobody holds State for. *)
StopsOnlyWhenFull ==
    Outstanding > 0 /\ ~ENABLED Tasks => StuckOnUpdates \/ StuckOnResults

(* Whoever is stuck so is stuck for good: no other task can make room.     *)
DeadlocksAreForGood ==
    [][ /\ StuckOnUpdates => StuckOnUpdates'
        /\ StuckOnResults => StuckOnResults' ]_<<vars, load>>

(* Under such a load every update that update_worker has taken is dealt    *)
(* with, every payment update_results_worker has begun is finished, and    *)
(* every batch of process_btc_events is delivered.                         *)
NobodyIsStuck ==
    /\ (Roomy /\ updater # "recv") ~> (updater = "recv")
    /\ (Roomy /\ payer # "recv") ~> (payer = "recv")
    /\ (Roomy /\ batch > 0) ~> (batch = 0)
=============================================================================

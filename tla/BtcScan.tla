------------------------------ MODULE BtcScan ------------------------------
(***************************************************************************)
(* How a deposit in bitcoin reaches the balance of a user.  The adapter    *)
(* (hexstody-btc) asks its node what happened since the last block it      *)
(* knows, and keeps the answer as events; the hot wallet polls the events, *)
(* which clears them, and turns them into updates of State.  The chain may *)
(* be reorganised, and both processes may stop.                            *)
(*                                                                         *)
(* Only deposits are modelled, one output of a transaction each: what      *)
(* leaves the wallet is reported too, but changes no balance.              *)
(***************************************************************************)
EXTENDS Integers, SequencesExt

CONSTANTS Txs,            \* deposits to addresses of users
          MaxBlocks,      \* bound: blocks mined, on any branch
          MaxPending,     \* bound: events on their way to State
          Scenarios       \* which faults may happen together

VARIABLES chain,        \* the node: blocks after the genesis block
          mempool,      \* the node: unconfirmed deposits
          mined,        \* number of blocks mined so far, on any branch
          last_block,   \* ScanState: the branch that ends in last_block
          events,       \* ScanState: not polled yet
          updates,      \* polled, not applied by update_worker yet
          seen,         \* the confirmations of each deposit in State, or absent
          faults        \* which faults can happen, never changed

scanState == <<chain, mempool, mined, last_block, events, updates, seen>>

scanVars == <<scanState, faults>>

(* The chain loses blocks; a block spends the inputs of a deposit in       *)
(* another way; hexstody-btc stops and starts again; the hot wallet does,  *)
(* or never gets the reply to a poll.                                      *)
FaultKinds == {"reorg", "double spend", "adapter stops", "hot wallet stops"}

Absent == -1

ASSUME BtcScanConstants ==
    /\ IsFiniteSet(Txs)
    /\ MaxBlocks \in Nat /\ MaxPending \in Nat
    /\ Scenarios \subseteq SUBSET FaultKinds

-----------------------------------------------------------------------------
TxUpdate(t, confirmations) ==
    [ type |-> "Update", tx |-> t, confirmations |-> confirmations ]

TxCancel(t) == [ type |-> "Cancel", tx |-> t ]

Deposits(blocks, from) == UNION { blocks[i].txs : i \in from..Len(blocks) }

Rivals(blocks, from) == UNION { blocks[i].rivals : i \in from..Len(blocks) }

(* Height of the last block two branches share.                            *)
Fork(a, b) ==
    LET Shared(n) == n <= Len(b) /\ \A i \in 1..n : a[i] = b[i]
    IN CHOOSE n \in 0..Len(a) : Shared(n) /\ \A m \in 0..Len(a) : Shared(m) => m <= n

-----------------------------------------------------------------------------
ScanInit ==
    /\ chain = <<>>
    /\ mempool = {}
    /\ mined = 0
    /\ last_block = <<>>
    /\ events = <<>>
    /\ updates = <<>>
    /\ seen = [t \in Txs |-> Absent]
    /\ faults \in Scenarios

(* The node.  A deposit is sent once.                                      *)
Broadcast(t) ==
    /\ t \notin mempool \union Deposits(chain, 1) \union Rivals(chain, 1)
    /\ mempool' = mempool \union {t}
    /\ UNCHANGED <<chain, mined, last_block, events, updates, seen>>

(* A block confirms deposits, or kills them: it has rivals, that spend the *)
(* same coins.  The number stands for all else that a block hash covers.   *)
Mine(txs, rivals) ==
    /\ mined < MaxBlocks
    /\ mined' = mined + 1
    /\ chain' = Append(chain, [ txs |-> txs, rivals |-> rivals, number |-> mined' ])
    /\ mempool' = mempool \ (txs \union rivals)
    /\ UNCHANGED <<last_block, events, updates, seen>>

(* The blocks after the n-th lose to another branch, yet to come: what is  *)
(* in them is unconfirmed again, and what they killed may live.            *)
Reorg(n) ==
    /\ "reorg" \in faults
    /\ chain' = SubSeq(chain, 1, n)
    /\ mempool' = mempool \union Deposits(chain, n + 1) \union Rivals(chain, n + 1)
    /\ UNCHANGED <<mined, last_block, events, updates, seen>>

-----------------------------------------------------------------------------
(* listsinceblock: the deposits of the blocks that last_block has and the  *)
(* chain has not, and the deposits that are unconfirmed or confirmed since.*)
(* A deposit that lost its coins has a negative number of confirmations,   *)
(* and to_update_event drops it.                                           *)
removed(fork) == { TxCancel(t) : t \in Deposits(last_block, fork + 1) }

(* Mutant: the block counts twice.                                         *)
transactions_deeper(fork) ==
    { TxUpdate(t, 0) : t \in mempool }
      \union UNION { { TxUpdate(t, Len(chain) - i + 2) : t \in chain[i].txs } :
                     i \in (fork + 1)..Len(chain) }

transactions(fork) ==
    { TxUpdate(t, 0) : t \in mempool }
      \union UNION { { TxUpdate(t, Len(chain) - i + 1) : t \in chain[i].txs } :
                     i \in (fork + 1)..Len(chain) }

(* Mutant: the cancels come after the updates.                             *)
cancels_last(fork) == SetToSeq(transactions(fork)) \o SetToSeq(removed(fork))

scan_from(fork) == SetToSeq(removed(fork)) \o SetToSeq(transactions(fork))

(* Mutant: what is found is put before what is waiting.                    *)
node_worker_prepends ==
    LET found == scan_from(Fork(chain, last_block))
    IN /\ found # <<>> \/ last_block # chain
       /\ Len(events) + Len(updates) + Len(found) <= MaxPending
       /\ events' = found \o events
       /\ last_block' = chain
       /\ UNCHANGED <<chain, mempool, mined, updates, seen>>

(* node_worker, while it holds the ScanState.                              *)
node_worker ==
    LET found == scan_from(Fork(chain, last_block))
    IN /\ found # <<>> \/ last_block # chain
       /\ Len(events) + Len(updates) + Len(found) <= MaxPending
       /\ events' = events \o found
       /\ last_block' = chain
       /\ UNCHANGED <<chain, mempool, mined, updates, seen>>

(* Mutant: the events are cleared before they are read.                    *)
poll_events_cleared ==
    /\ events # <<>>
    /\ events' = <<>>
    /\ UNCHANGED <<chain, mempool, mined, last_block, updates, seen>>

(* poll_events, which returns at the latest when the poll times out, and   *)
(* process_btc_events of the hot wallet.                                   *)
poll_events ==
    /\ events # <<>>
    /\ updates' = updates \o events
    /\ events' = <<>>
    /\ UNCHANGED <<chain, mempool, mined, last_block, seen>>

(* update_worker: with_btc_tx_update and with_btc_tx_cancel.               *)
update_btc_tx ==
    /\ updates # <<>>
    /\ seen' = LET e == Head(updates)
               IN [seen EXCEPT ![e.tx] = IF e.type = "Update" THEN e.confirmations
                                         ELSE Absent]
    /\ updates' = Tail(updates)
    /\ UNCHANGED <<chain, mempool, mined, last_block, events>>

(* Mutant: where the scan had come to is remembered, but not the events.   *)
AdapterRestartAtTip ==
    /\ "adapter stops" \in faults
    /\ events' = <<>>
    /\ UNCHANGED <<chain, mempool, mined, last_block, updates, seen>>

(* The ScanState is not kept: the adapter starts at the genesis block.     *)
AdapterRestart ==
    /\ "adapter stops" \in faults
    /\ events' = <<>>
    /\ last_block' = <<>>
    /\ UNCHANGED <<chain, mempool, mined, updates, seen>>

(* The hot wallet stops with updates that are not stored, or after a poll  *)
(* whose reply it never gets.                                              *)
HotRestart ==
    /\ "hot wallet stops" \in faults
    /\ updates' = <<>>
    /\ events' \in {events, <<>>}
    /\ UNCHANGED <<chain, mempool, mined, last_block, seen>>

-----------------------------------------------------------------------------
Node ==
    \/ \E t \in Txs : Broadcast(t)
    \/ \E txs \in SUBSET mempool :
          \E rivals \in SUBSET IF "double spend" \in faults THEN mempool \ txs ELSE {} :
              Mine(txs, rivals)
    \/ \E n \in 0..(Len(chain) - 1) : Reorg(n)

ScanNext ==
    /\ \/ Node
       \/ node_worker \/ poll_events \/ update_btc_tx
       \/ AdapterRestart \/ HotRestart
    /\ UNCHANGED faults

ScanSpec == ScanInit /\ [][ScanNext]_scanVars

(* The two workers of the hot wallet and the one of the adapter are loops  *)
(* that sleep for a bounded time, and the poll has a timeout.              *)
FairScanSpec ==
    /\ ScanSpec
    /\ WF_scanState(node_worker)
    /\ WF_scanState(poll_events)
    /\ WF_scanState(update_btc_tx)

-----------------------------------------------------------------------------
(* The adapter has scanned the chain, and all it found has come to State.  *)
InStep == last_block = chain /\ events = <<>> /\ updates = <<>>

(* State in step with the chain has as confirmed the deposits in the       *)
(* chain, and no deposit that is not there any more: whatever blocks came  *)
(* and went between two scans, the cancels and updates of scan_from leave  *)
(* the truth.  A double spend breaks it (to_update_event drops what would  *)
(* cancel the deposit), and so does a process that stops after a reorg.    *)
SeesTheChain ==
    InStep /\ faults \subseteq {"reorg"} =>
        \A t \in Txs :
           /\ seen[t] > 0 <=> t \in Deposits(chain, 1)
           /\ seen[t] # Absent => t \in mempool \union Deposits(chain, 1)

(* While the chain loses no block, State never has more confirmations than *)
(* the block of the deposit, however late the reports come, and however    *)
(* often a restarted adapter tells of the deposit again.                   *)
NothingTooEarly ==
    "reorg" \notin faults =>
        \A t \in Txs :
            seen[t] > 0 =>
                \E i \in DOMAIN chain : t \in chain[i].txs /\ seen[t] <= Len(chain) - i + 1

(* However often the adapter stops, no deposit that is confirmed is missed:*)
(* what is lost with the events is found again from the genesis block.     *)
(* What the hot wallet loses after the poll is not found again.            *)
NothingIsMissed ==
    InStep /\ "hot wallet stops" \notin faults =>
        \A t \in Deposits(chain, 1) : seen[t] > 0

(* While no block is lost, confirmations only grow, whoever stops: a scan  *)
(* that starts again from the genesis block repeats nothing that is older  *)
(* than what State has, and no balance drops for it.                       *)
ConfirmationsOnlyGrow ==
    [][ "reorg" \notin faults => \A t \in Txs : seen'[t] >= seen[t] ]_scanVars

(* A deposit that is confirmed comes to State, if its block stays and no   *)
(* process stops: an adapter that restarts before every poll reports       *)
(* nothing, ever.                                                          *)
DepositArrives ==
    faults \intersect {"adapter stops", "hot wallet stops"} = {} =>
        \A t \in Txs :
            t \in Deposits(chain, 1) ~> (seen[t] > 0 \/ t \notin Deposits(chain, 1))
=============================================================================

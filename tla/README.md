# A verification development of hexstody

hexstody is a custody service: users deposit bitcoin, ether and tokens, ask for
withdrawals and exchanges, and operators sign decisions about them. This
directory holds TLA+ modules translated from its source, TLC configurations that
model-check them on small instances, and proofs checked by TLAPS.

Paths below are relative to `src/`.

## The system

| Component | State it keeps | Operations | Properties that make it correct |
|---|---|---|---|
| `State` (`hexstody-db/src/state`) | users, requests, votes, limits, balances, exchange wallet | `apply_update`, one handler per kind of update | votes counted right, two persons behind every decision, no overdraft, limits respected |
| Event log (`hexstody-db/src/lib.rs`, `queries.rs`) | table of stamped updates | `update_worker` applies to a copy, stores, then publishes; `query_state` replays | replay gives the state that was current |
| Hot wallet (`hexstody-hot`) | two channels of 1000, the mutex around `State` | `update_worker`, `update_results_worker`, `btc_worker`, cron jobs | approved withdrawals are paid once and settled; the tasks never block each other for good |
| BTC adapter (`hexstody-btc`) | `ScanState`: last block, events not polled | `node_worker`, `poll_events`, `withdraw_btc`, `cold_wallet_worker` | State sees the deposits of the chain and no others |
| ETH adapter (`hexstody-eth`) | table of users with balances and token lists; the nonces are the node's | `update_stage`, accounts, `signsend` | every user has his row and account, the token list follows State, what is taken is mined |
| Public API (`hexstody-public`) | none; a clone of the user per request | withdraw, exchange, limits, tokens, addresses, signup, sign-in | checks hold when the update is applied; an invite admits one user; a challenge opens one session |
| Operator API (`hexstody-operator`) | none | list, confirm, reject, limits, exchange, invites | a decision is about what the operator saw |
| Ticker (`hexstody-ticker`, `hexstody-runtime-db`) | cache of rates, sign-in challenges | refresh every 30 s, lookups | rates do not go back or stay stale, lookups can be decoded, nobody waits for ever |

How they interact: the APIs look at `State` under its mutex, release it, and send
a `StateUpdate` into a bounded channel. `update_worker` takes the updates one by
one, and sends an `UpdateResult` for an approved withdrawal into a second bounded
channel. `update_results_worker` takes the results one by one, calls an adapter
over HTTP and sends the outcome back as an update. `btc_worker` polls the BTC
adapter and sends what it gets as updates. Only the table of updates survives a
restart of the hot wallet; the BTC adapter keeps nothing.

What is hard: handlers decide on a copy of `State` and are applied later; the
table is replayed in an order of its own; two channels and a mutex wait for each
other; payments are remote calls whose answer may be lost; the adapter's events
are cleared when they are read and the chain may be reorganised. `PROJECT.json`
lists each of these as a hazard at the line where it bites, with the properties
that cover it.

## The modules

| Module | Models | State and actions |
|---|---|---|
| `Withdrawal` | requests in `State` and the operators' vote | `requests[id]` is the `WithdrawalRequest`; `Create`, `Confirm`, `Reject` are `with_new_withdrawal_request` and the two branches of `with_withdrawal_request_decision`; a `StateUpdateErr` is a guard |
| `Payout` | from approval to payment and settlement; extends `Withdrawal` | the queues `updates` and `results`, the payment under way `payer`, and the adapter's side of the call (`posted`, `accepted`, `refused`, `broadcasts`) |
| `PayoutPromise` | what `Payout` promises, without queues and tasks | `stage` and `paid` per request; `Payout!KeepsPromise` is the refinement |
| `EventLog` | stamps, channel, table, restart; extends `Withdrawal` | `Stamp…` and `Send` are the two halves of a handler, `UpdateStored` and `UpdateDropped` are `update_worker`, `Restart` is `query_state` |
| `Channels` | who holds the mutex and waits for which channel | counters for what is in the channels, a place for each worker |
| `Limits` | spending limits of one user in one currency | `limit`, `spent`, the open `change` and the updates under way; `withdrawn` is the sum that `spent` ought to be |
| `Ledger` | balances of one user and of the exchange wallet | outputs, orders, withdrawals in every currency, running balance, the tokens the user has; `Net` is `balance()` before it is clamped, `Debt` what the clamp hides; `lost` remembers what went with an entry that was switched off |
| `EthAdapter` | `users_eth`, `update_stage`, the nonces and prices of payments | a row is its address, its token list and the tokens it has balances of; `refresh.read` is what `pg_query_users` gave to a round |
| `Accounts` | sign-up, invites, tokens, ETH addresses; extends `EthAdapter` | a handler is where it is in its sequence of calls, `updates` is the channel; `UpdateApplied` and `UpdateDropped` are `update_worker` |
| `Runtime` | `RuntimeState`: rates, challenges, one mutex | `cache_miss` keeps the mutex until the `Provider` has answered; `ticker_worker` reads, asks without it, replaces; a rate is the time it was true at; `opened` and `expired` remember for whom a challenge opened a session and which were drawn before a restart |
| `BtcScan` | the chain, the adapter's scan, polling and delivery | the node's `chain` and `mempool`, `last_block` and `events` of `ScanState`, `updates` on their way, `seen` in `State` |
| `Addresses` | whose a BTC address is: users', the exchange's | `inbox` is the channel, with the addresses and the reports on what is paid to them; `get_exchange_address` and `answer_operator` are the two halves of one handler; `holders`, `pays` and `reported` remember what happened |
| `WithdrawalProofs` | theorems about `Withdrawal` and `EventLog` | |
| `PayoutProofs`, `ChannelsProofs`, `LimitsProofs`, `LedgerProofs`, `AccountsProofs`, `RuntimeProofs` | theorems about the module of that name | `Accounts` with `EthAdapter` |
| `DepositProofs` | theorems about `BtcScan` and `Addresses` | |
| `MC…` | the instances for TLC: symmetry, sets of faults | |

A block hash is modelled as the branch that ends in the block. Amounts are small
numbers, keys and ids are model values. Definitions whose comment begins with
"Mutant:" are plausible mistakes; each property has one that TLC refutes when it
takes the place of the definition it follows, and no specification uses them.

`update_worker` may drop any update (`UpdateDropped`, `Fails`): storing it in
Postgres can fail.

## The runs

Several modules keep a frozen variable, chosen in `Init` and never changed, that
selects a scenario: `faults` in `Payout` and `BtcScan`, `load` in `Channels`,
`currency` in `Limits`, `scenario` in `Ledger` and `Accounts`, `mishaps` in
`Addresses`, `kinds` in `Runtime`. One run then covers all scenarios, and a property
names in its antecedent the scenarios it is true of. What happens in the others is
said in "Where the code falls short".

Each configuration has the name of its run. Runs that pass:

| Run | Distinct states | Instance | Shows |
|---|---|---|---|
| `PayoutFaults` | 673 000 | 2 requests of either kind and currency; no faults, those of the hot wallet, those of the adapter, all | `Payout` implements `PayoutPromise`: decided once, confirmed before it is sent, paid at most once; only approved requests are paid, and settled for good; one refused under crashes and failed stores is unpaid; without faults every confirmed BTC request is settled |
| `LogSerial` | 46 000 | 4 operators, handlers one at a time | the tally is the net vote, decisions have two operators behind them and are not late while only two have voted; replay restores the current state; the log implements `Withdrawal` |
| `Channels` | 19 400 | capacities of 3 and 2, batches of 4, loads of 0 to 7 | a load that fits: nobody waits for room, everybody finishes; any load: the tasks can stop in two ways, which are for good |
| `Limits` | 368 000 | BTC or a token, 3 operators, 2 changes, restarts | counting, two persons for a raise, no open change without its currency, decisions are about the limit they were made on |
| `Ledger` | 510 000 | 1 deposit of the user, 1 of the exchange, 2 orders, 1 withdrawal in either currency; with reorgs, with a token switched off and on, with decisions that differ from the order | running balance, conservation, orders take no more than came in |
| `Scan` | 57 700 | 1 deposit, 3 blocks on any branches, 4 sets of faults | State follows the chain, misses nothing, knows nothing too early, goes back for nothing, and gets what stays confirmed |
| `Addresses` | 707 000 | 2 users, 2 operators, 2 outputs; nothing goes wrong, operators ask at once, everything goes wrong | a payment is credited to the account its address was made for, and to no other; no report overtakes the address it is about |
| `Accounts` | 255 000 | 2 names, 2 invites, 2 handlers, 3 tokens, 3 payments; 8 mixes of disturbances | an invite admits one user; users have rows and accounts of their own; no name is taken for nothing; a token switched on undisturbed repairs the list; balances catch up; an ETH payment that was taken is mined |
| `Runtime` | 62 800 | 2 requests, the refresh and restarts; failures, partial answers, sign-in | an answer can be decoded, rates neither go back nor stay, a challenge opens one session, of its user and in the run it was drawn in, everybody is served |

Bounds, and why they suffice: two net votes decide, so three operators are the
fewest that can overshoot and that differ from a pair; two orders are the fewest
that can share money; capacities of three and two stand for 1000, with batches
smaller and larger than the room left and loads below and above the capacity; three
blocks allow a branch of two to lose its tip to another. Deposits meet only in the
order of their events, which `scan_from` fixes by kind and not by deposit, so `Scan`
follows one. Two names and two invites are the fewest that can be crossed; two
default tokens and a third are the fewest for which `disable_token`, which posts the
disabled token once for each of the others, posts a list that is wrong in two ways;
three payments can replace each other twice. Two users, operators and outputs are
the fewest whose addresses and payments can be mixed up. Two requests to
`RuntimeState` and the refresh are all the ways to find the mutex taken.
`MaxUpdates`, `MaxClock`, `MaxInbox`, `MaxRequests`, `MaxIds`, `MaxSpent`,
`MaxBlocks`, `MaxPending`, `MaxOutstanding`, `MaxAsked`, `MaxRate`, `MaxChallenges`,
`MaxAddresses` and the `requests` of a scenario only cut the state space.
`CHECK_DEADLOCK FALSE` stands where the program may come to rest because users and
operators owe it nothing, or where it does stop (`Channels`, with a load that does
not fit, which `StopsOnlyWhenFull` and `DeadlocksAreForGood` are about).

Runs that are expected to be violated, each the disagreement of the code with a
text of the repository that `PROJECT.json` quotes under `findings`:

| Run | Violates | What happens |
|---|---|---|
| `LogRace` | `Restartable` | a rejection stamped after a confirmation is applied before it; in the order of the stamps one of the votes is refused, and `collect` gives up |
| `LimitsSpent` | `SpendingWithinLimit` | what is spent is never added up |
| `LedgerOverdraft` | `NoOverdraft` | two withdrawals in BTC are checked before either is applied |

## Where the code falls short

Besides those three, these antecedents of properties are there because the code
does something else without them; TLC finds each when the antecedent is dropped
or the scenario added.

- `RejectedIsUnpaid`, answers that are true and arrive: `withdraw_btc` calls
  `get_transaction` and decodes its answer after `send_to_address`. If that fails it
  answers with an error, `update_results_worker` sets `NodeRejected` ("Rejected by
  the node", `hexstody-db/src/state/withdraw.rs:39`), and the amount is back in the
  balance of the user who was paid. A lost or late reply does the same.
- `DecidedAtThreshold`, at most two voters: `with_withdrawal_request_decision`
  tests for equality, and a third operator who changes sides moves the tally by
  two, from 1 to 3. The request then keeps `InProgress(3)` for ever.
- `EverySettled` and `ConfirmedIsUnsent`, BTC only: `update_results_worker` only
  logs an ETH or ERC20 payment that succeeded, so the request stays `Confirmed` for
  ever.
- `KeepsPromise`, over the limit only: a request under the limit keeps
  `InProgress(0)` while it is paid, and operators can confirm it into a second
  payment.
- `DecisionsAreForThisRequest`, until a second change is filed:
  `with_limit_change_decision` does not compare ids, so a decision made on a
  change that was replaced counts for its successor.
- `ExchangeConserves` counts `lost`: `update_tokens` looks at `balance()`, which is
  zero while everything is in orders in progress or withdrawals, or more than
  everything was withdrawn. It removes the entry (`hexstody-db/src/state/mod.rs:680`)
  with the orders and withdrawals in it, which the user never gets back, and
  forgets the debt that `balance()` clamps to zero. `lost` is the one less the other.
- `ExchangeConserves`, decisions that repeat the order: `confirm_exchange` takes the
  currency and the amount from the body of the operator's request, and
  `add_incoming_exchange` (`mod.rs:945`) credits them to the user without a look at
  the order, while `process_order` takes from the exchange wallet what the order
  says. If they differ, money is made or lost.
- `OrdersAreCovered`, withdrawals aside: `post_withdraw` looks at no balance in ETH and
  ERC20 (`hexstody-public/src/api/wallet.rs:329-360`), and in BTC at one that may be
  another when the update is applied. `NoOverdraft` is about BTC for this reason.
- `RunningBalance`, currencies of `Currency::supported()`: `process_order` enters
  the first amount sold of any other with `or_insert`, with the wrong sign.
- `SeesTheChain`, no double spends: a deposit that lost its coins is listed with
  negative confirmations, dropped by `to_update_event` and never canceled.
- `NothingIsMissed` and `DepositArrives`, the hot wallet does not stop: a poll
  clears the adapter's events before its reply has arrived.
- `NothingTooEarly` says that State has no more confirmations of a deposit than
  the chain gives, and nothing says that it ever has as many: a deposit that is
  confirmed is reported once, usually with one confirmation, so
  `finalized_balance` (more than three) does not count it however long it stays.
- `NothingTooEarly`, no reorganisations: a block that goes takes its confirmations
  back only with the next scan.
- `DepositsAreCredited`, operators who take turns or the address in State:
  `get_exchange_address` reads State and releases it before it allocates, so two
  operators can be given two addresses. `set_exchange_address` keeps the later one,
  and what is paid to the other is "Unknown deposit address" from then on. A
  cancellation of what had been paid to it is ignored as well.
- `DepositsAreCredited`, nothing is lost: the address is shown when its update is on
  the channel. If storing that update fails, or the hot wallet stops before it is
  applied, the user has an address that State does not know, and what he pays to
  it is credited to nobody.
- `RowsHaveUsers`, no lost calls or updates and no shared invite: `signup_email`
  has the adapter make the row first, and `createuser` refuses a row there is, so
  after a sign-up that failed half-way nobody can sign up by that name.
- `EnableRepairs`, a switch that nothing crosses: `disable_token` posts the
  disabled token in place of the others, `update_stage` writes back the token list
  it has read, and the update and the call to the adapter fail apart.
- `BalancesFollow`, an explorer that answers: `update_stage` unwraps, and the task
  is not started again.
- `EthPaymentIsMined`, not ERC20: `signsend_erc20` offers a lower price, so a
  payment in ETH that reads the same nonce replaces it after it was answered with
  success.
- `TickerIsDecoded`, an answer in full: `symbol_to_symbols_generic` replaces what
  is cached by what was missing and decodes only one of the two.
- `RatesNeverGoBack`, an answer in full: for the same reason.

## Fairness

- `FairPayoutSpec`: weak fairness of `update_worker`, of `update_results_worker`
  and of the adapter's answer: loops that tokio polls, and an HTTP call to a
  process that runs. Users and operators owe nothing.
- `FairSpec` of `Channels`: strong fairness of taking the mutex, which tokio
  grants first come, first served; weak fairness of every other step of a task.
- `AccountsSpec`: weak fairness of the refresh, a loop that sleeps and goes on, and
  of mining. Handlers, operators and users owe nothing.
- `RuntimeSpec`: weak fairness of the provider, which is asked to answer or to
  break the connection (the client sets no timeout: one that does neither keeps
  the mutex, and with it sign-in by key, for ever); strong fairness of taking the
  mutex, which tokio grants first come, first served.
- `FairScanSpec`: weak fairness of the scan, the poll (which has a timeout) and
  `update_worker`. The node owes nothing.

## What is proved

The theorems hold for every value of the constants that satisfies the named
assumptions of the modules. These say that sets over which the code counts are
finite, that bounds and capacities are numbers, and that a value standing for
`None`, `Err` or "idle" is none of the records it is absent from
(`NoRequestIsNone`, `IdleIsNoWithdrawal`, `FreeIsNobody`, `NoRowIsNone`,
`NoUserIsNone`, `AbortIsNoState`, `NoneIsAbsent`); in `Accounts`, that every name
has an invite of its own. Every property of a passing run is stated by a theorem,
but for those listed at the end.

What the values of the variables can be (`TypeOK`, `PayoutTypeOK`, `RuntimeTypeOK`) is
proved for all constants, so no run looks at it; in the other modules it is part
of the inductive invariant.

Each safety property follows from an inductive invariant of the specification.
What it adds, and why the property is not inductive alone:

- **The vote** (`WithdrawalProofs`, `TallyInv`). `TallyCorrect`: the induction
  goes over the weight of a vote, for an operator who changes sides moves the
  difference of the two lists by two. `QuorumCorrect` needs the tally before the
  vote that settles a request. `ThresholdCorrect` adds that a request with at
  most two voters is not past the threshold.
- **The table of updates** (`WithdrawalProofs`, `LogInv`, `ReplayInv`,
  `SerialInv`). `LogTypeCorrect`, `LogTallyCorrect`, `LogQuorumCorrect` and
  `LogThresholdCorrect` hold of `State` through any interleaving, equal stamps and
  restarts (the last, like `ThresholdCorrect`, of requests with at most two voters),
  although a restart may apply the updates in another order: every state `collect`
  goes through is one the vote could have reached
  (`ReplayExists` and the lemmas after it take the recursion of `collect` apart,
  by a least counterexample). `ReplayInOrder`: while the rows are ordered as they
  were applied, the restart gives back the current state, since a row is the last
  in both orders. `SerialReplay`, `SerialRestart` and `SerialVoting` assume
  `Serial`, one update under way and no equal stamps: then the rows are always in
  order, and the log implements `Withdrawal`, a restart being a stutter.
- **Payment** (`PayoutProofs`, `PayoutInv`). An approved request makes one
  `UpdateResult`; the invariant follows it through the queue, the hands of
  `update_results_worker`, the adapter and the queue of updates, where it is in
  one place at a time (`OneResult`, `OnePayment`). From it: `OnlyApprovedIsPaid`,
  `RejectedStaysUnpaid`, `ConfirmedStaysUnsent`, the action property
  `SettledForGood`, and the refinement `PayoutKeepsPromise`: initial states map to
  initial states of `PayoutPromise`, and each action to one of its actions or a
  stutter, for any number of requests.
- **The channels** (`ChannelsProofs`, `Inv`). `NoWaitForRoom`: `Outstanding` never
  exceeds `load`, and the owner of the mutex is where it says it is
  (`LockDiscipline`), without which a step of `btc_worker` could be counted as no
  load. The room is then arithmetic: whoever is about to send is counted in
  `Outstanding` besides the channel. `OnlyTwoDeadlocks` holds of any load: if no
  guard of a task's step holds and there is work to do, either `btc_worker`, or a
  handler with a new address, has State and waits for room in the channel of updates
  while `update_worker` waits for State, or `update_worker` has State and waits for
  room in the channel of results while `update_results_worker` waits for State or
  for room in the other channel. The guards are written out (`NoGuardHolds`) and
  shown to be what the steps need (`TasksNeedTheirGuards`).
  `NobodyEscapesADeadlock`: neither is ever left.
- **Limits** (`LimitsProofs`, `LimitsInv`). `CountsAreVotes`,
  `OpenChangeHasCurrency`, `SignedAsFiled` and the action property
  `TwoRaiseALimit`. The invariant adds what signatures are under way and that
  there is one change they can be for until a second is filed.
- **Balances** (`LedgerProofs`, `LedgerInv`). `RunningBalanceCorrect`,
  `ExchangeCreatesNoMoney`, `OrdersCovered`. Sums over maps come first: `SumFunction`
  takes elements by `CHOOSE`, and `SumSplits` shows that the order does not
  matter, so that `SumChanges` gives what a sum becomes when one entry is replaced.
  The invariant adds that an order on its way is a new one and that one in
  progress has not been paid out (`NewOrders`), or `process_order` could count it
  twice; that the deposits of the wallet are counted once each; and that, withdrawals
  aside, tokens are covered: with the sum of withdrawals, which is a natural number,
  that tells what a balance of zero stands for when the token is switched off.
  Amounts may be zero, and withdrawals in any currency and of any size.
- **The BTC scan** (`DepositProofs`, `ScanInv`). `StateSeesTheChain`,
  `NoDepositIsMissed`, `NoConfirmationComesTooEarly` and the action property
  `ConfirmationsNeverDrop`. What is inductive is not about `State` but about what it
  *will* see: the last word on a deposit in `updates \o events`, or what `State` has
  when nothing is on its way (`WillSee`), agrees with the branch the adapter has
  seen. A scan, a poll and `update_worker` move entries along that queue; only a
  scan adds to it. No entry of the queue is above the depth its block has by now.
- **Addresses** (`DepositProofs`, `AddressInv`). `PaymentsReachTheirPayee` needs
  that State and the channel have an address only for the account it was made for
  (`AddressesAreOwned`). `DepositsReachTheirAccount` needs the order of the
  channel: no report is before its address (`AddressesComeFirst`), exchange
  addresses come in the order they were made in (`ExchangeAddressesInOrder`), so
  that the one State has is the last when the channel is empty; an address that
  no later one replaces is in State or on its way (`AddressesAreKept`); and the
  last report of an output on the channel, or what the account has when there is
  none, is what was reported last (`ReportsAreCurrent`). `OperatorsTakeTurns` makes
  the address of the exchange one that is never replaced.
- **Accounts** (`AccountsProofs`, `AccountsInv`). `OneUserPerInvite` counts: users
  are as many as the invites used up. `UsersKeepTheirRows` needs that rows and what
  a refresh has read agree on addresses, and that a sign-up on its way has its row.
  `NoRowIsLeftBehind` needs, for undisturbed sign-ups, that an invite is used up by
  no one but its own name (`Entitled`), so that no sign-up fails when it is applied.
  `SwitchingOnRepairs` (`EnableRepairs`, from `RepairInv`) needs more: while a call
  of `enable_token` is calm, the one handler at work has the list of the tokens to
  come and no round of the refresh has an older one; once it has ended, nobody is at
  work and whatever a round has read is that list. The tokens to come are a fold
  over the queue of updates; a least counterexample shows that it is the union of
  what the user has and what is switched on (`IterIsUnion`, `UpcomingIsFuture`),
  and a token that `update_worker` applies moves from one to the other.
- **Rates and challenges** (`RuntimeProofs`, `RuntimeInv`). `FullAnswersDecode`,
  the action properties `ToldRatesAreNewer` and `OneSessionPerChallenge`. A request
  with the mutex asks for what the cache lacks and nobody can put it there; the
  refresh works without the mutex, and what it puts in the cache is no older than
  what is there, which nobody replaces in the meantime. `OneSessionPerChallenge` says
  of which user the session is, and that he has drawn no other challenge since and
  the hot wallet has not restarted: a challenge that is kept is of this run and the
  latest of its user.

Only model-checked:

- liveness, which TLAPS does not handle: `EverySettled`, `NobodyIsStuck`,
  `DepositArrives`, `BalancesFollow`, `EthPaymentIsMined`, `StaleRatesGo`,
  `EveryoneIsServed`;
- `StopsOnlyWhenFull`, which is about `ENABLED`; `OnlyTwoDeadlocks` proves the same
  of the guards of the steps;
- the three expected violations, which are counterexamples.

## What is not modelled

- Signatures: every signature is taken as valid and as its operator's or user's own.
  The code does not always check the latter: `redeem_challenge` calls
  `verify_signature(None, …)`, which does not compare the key with that of the user.
  `ChallengeOnce` is about the challenges alone.
- The cold wallet, HTTP clients and types, pages, test helpers: no state of their
  own that the rest depends on.
- Language, config, password and public key of a user: assignments of one field
  that no other step reads, but for signatures. Cookies.
- Of the ETH adapter, call data, amounts, histories and the older ways to send.
  The two nodes that `signsend` and `signsend_erc20` call are one network.
  Nobody calls `RuntimeState::symbol_to_symbols`, and the handler `remove_user`
  acts only under the flag for tests.
- In `Ledger`, outputs of `UserTxs` and `ExchangeTxs` pay addresses that State has:
  which those are is what `Addresses` is about, where in turn the amounts are left
  out. Addresses in ETH and of tokens are in `Accounts`; those of the exchange,
  which need a user of its name, are left out.
- `Ledger` has ETH as a token that nobody switches off: deposits in ETH and tokens are
  not in `State` either. Its run leaves out amounts of zero, which the code accepts
  and the proofs cover.
- `Payout` leaves out that switching off an ERC20 token removes its withdrawal
  requests (`hexstody-db/src/state/mod.rs:680`); `Ledger` has it.
- In `Limits` the fee that `post_withdraw` adds before it compares is left out
  (it asks for more than it sends). In `BtcScan` only deposits are followed, and
  `Reorg` lets the node be seen between two branches.
- In `EventLog` only withdrawal requests; a `Snapshot` is never written by the
  program.

## Plan

1. (done) Withdrawal, Payout, EventLog, Channels, Limits, Ledger, BtcScan; proofs
   of the vote and of the channels.
2. (done) `EthAdapter`, `Accounts`, `Runtime`; tokens switched off in `Ledger`,
   restarts in `Limits`.
3. (done) `Addresses`: deposit addresses of users and of the exchange, allocated by
   handlers at once, and the reports on them.
4. (done) Proofs of every invariant and action property that the passing runs
   check, but for those listed under "Only model-checked"; `PayoutPromise` and,
   for updates one at a time, the vote as what the log implements.
5. (done) Proofs about `Addresses`, and about the deadlocks of the channels.
6. Left: an abstract deposit account that `BtcScan`, `Addresses` and `Ledger` together
   implement.

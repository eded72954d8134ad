------------------------------- MODULE Ledger -------------------------------
(***************************************************************************)
(* The money of one user and of the exchange wallet, as State computes it. *)
(* A user's balance is the sum of deposits, withdrawals and exchange       *)
(* orders; the exchange wallet keeps a running balance.  Deposits arrive   *)
(* as UpdateBtcTx and CancelBtcTx, which the BTC adapter may repeat.  The  *)
(* handlers check the balance on a copy of the user and send an update,    *)
(* which update_worker applies when the balance may be another.            *)
(***************************************************************************)
EXTENDS Integers, FiniteSets, Functions

CONSTANTS UserTxs,       \* outputs that pay a deposit address of the user
          ExchangeTxs,   \* outputs that pay the exchange's address
          OrderIds,      \* exchange orders
          RequestIds,    \* withdrawals
          Tokens,        \* what else he holds, enabled for him at first: ERC20
                         \* tokens, and ETH as one that nobody switches off
          Supported,     \* those of Currency::supported(), BTC among them
          Amounts,       \* amounts of orders and withdrawals
          Fees,          \* fees of the node for a withdrawal
          Scenarios,     \* sets of what may happen besides, see Events
          None           \* an id not used yet, or a balance not kept yet

VARIABLES transactions,   \* of the user: how State sees each output
          deposits,       \* of the exchange wallet
          orders,         \* exchange_requests of the user
          incoming,       \* incoming_exchange_requests of the user, by order
          exchanges,      \* of the exchange wallet: completed orders
          balances,       \* running balance of the exchange wallet
          withdrawals,    \* withdrawal_requests of the user
          currencies,     \* of the user: those he has an entry for
          inbox,          \* updates of the user's handlers, not yet applied
          lost,           \* history: what went with an entry switched off, per token
          scenario        \* what may happen in this behaviour

ledgerVars ==
    <<transactions, deposits, orders, incoming, exchanges, balances, withdrawals,
      currencies, inbox, lost, scenario>>

(* What the exchange of one currency for another works on.                 *)
exchangeVars == <<orders, incoming, exchanges, balances, currencies, lost>>

(* reorg  : a deposit loses its confirmations, conflicts or is canceled    *)
(* switch : the user switches tokens off and on                            *)
(* altered: an operator signs other money than the order says              *)
Events == {"reorg", "switch", "altered"}

Currencies == {"BTC"} \union Tokens

ASSUME LedgerConstants ==
    /\ "BTC" \in Supported
    /\ Amounts \subseteq Nat
    /\ Fees \subseteq Nat
    /\ Scenarios \subseteq SUBSET Events
    /\ IsFiniteSet(UserTxs) /\ IsFiniteSet(ExchangeTxs)
    /\ IsFiniteSet(OrderIds) /\ IsFiniteSet(RequestIds)
    /\ "BTC" \notin Tokens

(* Every output is worth this much.                                        *)
Deposit == 2

-----------------------------------------------------------------------------
(* An output is absent, waits for its first block, conflicts with another  *)
(* transaction, or has more than 3 confirmations.                          *)
TxStates == {"absent", "unconfirmed", "conflicted", "finalized"}

OrderUpd(id, from, to, a, b) ==
    [ type |-> "order", id |-> id, currency_from |-> from, currency_to |-> to,
      amount_from |-> a, amount_to |-> b ]

Withdraw(id, c, a) == [ type |-> "withdraw", id |-> id, currency |-> c, amount |-> a ]

TokenUpdate(action, c) == [ type |-> action, id |-> c ]

ExchangeOrder ==
    [ currency_from : Currencies, currency_to : Currencies,
      amount_from : Amounts, amount_to : Amounts,
      status : {"InProgress", "Completed", "Rejected"} ]

IncomingOrder == [ currency : Currencies, amount : Amounts ]

WithdrawalRequest ==
    [ currency : Currencies, amount : Amounts, fee : Fees \union {0},
      status : {"open", "completed", "rejected"} ]

(* What is absent from a map, or has no balance yet: Option::None.         *)
ASSUME NoneIsAbsent == None \notin ExchangeOrder \union IncomingOrder \union WithdrawalRequest
                       /\ None \notin Int

Orders == { id \in OrderIds : orders[id] # None }

NotRejected == {"InProgress", "Completed"}

(* What orders of these statuses take out of currency c.                   *)
AmountFrom(statuses, c) ==
    SumFunction([id \in OrderIds |->
        IF id \in Orders /\ orders[id].status \in statuses /\ orders[id].currency_from = c
        THEN orders[id].amount_from ELSE 0])

Incoming(c) ==
    SumFunction([id \in OrderIds |->
        IF incoming[id] # None /\ incoming[id].currency = c THEN incoming[id].amount ELSE 0])

PendingWithdrawals(c) ==
    SumFunction([id \in RequestIds |->
        IF /\ withdrawals[id] # None
           /\ withdrawals[id].status # "rejected" /\ withdrawals[id].currency = c
        THEN withdrawals[id].amount + withdrawals[id].fee ELSE 0])

(* balance() counts the transactions in "unconfirmed" and "finalized",     *)
(* finalized_balance() the latter; Net is what they clamp at zero.         *)
Net(c, counted) ==
    Incoming(c) - AmountFrom(NotRejected, c) - PendingWithdrawals(c)
      + IF c = "BTC" THEN Deposit * Cardinality({ t \in UserTxs : transactions[t] \in counted })
                     ELSE 0

balance(c) == LET n == Net(c, {"unconfirmed", "finalized"}) IN IF n > 0 THEN n ELSE 0

finalized_balance(c) == LET n == Net(c, {"finalized"}) IN IF n > 0 THEN n ELSE 0

(* What the user owes in a token, which balance() shows as zero.           *)
Debt(c) == LET n == Net(c, {}) IN IF n < 0 THEN -n ELSE 0

-----------------------------------------------------------------------------
LedgerInit ==
    /\ transactions = [t \in UserTxs |-> "absent"]
    /\ deposits = [t \in ExchangeTxs |-> "absent"]
    /\ orders = [id \in OrderIds |-> None]
    /\ incoming = [id \in OrderIds |-> None]
    /\ exchanges = [id \in OrderIds |-> None]
    /\ balances = [c \in Currencies |-> IF c \in Supported THEN 0 ELSE None]
    /\ withdrawals = [id \in RequestIds |-> None]
    /\ currencies = Currencies
    /\ inbox = {}
    /\ lost = [c \in Tokens |-> 0]
    /\ scenario \in Scenarios

(* entry(c).and_modify(+ n).or_insert(m)                                   *)
Add(b, c, n, m) == [b EXCEPT ![c] = IF @ = None THEN m ELSE @ + n]

(* with_btc_tx_update and with_btc_tx_cancel, for the user.                *)
update_btc_tx(t, s) ==
    /\ s # "absent"
    /\ "reorg" \in scenario \/ (s # "conflicted" /\ transactions[t] # "finalized")
    /\ transactions' = [transactions EXCEPT ![t] = s]
    /\ UNCHANGED <<exchangeVars, deposits, withdrawals, inbox>>

user_cancel_btc_tx(t) ==
    /\ "reorg" \in scenario
    /\ transactions' = [transactions EXCEPT ![t] = "absent"]
    /\ UNCHANGED <<exchangeVars, deposits, withdrawals, inbox>>

(* Mutant: every update of a deposit is added.                             *)
process_incoming_btc_tx_again(t, s) ==
    /\ s # "absent"
    /\ deposits' = [deposits EXCEPT ![t] = s]
    /\ balances' = IF deposits[t] # s THEN Add(balances, "BTC", Deposit, Deposit)
                   ELSE balances
    /\ UNCHANGED <<transactions, orders, incoming, exchanges, withdrawals, currencies, inbox, lost>>

(* ... and for the exchange wallet, where an output counts as soon as it   *)
(* is seen.                                                                *)
process_incoming_btc_tx(t, s) ==
    /\ s # "absent"
    /\ deposits' = [deposits EXCEPT ![t] = s]
    /\ balances' = IF deposits[t] = "absent" THEN Add(balances, "BTC", Deposit, Deposit)
                   ELSE balances
    /\ UNCHANGED <<transactions, orders, incoming, exchanges, withdrawals, currencies, inbox, lost>>

cancel_btc_tx(t) ==
    /\ deposits' = [deposits EXCEPT ![t] = "absent"]
    /\ balances' = IF deposits[t] # "absent" THEN Add(balances, "BTC", -Deposit, -Deposit)
                   ELSE balances
    /\ UNCHANGED <<transactions, orders, incoming, exchanges, withdrawals, currencies, inbox, lost>>

-----------------------------------------------------------------------------
(* order_exchange: the balance is checked by the handler ...               *)
order_exchange(id, from, to, a, b) ==
    /\ orders[id] = None /\ exchanges[id] = None /\ \A u \in inbox : u.id # id
    /\ from \in currencies
    /\ balance(from) >= a
    /\ inbox' = inbox \union {OrderUpd(id, from, to, a, b)}
    /\ UNCHANGED <<exchangeVars, transactions, deposits, withdrawals>>

(* post_withdraw: ... in BTC with the fee the node estimates on top; in    *)
(* ETH and ERC20 neither the balance nor the entry is looked at.           *)
post_withdraw(id, c, a, fee) ==
    /\ withdrawals[id] = None /\ \A u \in inbox : u.id # id
    /\ c = "BTC" => a + fee <= finalized_balance(c)
    /\ inbox' = inbox \union {Withdraw(id, c, a)}
    /\ UNCHANGED <<exchangeVars, transactions, deposits, withdrawals>>

(* Mutant: the balance is not checked again.                               *)
add_exchange_request_unchecked(u) ==
    /\ u.type = "order"
    /\ inbox' = inbox \ {u}
    /\ u.currency_from \in currencies
    /\ orders' = [orders EXCEPT ![u.id] =
                    [ currency_from |-> u.currency_from, currency_to |-> u.currency_to,
                      amount_from |-> u.amount_from, amount_to |-> u.amount_to,
                      status |-> "InProgress" ]]
    /\ UNCHANGED <<transactions, deposits, incoming, exchanges, balances, withdrawals, currencies, lost>>

(* update_worker checks the balance again for an order ...                 *)
add_exchange_request(u) ==
    /\ u.type = "order"
    /\ inbox' = inbox \ {u}
    /\ u.currency_from \in currencies
    /\ balance(u.currency_from) >= u.amount_from
    /\ orders' = [orders EXCEPT ![u.id] =
                    [ currency_from |-> u.currency_from, currency_to |-> u.currency_to,
                      amount_from |-> u.amount_from, amount_to |-> u.amount_to,
                      status |-> "InProgress" ]]
    /\ UNCHANGED <<transactions, deposits, incoming, exchanges, balances, withdrawals, currencies, lost>>

(* ... and not for a withdrawal.                                           *)
with_new_withdrawal_request(u) ==
    /\ u.type = "withdraw"
    /\ inbox' = inbox \ {u}
    /\ u.currency \in currencies
    /\ withdrawals' = [withdrawals EXCEPT ![u.id] =
                         [ currency |-> u.currency, amount |-> u.amount, fee |-> 0,
                           status |-> "open" ]]
    /\ UNCHANGED <<exchangeVars, transactions, deposits>>

(* An update that fails or cannot be stored.                               *)
Fails(u) ==
    /\ inbox' = inbox \ {u}
    /\ UNCHANGED <<exchangeVars, transactions, deposits, withdrawals>>

-----------------------------------------------------------------------------
(* process_order                                                           *)
process_order(id) ==
    LET o == orders[id]
        b == Add(balances, o.currency_from, o.amount_from, o.amount_from)
    IN /\ exchanges' = [exchanges EXCEPT ![id] = o]
       /\ balances' = Add(b, o.currency_to, -o.amount_to, o.amount_to)

(* The money of a decision, which the operator API takes from its body:    *)
(* the page copies the order, and nothing compares the two.                *)
ExchangeDecisions(id) ==
    { req \in [ id : {id}, currency : Currencies, amount : Amounts ] :
        \/ "altered" \in scenario
        \/ req.currency = orders[id].currency_to /\ req.amount = orders[id].amount_to }

(* The user gets what the decision says, if he has the currency ...        *)
add_incoming_exchange(req) ==
    /\ req.currency \in currencies
    /\ incoming' = [incoming EXCEPT ![req.id] = [ currency |-> req.currency,
                                                  amount |-> req.amount ]]

(* ... and the exchange wallet what the order says.  One operator suffices *)
(* (EXCHANGE_NUMBER_OF_CONFIRMATIONS), so the counts of an order in        *)
(* progress are always zero.  When add_incoming_exchange fails so does the *)
(* whole update, and nothing of it is kept.                                *)
confirm_exchange(id) ==
    /\ id \in Orders
    /\ orders[id].currency_from \in currencies
    /\ orders[id].status = "InProgress"
    /\ orders' = [orders EXCEPT ![id].status = "Completed"]
    /\ process_order(id)
    /\ \E req \in ExchangeDecisions(id) : add_incoming_exchange(req)
    /\ UNCHANGED <<transactions, deposits, withdrawals, currencies, inbox, lost>>

reject_exchange(id) ==
    /\ id \in Orders
    /\ orders[id].status = "InProgress"
    /\ orders' = [orders EXCEPT ![id].status = "Rejected"]
    /\ UNCHANGED <<transactions, deposits, incoming, exchanges, balances, withdrawals, currencies, inbox, lost>>

(* The operator API checks the signature and sends the decision; it does   *)
(* not look at the order.                                                  *)
decide_exchange(id) == confirm_exchange(id) \/ reject_exchange(id)

-----------------------------------------------------------------------------
(* enable_token and disable_token send an update after a look at a copy.   *)
token_handler(c) ==
    /\ "switch" \in scenario
    /\ inbox' = inbox \union
                   { IF c \in currencies THEN TokenUpdate("disable", c)
                                         ELSE TokenUpdate("enable", c) }
    /\ c \in currencies => balance(c) = 0
    /\ UNCHANGED <<exchangeVars, transactions, deposits, withdrawals>>

enable(u) ==
    /\ u.type = "enable"
    /\ inbox' = inbox \ {u}
    /\ u.id \notin currencies
    /\ currencies' = currencies \union {u.id}
    /\ UNCHANGED <<transactions, deposits, orders, incoming, exchanges, balances,
                   withdrawals, lost>>

(* The entry goes with every order and withdrawal in it, with what came in *)
(* by orders of other currencies, and with the debt balance() does not     *)
(* show.                                                                   *)
remove_currency(c) ==
    /\ currencies' = currencies \ {c}
    /\ orders' = [id \in OrderIds |->
                     IF id \in Orders /\ orders[id].currency_from = c THEN None ELSE orders[id]]
    /\ incoming' = [id \in OrderIds |->
                       IF incoming[id] # None /\ incoming[id].currency = c THEN None
                       ELSE incoming[id]]
    /\ withdrawals' = [id \in RequestIds |->
                          IF withdrawals[id] # None /\ withdrawals[id].currency = c THEN None
                          ELSE withdrawals[id]]
    /\ lost' = [lost EXCEPT ![c] =
                   @ + AmountFrom({"InProgress"}, c) + PendingWithdrawals(c) - Debt(c)]
    /\ UNCHANGED <<transactions, deposits, exchanges, balances>>

(* Mutant: the balance is not looked at again.                             *)
disable_unchecked(u) ==
    /\ u.type = "disable"
    /\ inbox' = inbox \ {u}
    /\ u.id \in currencies
    /\ remove_currency(u.id)

(* update_tokens looks at the balance again; it is zero as well when all   *)
(* of it is in orders in progress or withdrawals, or more than that.       *)
disable(u) ==
    /\ u.type = "disable"
    /\ inbox' = inbox \ {u}
    /\ u.id \in currencies
    /\ balance(u.id) = 0
    /\ remove_currency(u.id)

-----------------------------------------------------------------------------
(* The node sends a withdrawal in BTC and charges a fee (nobody tells      *)
(* State of one in another currency), or a withdrawal is rejected.         *)
withdrawal_completed(id, fee) ==
    /\ withdrawals[id] # None
    /\ withdrawals[id].currency = "BTC"
    /\ withdrawals' = [withdrawals EXCEPT ![id].status = "completed", ![id].fee = fee]
    /\ UNCHANGED <<exchangeVars, transactions, deposits, inbox>>

withdrawal_rejected(id) ==
    /\ withdrawals[id] # None
    /\ withdrawals' = [withdrawals EXCEPT ![id].status = "rejected", ![id].fee = 0]
    /\ UNCHANGED <<exchangeVars, transactions, deposits, inbox>>

-----------------------------------------------------------------------------
LedgerNext ==
    /\ \/ \E t \in UserTxs : user_cancel_btc_tx(t) \/ \E s \in TxStates : update_btc_tx(t, s)
       \/ \E t \in ExchangeTxs :
             cancel_btc_tx(t) \/ \E s \in TxStates : process_incoming_btc_tx(t, s)
       \/ \E id \in OrderIds, from, to \in Currencies, a, b \in Amounts :
             order_exchange(id, from, to, a, b)
       \/ \E id \in RequestIds, c \in Currencies, a \in Amounts, fee \in Fees :
             post_withdraw(id, c, a, fee)
       \/ \E u \in inbox :
             \/ add_exchange_request(u) \/ with_new_withdrawal_request(u)
             \/ enable(u) \/ disable(u) \/ Fails(u)
       \/ \E c \in Tokens : token_handler(c)
       \/ \E id \in OrderIds : decide_exchange(id)
       \/ \E id \in RequestIds :
             withdrawal_rejected(id) \/ \E fee \in Fees : withdrawal_completed(id, fee)
    /\ UNCHANGED scenario

LedgerSpec == LedgerInit /\ [][LedgerNext]_ledgerVars

-----------------------------------------------------------------------------
(* What the completed orders have brought the exchange wallet in c.        *)
Earned(c) ==
    SumFunction([id \in OrderIds |->
        IF exchanges[id] # None /\ exchanges[id].currency_from = c
        THEN exchanges[id].amount_from ELSE 0])
    - SumFunction([id \in OrderIds |->
        IF exchanges[id] # None /\ exchanges[id].currency_to = c
        THEN exchanges[id].amount_to ELSE 0])

(* "We keep running balance, as to not calculate it each time": it is what *)
(* the deposits and the completed orders add up to, however often an       *)
(* output is updated, canceled and seen again.  Not so of a token that is  *)
(* not in Currency::supported(): or_insert gives the first amount that is  *)
(* sold of it the sign of one that is bought.                              *)
RunningBalance ==
    \A c \in Currencies \intersect Supported :
        LET paid == IF c = "BTC"
                    THEN Deposit * Cardinality({ t \in ExchangeTxs : deposits[t] # "absent" })
                    ELSE 0
        IN balances[c] = paid + Earned(c)

(* An exchange moves money between the user and the exchange wallet and    *)
(* makes none, when operators sign what the orders say: per token, what    *)
(* both have, with what is in orders in progress and in withdrawals, is    *)
(* nothing, or what went with the entry when the token was switched off.   *)
ExchangeConserves ==
    "altered" \notin scenario =>
        \A c \in Tokens \intersect Supported :
            Net(c, {"finalized"}) + PendingWithdrawals(c) + AmountFrom({"InProgress"}, c)
              + balances[c] + lost[c] = 0

(* InsufficientFunds is an error: nobody orders more than came in, with    *)
(* any number of orders on their way at a time, because update_worker      *)
(* looks at the balance again.  Withdrawals may take more (see             *)
(* NoOverdraft), and a deposit of BTC taken back later does too.           *)
OrdersAreCovered ==
    \A c \in Currencies :
        c # "BTC" \/ "reorg" \notin scenario
        => Net(c, {"unconfirmed", "finalized"}) + PendingWithdrawals(c) >= 0

(* "zero to prevent spreading overflow bug when in less then out": with    *)
(* deposits that are final, what went out in BTC is never more than came   *)
(* in.  (In ETH and ERC20 nothing is checked, and it is when one asks.)    *)
NoOverdraft ==
    "reorg" \notin scenario => Net("BTC", {"unconfirmed", "finalized"}) >= 0
=============================================================================

----------------------------- MODULE EthAdapter -----------------------------
(***************************************************************************)
(* hexstody-eth: the table users_eth, the loop that refreshes it from the  *)
(* block explorer, and the payments out of the users' accounts.            *)
(*                                                                         *)
(* A list of tokens is modelled as the number of times each token is in    *)
(* it, a list of balances by the tokens it has a balance of; amounts and   *)
(* histories are left out.  The two nodes that signsend and signsend_erc20 *)
(* talk to are one network with one pool of transactions, in which a       *)
(* transaction replaces another of the same nonce only at a higher price.  *)
(***************************************************************************)
EXTENDS Integers, FiniteSets, Sequences

CONSTANTS Names,       \* logins
          Tokens,      \* ERC20 tokens
          Payments,    \* calls of signsend and signsend_erc20
          NoRow,       \* no row of users_eth has this login
          NoPayment    \* no payment waits to be mined

VARIABLES users_eth,   \* the table, by login
          accounts,    \* accounts created on the node so far
          refresh,     \* update_stage: is it alive, and the rows it has read
          payment,     \* how far each payment has come
          pool,        \* the payment of an account that waits to be mined
          nonces       \* payments of an account that have been mined

table == <<users_eth, accounts>>
network == <<payment, pool, nonces>>
adapterVars == <<table, refresh, network>>

-----------------------------------------------------------------------------
(* A row, but for its login.                                               *)
UserEth ==
    [ address : Nat, tokens : [Tokens -> Nat], balanceTokens : [Tokens -> Nat] ]

ASSUME NoRowIsNone == IsFiniteSet(Tokens) /\ NoRow \notin UserEth

Nothing == [t \in Tokens |-> 0]

(* A list stored with pg_update_user_tokens that has each token of S once. *)
ListOf(S) == [t \in Tokens |-> IF t \in S THEN 1 ELSE 0]

Rows == { n \in Names : users_eth[n] # NoRow }

(* Mutant: the two prices are exchanged.                                   *)
gas_price_exchanged(asset) == IF asset = "ETH" THEN 1800 ELSE 45000

(* The gas_price of the two requests, in millions of wei.                  *)
gas_price(asset) == IF asset = "ETH" THEN 45000 ELSE 1800

AdapterInit ==
    /\ users_eth = [n \in Names |-> NoRow]
    /\ accounts = 0
    /\ refresh = [ alive |-> TRUE, read |-> <<>> ]
    /\ payment = [p \in Payments |-> [ stage |-> "new" ]]
    /\ pool = [n \in Names |-> NoPayment]
    /\ nonces = [n \in Names |-> 0]

-----------------------------------------------------------------------------
(* user_create: the node makes an account before the insert is known to    *)
(* succeed; login is the primary key of the table.                         *)
user_create(n) ==
    /\ accounts' = accounts + 1
    /\ users_eth' = IF n \in Rows THEN users_eth
                    ELSE [users_eth EXCEPT ![n] =
                            [ address |-> accounts', tokens |-> Nothing,
                              balanceTokens |-> Nothing ]]

(* tokens_post: an UPDATE, which is no error without a row.                *)
tokens_post(n, list) ==
    /\ users_eth' = IF n \in Rows
                    THEN [users_eth EXCEPT ![n] = [@ EXCEPT !.tokens = list]]
                    ELSE users_eth
    /\ UNCHANGED accounts

-----------------------------------------------------------------------------
(* update_stage reads all rows ...                                         *)
update_stage_reads ==
    /\ refresh.alive
    /\ DOMAIN refresh.read = {}
    /\ Rows # {}
    /\ refresh' = [ refresh EXCEPT !.read = [n \in Rows |-> users_eth[n]] ]
    /\ UNCHANGED <<table, network>>

Rest(n) == [m \in DOMAIN refresh.read \ {n} |-> refresh.read[m]]

(* Mutant: update_stage returns after the first user.                      *)
update_stage_writes_first(n) ==
    /\ refresh.alive
    /\ n \in DOMAIN refresh.read
    /\ users_eth' = [users_eth EXCEPT ![n] =
            [ refresh.read[n] EXCEPT !.balanceTokens = refresh.read[n].tokens ]]
    /\ refresh' = [ refresh EXCEPT !.read = <<>> ]
    /\ UNCHANGED <<accounts, network>>

(* ... and seconds later writes each back as a whole, with a balance for   *)
(* every token it had when it was read.                                    *)
update_stage_writes(n) ==
    /\ refresh.alive
    /\ n \in DOMAIN refresh.read
    /\ users_eth' = [users_eth EXCEPT ![n] =
            [ refresh.read[n] EXCEPT !.balanceTokens = refresh.read[n].tokens ]]
    /\ refresh' = [ refresh EXCEPT !.read = Rest(n) ]
    /\ UNCHANGED <<accounts, network>>

(* The explorer fails: unwrap ends the task, and nothing starts it again.  *)
update_stage_panics ==
    /\ refresh.alive
    /\ DOMAIN refresh.read # {}
    /\ refresh' = [ alive |-> FALSE, read |-> <<>> ]
    /\ UNCHANGED <<table, network>>

-----------------------------------------------------------------------------
(* signsend and signsend_erc20 ask for the number of transactions in       *)
(* mined blocks, and take it as nonce ...                                  *)
transaction_count(p, n, asset) ==
    /\ payment[p].stage = "new"
    /\ n \in Rows
    /\ payment' = [payment EXCEPT ![p] =
            [ stage |-> "counted", login |-> n, asset |-> asset, nonce |-> nonces[n] ]]
    /\ UNCHANGED <<table, refresh, pool, nonces>>

Cheaper(p, q) == gas_price(payment[p].asset) < gas_price(payment[q].asset)

(* Does the network take payment p?                                        *)
Takes(p) ==
    LET n == payment[p].login IN
    /\ payment[p].nonce = nonces[n]
    /\ pool[n] # NoPayment => Cheaper(pool[n], p)

(* ... sign with it and send: the network takes the transaction, perhaps   *)
(* in the place of another,                                                *)
send_raw_transaction(p) ==
    /\ payment[p].stage = "counted"
    /\ Takes(p)
    /\ LET n == payment[p].login IN
       /\ payment' = [q \in Payments |->
                        IF q = p THEN [ payment[q] EXCEPT !.stage = "taken" ]
                        ELSE IF q = pool[n] THEN [ payment[q] EXCEPT !.stage = "replaced" ]
                        ELSE payment[q]]
       /\ pool' = [pool EXCEPT ![n] = p]
    /\ UNCHANGED <<table, refresh, nonces>>

(* or signing or the network fails, and the answer is an error.            *)
send_refused(p) ==
    /\ payment[p].stage = "counted"
    /\ payment' = [payment EXCEPT ![p].stage = "refused"]
    /\ UNCHANGED <<table, refresh, pool, nonces>>

Mine(n) ==
    /\ pool[n] # NoPayment
    /\ payment' = [payment EXCEPT ![pool[n]].stage = "mined"]
    /\ pool' = [pool EXCEPT ![n] = NoPayment]
    /\ nonces' = [nonces EXCEPT ![n] = @ + 1]
    /\ UNCHANGED <<table, refresh>>

Pay ==
    \E p \in Payments :
        \/ \E n \in Names, asset \in {"ETH", "ERC20"} : transaction_count(p, n, asset)
        \/ send_raw_transaction(p)
        \/ send_refused(p)

-----------------------------------------------------------------------------
(* An ETH payment that signsend answered with success is mined in the end: *)
(* payments of one account that are sent before the one before is mined    *)
(* have the same nonce, and none of them outbids it.                       *)
EthPaymentIsMined ==
    \A p \in Payments :
        (payment[p].stage = "taken" /\ payment[p].asset = "ETH")
            ~> payment[p].stage = "mined"

=============================================================================

----------------------------- MODULE Addresses -----------------------------
(***************************************************************************)
(* Whose a deposit in bitcoin is.  The node makes a new address whenever a *)
(* user opens the deposit page, and when an operator asks where to pay in  *)
(* for the exchange.  The address is put on the channel of updates and     *)
(* then shown; what is paid to it is reported on the same channel, and     *)
(* update_worker looks for the account of the address in State.            *)
(*                                                                         *)
(* An address is its place in the order in which addresses were put on the *)
(* channel: nobody knows it before.                                        *)
(***************************************************************************)
EXTENDS Integers, Sequences, FiniteSets

CONSTANTS Users,
          Exchange,       \* the account of the exchange
          Outputs,        \* outputs of transactions, one payment each
          Operators,
          Depths,         \* numbers of confirmations that are told apart
          MaxAddresses,   \* bound: addresses the node makes
          MaxInbox,       \* bound: updates on the channel
          Mixes           \* which mishaps may happen together

VARIABLES deposit_info,       \* State: the deposit addresses of each user
          exchange_address,   \* State: the exchange's address, or NoAddress
          credited,           \* State: what each account knows of an output
          inbox,              \* the channel of updates, oldest first
          asking,             \* operators told that there is no address yet
          holders,            \* whom each address was made for
          pays,               \* the address an output pays, or NoAddress
          reported,           \* what was put last on the channel of an output
          mishaps             \* what can go wrong, never changed

addressState ==
    <<deposit_info, exchange_address, credited, inbox, asking, holders, pays, reported>>

addressVars == <<addressState, mishaps>>

(* An operator asks while an exchange address is on its way to State; the  *)
(* database refuses an update; the hot wallet stops.                       *)
Mishaps == {"asked too soon", "store fails", "hot wallet stops"}

NoAddress == 0

Unseen == -1

Accounts == Users \union {Exchange}

ASSUME AddressConstants ==
    /\ Exchange \notin Users
    /\ Depths \subseteq Nat
    /\ MaxAddresses \in Nat /\ MaxInbox \in Nat
    /\ Mixes \subseteq SUBSET Mishaps

-----------------------------------------------------------------------------
(* The updates: DepositAddress and ExchangeAddress, UpdateBtcTx and        *)
(* CancelBtcTx.                                                            *)
AddressOf(account, address) ==
    [ type |-> "Address", account |-> account, address |-> address ]

ReportOf(output, confirmations) ==
    [ type |-> "Report", output |-> output, confirmations |-> confirmations ]

ExchangeAddressQueued ==
    \E k \in DOMAIN inbox : inbox[k].type = "Address" /\ inbox[k].account = Exchange

-----------------------------------------------------------------------------
AddressInit ==
    /\ deposit_info = [u \in Users |-> {}]
    /\ exchange_address = NoAddress
    /\ credited = [account \in Accounts |-> [o \in Outputs |-> Unseen]]
    /\ inbox = <<>>
    /\ asking = {}
    /\ holders = <<>>
    /\ pays = [o \in Outputs |-> NoAddress]
    /\ reported = [o \in Outputs |-> Unseen]
    /\ mishaps \in Mixes

(* The node makes an address, and it is put on the channel.                *)
allocate_btc_address(account) ==
    /\ Len(holders) < MaxAddresses /\ Len(inbox) < MaxInbox
    /\ holders' = Append(holders, account)
    /\ inbox' = Append(inbox, AddressOf(account, Len(holders) + 1))
    /\ UNCHANGED <<deposit_info, exchange_address, credited, pays, reported>>

(* A user gets a new address each time: State is not looked at.            *)
get_deposit_address(user) ==
    /\ allocate_btc_address(user)
    /\ UNCHANGED asking

(* An operator is given the address in State, or finds that there is none. *)
(* When nothing is asked too soon, nobody else is being answered.          *)
get_exchange_address(operator) ==
    /\ operator \notin asking
    /\ exchange_address = NoAddress
    /\ "asked too soon" \in mishaps \/ (asking = {} /\ ~ ExchangeAddressQueued)
    /\ asking' = asking \union {operator}
    /\ UNCHANGED <<deposit_info, exchange_address, credited, inbox, holders, pays, reported>>

(* The answer, after State was unlocked: a new address, or an error.       *)
answer_operator(operator) ==
    /\ operator \in asking
    /\ \/ allocate_btc_address(Exchange)
       \/ UNCHANGED <<deposit_info, exchange_address, credited, inbox, holders, pays, reported>>
    /\ asking' = asking \ {operator}

(* Someone pays to an address that was shown.                              *)
Pay(output, address) ==
    /\ pays[output] = NoAddress
    /\ pays' = [pays EXCEPT ![output] = address]
    /\ UNCHANGED <<deposit_info, exchange_address, credited, inbox, asking, holders, reported>>

(* btc_worker: an output of the wallet is new, has more confirmations, or  *)
(* is gone.                                                                *)
process_btc_events(output, confirmations) ==
    /\ pays[output] # NoAddress
    /\ Len(inbox) < MaxInbox
    /\ inbox' = Append(inbox, ReportOf(output, confirmations))
    /\ reported' = [reported EXCEPT ![output] = confirmations]
    /\ UNCHANGED <<deposit_info, exchange_address, credited, asking, holders, pays>>

-----------------------------------------------------------------------------
(* Mutant: is_exchange_address forgets to compare.                         *)
OwnersOfAny(address) ==
    IF exchange_address # NoAddress THEN {Exchange}
    ELSE { u \in Users : address \in deposit_info[u] }

(* The accounts to choose from: is_exchange_address, and if it is not,     *)
(* find_user_address.                                                      *)
Owners(address) ==
    IF address = exchange_address THEN {Exchange}
    ELSE { u \in Users : address \in deposit_info[u] }

(* Mutant: a user keeps the last address only.                             *)
with_last_deposit_address(e) ==
    /\ e.type = "Address" /\ e.account # Exchange
    /\ deposit_info' = [deposit_info EXCEPT ![e.account] = {e.address}]
    /\ UNCHANGED <<exchange_address, credited>>

with_deposit_address(e) ==
    /\ e.type = "Address" /\ e.account # Exchange
    /\ deposit_info' = [deposit_info EXCEPT ![e.account] = @ \union {e.address}]
    /\ UNCHANGED <<exchange_address, credited>>

(* Whatever address there was is replaced.                                 *)
set_exchange_address(e) ==
    /\ e.type = "Address" /\ e.account = Exchange
    /\ exchange_address' = e.address
    /\ UNCHANGED <<deposit_info, credited>>

(* with_btc_tx_update and with_btc_tx_cancel: what is paid to an address   *)
(* that State does not know is left out.                                   *)
with_btc_tx(e) ==
    /\ e.type = "Report"
    /\ LET owners == Owners(pays[e.output])
       IN \/ owners = {} /\ UNCHANGED credited
          \/ \E account \in owners :
                credited' = [credited EXCEPT ![account][e.output] = e.confirmations]
    /\ UNCHANGED <<deposit_info, exchange_address>>

update_worker ==
    /\ inbox # <<>>
    /\ LET e == Head(inbox)
       IN with_deposit_address(e) \/ set_exchange_address(e) \/ with_btc_tx(e)
    /\ inbox' = Tail(inbox)
    /\ UNCHANGED <<asking, holders, pays, reported>>

(* insert_update fails, and the update is forgotten.                       *)
update_worker_drops ==
    /\ "store fails" \in mishaps
    /\ inbox # <<>>
    /\ inbox' = Tail(inbox)
    /\ UNCHANGED <<deposit_info, exchange_address, credited, asking, holders, pays, reported>>

(* State comes back from the table of updates; what was not in it is lost. *)
HotWalletRestarts ==
    /\ "hot wallet stops" \in mishaps
    /\ inbox' = <<>>
    /\ asking' = {}
    /\ UNCHANGED <<deposit_info, exchange_address, credited, holders, pays, reported>>

-----------------------------------------------------------------------------
AddressNext ==
    /\ \/ \E user \in Users : get_deposit_address(user)
       \/ \E operator \in Operators :
             get_exchange_address(operator) \/ answer_operator(operator)
       \/ \E output \in Outputs, address \in 1..Len(holders) : Pay(output, address)
       \/ \E output \in Outputs, confirmations \in Depths \union {Unseen} :
             process_btc_events(output, confirmations)
       \/ update_worker \/ update_worker_drops \/ HotWalletRestarts
    /\ UNCHANGED mishaps

AddressSpec == AddressInit /\ [][AddressNext]_addressVars

-----------------------------------------------------------------------------
(* What is paid to an address is credited to the account the address was   *)
(* made for, whatever is lost or replaced, and nothing else is credited.   *)
CreditedToPayee ==
    \A account \in Accounts, output \in Outputs :
        credited[account][output] # Unseen =>
            pays[output] # NoAddress /\ holders[pays[output]] = account

(* A report never overtakes the address it is about: when the channel is   *)
(* empty and nothing was lost, an account knows of every payment to its    *)
(* addresses what was reported last.  The exchange's account does for the  *)
(* address in State, and for every address if operators take turns: of two *)
(* addresses that are on their way at a time, State forgets the first.     *)
DepositsAreCredited ==
    inbox = <<>> /\ mishaps \subseteq {"asked too soon"} =>
        \A output \in Outputs :
            LET address == pays[output]
            IN /\ address # NoAddress
               /\ \/ holders[address] \in Users
                  \/ address = exchange_address
                  \/ "asked too soon" \notin mishaps
               => credited[holders[address]][output] = reported[output]
=============================================================================

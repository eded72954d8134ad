------------------------------- MODULE Limits -------------------------------
(***************************************************************************)
(* The spending limit of one user in one currency: the user asks for a new *)
(* limit, the operators decide on it, and withdrawals within the limit     *)
(* need no operator.  A handler looks at State, decides what to send, and  *)
(* sends it; update_worker applies it later, when State may have moved on. *)
(* The updates under way are a set: a handler may be held up between its   *)
(* look at State and the channel for any time.                             *)
(***************************************************************************)
EXTENDS Integers, FiniteSets

CONSTANTS Operators,     \* operator public keys
          Amounts,       \* amounts users ask a limit for or withdraw
          Spans,         \* spans of the limits users ask for, see LimitSpan
          Currencies,    \* the currency is one of these, see CurrencyKinds
          MaxRequests,   \* bound: limit changes filed
          MaxIds,        \* bound: ids given out
          MaxInbox,      \* bound: updates under way at a time
          MaxSpent,      \* bound: amount withdrawn under the limit in a span
          None           \* no limit change is open

VARIABLES currency,   \* which currency this is, never changed
          enabled,    \* the user has the currency
          limit,      \* limit_info.limit
          spent,      \* limit_info.spent
          change,     \* the open limit change request of the currency
          nextId,     \* the next id of a limit change
          filed,      \* limit changes filed so far
          inbox,      \* updates sent and not applied yet
          withdrawn   \* withdrawn under the limit since the span began

limitVars == <<currency, enabled, limit, spent, change, nextId, filed, inbox, withdrawn>>

(* Only a token is ever switched off and on; only BTC is paid under a      *)
(* limit.                                                                  *)
CurrencyKinds == {"BTC", "ERC20"}

LimitSpan == {"Day", "Week", "Month"}

ASSUME LimitsConstants ==
    /\ IsFiniteSet(Operators)
    /\ Amounts \subseteq Nat
    /\ Spans \subseteq LimitSpan
    /\ Currencies \subseteq CurrencyKinds
    /\ MaxRequests \in Nat /\ MaxIds \in Nat /\ MaxInbox \in Nat /\ MaxSpent \in Nat

Limit == [ amount : Amounts, span : Spans ]

DefaultLimit == [ amount |-> 0, span |-> "Day" ]

-----------------------------------------------------------------------------
(* The updates.  LimitChangeDecision carries the id and the limit of the   *)
(* request the operator has signed.                                        *)
LimitChangeUpd(l) == [ type |-> "request", limit |-> l ]

LimitCancelData(id) == [ type |-> "cancel", id |-> id ]

LimitChangeDecision(id, l, op, d) ==
    [ type |-> "decision", id |-> id, requested_limit |-> l, public_key |-> op,
      decision_type |-> d ]

WithdrawUnderLimit(a) == [ type |-> "withdraw", amount |-> a ]

TokenUpdate(action) == [ type |-> "token", action |-> action ]

has_signed(list, op) == \E d \in list : d.public_key = op

-----------------------------------------------------------------------------
LimitsInit ==
    /\ currency \in Currencies
    /\ enabled = TRUE
    /\ limit = DefaultLimit
    /\ spent = 0
    /\ change = None
    /\ nextId = 1 /\ filed = 0
    /\ inbox = {}
    /\ withdrawn = 0

(* What a handler finds in State lets it send update u.                    *)
Sends(u) ==
    /\ Cardinality(inbox) < MaxInbox
    /\ inbox' = inbox \union {u}
    /\ UNCHANGED <<enabled, limit, spent, change, nextId, filed, withdrawn>>

request_new_limits(l) == enabled /\ limit # l /\ Sends(LimitChangeUpd(l))

cancel_user_change == change # None /\ Sends(LimitCancelData(change.id))

(* Mutant: the operator signs the limit that is in force.                  *)
decide_current_limit(op, d) ==
    /\ change # None
    /\ Sends(LimitChangeDecision(change.id, limit, op, d))

(* confirm_limits, reject_limits: the operator signs what all_changes      *)
(* shows.                                                                  *)
decide_limits(op, d) ==
    /\ change # None
    /\ Sends(LimitChangeDecision(change.id, change.limit, op, d))

(* post_withdraw: the request is for no more than what is left.            *)
withdraw(a) == currency = "BTC" /\ limit.amount - spent >= a /\ Sends(WithdrawUnderLimit(a))

(* enable_token, disable_token: the balance, not modelled here, may be 0.  *)
update_tokens(action) ==
    /\ currency = "ERC20"
    /\ enabled = (action = "Disable")
    /\ Sends(TokenUpdate(action))

-----------------------------------------------------------------------------
(* update_worker applies u.                                                *)
Takes(u) == u \in inbox /\ inbox' = inbox \ {u}

(* An update that fails changes nothing.                                   *)
Fails(u) ==
    /\ Takes(u)
    /\ UNCHANGED <<enabled, limit, spent, change, nextId, filed, withdrawn>>

(* A new request replaces one that is open.                                *)
insert_limits_req(u) ==
    /\ u.type = "request" /\ enabled /\ Takes(u)
    /\ filed < MaxRequests /\ nextId <= MaxIds
    /\ change' = [ id |-> nextId, limit |-> u.limit, nconf |-> 0, nrej |-> 0,
                   confirmations |-> {}, rejections |-> {} ]
    /\ nextId' = nextId + 1
    /\ filed' = filed + 1
    /\ UNCHANGED <<enabled, limit, spent, withdrawn>>

(* Whatever request is open is the one that is canceled.                   *)
cancel_limit_change(u) ==
    /\ u.type = "cancel" /\ Takes(u)
    /\ change' = None
    /\ UNCHANGED <<enabled, limit, spent, nextId, filed, withdrawn>>

(* Mutant: an operator confirms as often as he likes.                      *)
confirm_limit_change_again(u) ==
    /\ u.type = "decision" /\ u.decision_type = "Confirm" /\ change # None
    /\ Takes(u)
    /\ IF change.nconf + 1 - change.nrej >= 2
       THEN /\ limit' = u.requested_limit
            /\ spent' = 0 /\ withdrawn' = 0
            /\ change' = None
       ELSE /\ change' = [ change EXCEPT !.nconf = @ + 1,
                                         !.confirmations = @ \union {u} ]
            /\ UNCHANGED <<limit, spent, withdrawn>>
    /\ UNCHANGED <<enabled, nextId, filed>>

(* The decision that makes the difference sets the limit it names.         *)
confirm_limit_change(u) ==
    /\ u.type = "decision" /\ u.decision_type = "Confirm" /\ change # None
    /\ ~has_signed(change.confirmations, u.public_key)
    /\ Takes(u)
    /\ IF change.nconf + 1 - change.nrej >= 2
       THEN /\ limit' = u.requested_limit
            /\ spent' = 0 /\ withdrawn' = 0
            /\ change' = None
       ELSE /\ change' = [ change EXCEPT !.nconf = @ + 1,
                                         !.confirmations = @ \union {u} ]
            /\ UNCHANGED <<limit, spent, withdrawn>>
    /\ UNCHANGED <<enabled, nextId, filed>>

(* Mutant: the list that was searched is not the list that is extended, as *)
(* in apply_exchange_decision.                                             *)
reject_limit_change_as_exchange(u) ==
    /\ u.type = "decision" /\ u.decision_type = "Reject" /\ change # None
    /\ ~has_signed(change.rejections, u.public_key)
    /\ Takes(u)
    /\ change' = IF change.nrej + 1 - change.nconf >= 2 THEN None
                 ELSE [ change EXCEPT !.nrej = @ + 1,
                                      !.confirmations = @ \union {u} ]
    /\ UNCHANGED <<enabled, limit, spent, nextId, filed, withdrawn>>

(* An operator who changes his mind is in both lists, and counts in both.  *)
reject_limit_change(u) ==
    /\ u.type = "decision" /\ u.decision_type = "Reject" /\ change # None
    /\ ~has_signed(change.rejections, u.public_key)
    /\ Takes(u)
    /\ change' = IF change.nrej + 1 - change.nconf >= 2 THEN None
                 ELSE [ change EXCEPT !.nrej = @ + 1,
                                      !.rejections = @ \union {u} ]
    /\ UNCHANGED <<enabled, limit, spent, nextId, filed, withdrawn>>

(* with_new_withdrawal_request: nothing adds to spent.                     *)
with_withdrawal_under_limit(u) ==
    /\ u.type = "withdraw" /\ Takes(u)
    /\ limit.amount >= spent + u.amount
    /\ withdrawn + u.amount <= MaxSpent
    /\ withdrawn' = withdrawn + u.amount
    /\ UNCHANGED <<enabled, limit, spent, change, nextId, filed>>

enable(u) ==
    /\ u.type = "token" /\ u.action = "Enable" /\ ~enabled /\ Takes(u)
    /\ enabled' = TRUE
    /\ limit' = DefaultLimit /\ spent' = 0 /\ withdrawn' = 0
    /\ UNCHANGED <<change, nextId, filed>>

(* Mutant: the limit change of the token stays.                            *)
disable_currency_only(u) ==
    /\ u.type = "token" /\ u.action = "Disable" /\ enabled /\ Takes(u)
    /\ enabled' = FALSE
    /\ UNCHANGED <<limit, spent, change, nextId, filed, withdrawn>>

disable(u) ==
    /\ u.type = "token" /\ u.action = "Disable" /\ enabled /\ Takes(u)
    /\ enabled' = FALSE
    /\ change' = None
    /\ UNCHANGED <<limit, spent, nextId, filed, withdrawn>>

(* The cron jobs of the hot wallet.                                        *)
clear_limits(span) ==
    /\ limit.span = span
    /\ spent' = 0 /\ withdrawn' = 0
    /\ UNCHANGED <<enabled, limit, change, nextId, filed, inbox>>

(* The hot wallet stops and reads its updates back.  insert_limits_req     *)
(* draws the id while it is applied, so the open change gets another one;  *)
(* the decisions are in the log with the id they were made on.             *)
Restart ==
    /\ nextId <= MaxIds
    /\ inbox' = {}
    /\ IF change = None THEN UNCHANGED <<change, nextId>>
       ELSE /\ change' = [change EXCEPT !.id = nextId]
            /\ nextId' = nextId + 1
    /\ UNCHANGED <<enabled, limit, spent, filed, withdrawn>>

-----------------------------------------------------------------------------
HandlerSends ==
    \/ \E l \in Limit : request_new_limits(l)
    \/ cancel_user_change
    \/ \E op \in Operators, d \in {"Confirm", "Reject"} : decide_limits(op, d)
    \/ \E a \in Amounts : withdraw(a)
    \/ \E action \in {"Enable", "Disable"} : update_tokens(action)

UpdateApplies(u) ==
    \/ insert_limits_req(u) \/ cancel_limit_change(u)
    \/ confirm_limit_change(u) \/ reject_limit_change(u)
    \/ with_withdrawal_under_limit(u)
    \/ enable(u) \/ disable(u)
    \/ Fails(u)

LimitsNext ==
    /\ \/ HandlerSends
       \/ \E u \in inbox : UpdateApplies(u)
       \/ \E span \in LimitSpan : clear_limits(span)
       \/ Restart
    /\ UNCHANGED currency

LimitsSpec == LimitsInit /\ [][LimitsNext]_limitVars

-----------------------------------------------------------------------------
(* The two counts of a limit change are the lengths of its two lists of    *)
(* signatures, nobody is twice in a list, and an open request is           *)
(* undecided: with_limit_change_decision settles it at once.               *)
VotesAreCounted ==
    change # None =>
      /\ change.nconf = Cardinality({ d.public_key : d \in change.confirmations })
      /\ change.nrej = Cardinality({ d.public_key : d \in change.rejections })
      /\ change.nconf - change.nrej \in -1..1

(* A limit is raised by at least two operators: those who have confirmed,  *)
(* with the one whose decision takes effect, are two more than those who   *)
(* have rejected.  Switching a token off and on takes the default back.    *)
LimitTakesTwo ==
    [][ limit' # limit /\ limit' # DefaultLimit =>
          \E u \in inbox \ inbox' :
             /\ u.decision_type = "Confirm"
             /\ Cardinality({ d.public_key : d \in change.confirmations \union {u} })
                  - Cardinality({ d.public_key : d \in change.rejections }) >= 2 ]_limitVars

(* all_changes of the operator API unwraps the currency of every open      *)
(* limit change: it has one, whatever tokens are switched off meanwhile.   *)
ChangeHasCurrency == change # None => enabled

(* What the operators have signed is the limit that is open, also after a  *)
(* restart that has given the request another id.  True only while no      *)
(* second request is filed: apply_update does not compare the id, and a    *)
(* late decision counts for the next request.                              *)
DecisionsAreForThisRequest ==
    change # None /\ filed <= 1 =>
        \A d \in change.confirmations \union change.rejections :
            d.requested_limit = change.limit

(* "The spending is over the limit" is an error: what is withdrawn without *)
(* the operators in a span stays within the limit.                         *)
SpendingWithinLimit == withdrawn <= limit.amount
=============================================================================

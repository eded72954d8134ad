------------------------------ MODULE Accounts ------------------------------
(***************************************************************************)
(* Users and their tokens in hexstody-db's State and in the table of the   *)
(* ETH adapter, and the handlers of hexstody-public that change the two:   *)
(* sign-up by invite, switching tokens on and off, deposit addresses.  A   *)
(* handler looks at a copy of State, calls the adapter, and sends an       *)
(* update; update_worker applies it later, or drops it.                    *)
(*                                                                         *)
(* A disturbance the code does not rule out happens only in the behaviours *)
(* whose mix names it, so that each property can say which ones it stands. *)
(***************************************************************************)
EXTENDS EthAdapter, SequencesExt

CONSTANTS Invites,       \* invite codes
          Own,           \* the invite each name signs up with, unless shared
          DefaultTokens, \* Currency::default_tokens
          Handlers,      \* requests the server works on at a time
          Scenarios,     \* what to look at, see Scenario
          MaxAsked,      \* bound: requests for an address under way at a time
          NoUser         \* State has no user of this name

VARIABLES scenario,   \* the disturbances and bounds of this behaviour
          users,      \* State.users
          invites,    \* State.invites
          issued,     \* invites ever generated
          updates,    \* updates queued for update_worker
          handler,    \* what each request is about to do
          requests,   \* requests so far
          mark        \* what the tokens of each name went through, see Crossed

stateVars == <<users, invites, issued, updates>>
serverVars == <<handler, requests, mark>>
vars == <<adapterVars, stateVars, serverVars, scenario>>

-----------------------------------------------------------------------------
(* share   : two names may be signed up with one invite                    *)
(* adapter : a call to the adapter fails, before or after it took effect   *)
(* store   : Postgres refuses an update, which update_worker drops         *)
(* toggle  : users switch tokens                                           *)
(* refresh : update_stage runs                                             *)
(* explorer: the block explorer may fail                                   *)
(* pay     : payments are made                                             *)
Disturbances == {"share", "adapter", "store", "toggle", "refresh", "explorer", "pay"}

(* names and requests are bounds: who signs up at all, and how many times  *)
(* somebody signs up or switches a token.                                  *)
Scenario == [ mix : SUBSET Disturbances, names : SUBSET Names, requests : Nat ]

mix == scenario.mix

ASSUME AccountsConstants ==
    /\ \A s \in Scenarios : s \in Scenario
    /\ DefaultTokens \subseteq Tokens
    /\ Own \in [Names -> Invites]
    /\ \A m, n \in Names : Own[m] = Own[n] => m = n

(* Of a user: the currencies with an entry, and the addresses in the entry *)
(* of ETH.                                                                 *)
UserInfo == [ currencies : SUBSET Tokens, deposit_info : SUBSET Nat ]

ASSUME NoUserIsNone == NoUser \notin UserInfo

Idle == [ at |-> "idle" ]

Users == { n \in Names : users[n] # NoUser }

Signup(n, i)             == [ tag |-> "signup", user |-> n, invite |-> i ]
UpdateTokens(n, t, act)  == [ tag |-> "tokens", user |-> n, token |-> t, action |-> act ]
DepositAddress(n, a)     == [ tag |-> "address", user |-> n, address |-> a ]

Busy(n) ==
    \/ \E h \in Handlers : handler[h] # Idle /\ handler[h].user = n
    \/ \E k \in DOMAIN updates : updates[k].user = n

-----------------------------------------------------------------------------
AccountsInit ==
    /\ AdapterInit
    /\ scenario \in Scenarios
    /\ users = [n \in Names |-> NoUser]
    /\ invites = {} /\ issued = {}
    /\ updates = <<>>
    /\ handler = [h \in Handlers |-> Idle]
    /\ requests = 0
    /\ mark = [n \in Names |-> "none"]

InviteAdded(i) ==
    /\ issued' = issued \union {i}
    /\ invites' = invites \union {i}

(* The operator's handler draws an id that State does not have, and        *)
(* nobody has the invite before its update is sent.                        *)
gen_invite(i) ==
    /\ i \notin issued
    /\ \E n \in scenario.names : i = Own[n]
    /\ InviteAdded(i)
    /\ UNCHANGED <<adapterVars, users, updates, serverVars>>

Starts(h, next) ==
    /\ handler[h] = Idle
    /\ requests < scenario.requests
    /\ requests' = requests + 1
    /\ handler' = [handler EXCEPT ![h] = next]

Goes(h, next) == handler' = [handler EXCEPT ![h] = next] /\ UNCHANGED requests

(* Mutant: the invite is looked at only when the update is applied.        *)
signup_checks_name(h, n, i) ==
    /\ n \notin Users
    /\ i = Own[n] \/ "share" \in mix
    /\ Starts(h, [ at |-> "createuser", user |-> n, invite |-> i ])
    /\ UNCHANGED <<adapterVars, stateVars, mark>>

(* signup_email looks at users and invites ...                             *)
signup_checks(h, n, i) ==
    /\ n \notin Users
    /\ i \in invites
    /\ i = Own[n] \/ "share" \in mix
    /\ Starts(h, [ at |-> "createuser", user |-> n, invite |-> i ])
    /\ UNCHANGED <<adapterVars, stateVars, mark>>

(* ... has the adapter make an account and a row; createuser fails if      *)
(* there is a row, and is an error to the user then,                       *)
signup_createuser(h) ==
    /\ handler[h].at = "createuser"
    /\ user_create(handler[h].user)
    /\ \/ handler[h].user \notin Rows /\ Goes(h, [ handler[h] EXCEPT !.at = "default tokens" ])
       \/ (handler[h].user \in Rows \/ "adapter" \in mix) /\ Goes(h, Idle)
    /\ UNCHANGED <<refresh, network, stateVars, mark>>

signup_default_tokens(h) ==
    /\ handler[h].at = "default tokens"
    /\ tokens_post(handler[h].user, ListOf(DefaultTokens))
    /\ \/ Goes(h, [ handler[h] EXCEPT !.at = "signup" ])
       \/ "adapter" \in mix /\ Goes(h, Idle)
    /\ UNCHANGED <<refresh, network, stateVars, mark>>

(* ... and sends the update.                                               *)
signup_sends(h) ==
    /\ handler[h].at = "signup"
    /\ updates' = Append(updates, Signup(handler[h].user, handler[h].invite))
    /\ Goes(h, Idle)
    /\ UNCHANGED <<adapterVars, users, invites, issued, mark>>

(* Mutant: the sign-up goes on without the adapter.                        *)
call_fails_ignored(h) ==
    /\ "adapter" \in mix
    /\ handler[h].at \in {"createuser", "default tokens", "tokens"}
    /\ IF handler[h].at = "tokens" THEN Goes(h, Idle)
       ELSE Goes(h, [ handler[h] EXCEPT !.at = "signup" ])
    /\ mark' = [mark EXCEPT ![handler[h].user] = "crossed"]
    /\ UNCHANGED <<adapterVars, stateVars>>

(* A call that did not reach the adapter.                                  *)
call_fails(h) ==
    /\ "adapter" \in mix
    /\ handler[h].at \in {"createuser", "default tokens", "tokens"}
    /\ Goes(h, Idle)
    /\ mark' = [mark EXCEPT ![handler[h].user] = "crossed"]
    /\ UNCHANGED <<adapterVars, stateVars>>

-----------------------------------------------------------------------------
(* mark follows the last switch of a name's tokens.  It is                 *)
(*   calm     while a token is being switched on and nothing else is under *)
(*            way for that name, in the server, the queue or the refresh;  *)
(*   agreed   once such a call has come to its end;                        *)
(*   crossed  otherwise.                                                   *)
Calm(n) == ~Busy(n) /\ n \notin DOMAIN refresh.read

(* Mutant: only the token switched on is posted.                           *)
enabled_list_new_only(n, t) == ListOf({t})

(* The user's tokens as the handler's copy has them, and the new one.      *)
enabled_list(n, t) == ListOf(users[n].currencies \union {t})

(* The token switched off is posted once for each of the others.           *)
disabled_list(n, t) ==
    [ u \in Tokens |-> IF u = t THEN Cardinality(users[n].currencies \ {t}) ELSE 0 ]

(* enable_token and disable_token look at a copy of the user, send the     *)
(* update, and are about to post the list they make from the copy.  The    *)
(* balance of the user is taken as zero.                                   *)
enable_token(h, n, t) ==
    /\ "toggle" \in mix
    /\ n \in Users
    /\ t \notin users[n].currencies
    /\ Starts(h, [ at |-> "tokens", user |-> n, list |-> enabled_list(n, t) ])
    /\ updates' = Append(updates, UpdateTokens(n, t, "Enable"))
    /\ mark' = [mark EXCEPT ![n] = IF Calm(n) THEN "calm" ELSE "crossed"]
    /\ UNCHANGED <<adapterVars, users, invites, issued>>

disable_token(h, n, t) ==
    /\ "toggle" \in mix
    /\ n \in Users
    /\ t \in users[n].currencies
    /\ Starts(h, [ at |-> "tokens", user |-> n, list |-> disabled_list(n, t) ])
    /\ updates' = Append(updates, UpdateTokens(n, t, "Disable"))
    /\ mark' = [mark EXCEPT ![n] = "crossed"]
    /\ UNCHANGED <<adapterVars, users, invites, issued>>

post_tokens(h) ==
    /\ handler[h].at = "tokens"
    /\ tokens_post(handler[h].user, handler[h].list)
    /\ Goes(h, Idle)
    /\ mark' = [mark EXCEPT ![handler[h].user] = IF @ = "calm" THEN "agreed" ELSE "crossed"]
    /\ UNCHANGED <<refresh, network, stateVars>>

(* get_deposit_address for ETH holds State while it asks the adapter for   *)
(* the address of the row and while it sends, so it is one step; another   *)
(* one may come before the update is applied.                              *)
get_deposit_address(n) ==
    /\ n \in Users
    /\ users[n].deposit_info = {}
    /\ Cardinality({ k \in DOMAIN updates : updates[k].tag = "address" }) < MaxAsked
    /\ updates' = Append(updates, DepositAddress(n, users_eth[n].address))
    /\ UNCHANGED <<adapterVars, users, invites, issued, serverVars>>

-----------------------------------------------------------------------------
(* Mutant: the invite is not looked up again.                              *)
AcceptedByName(u) ==
    CASE u.tag = "signup"  -> u.user \notin Users
      [] u.tag = "tokens"  -> u.user \in Users
      [] u.tag = "address" -> u.user \in Users

(* Does apply_update succeed?                                              *)
Accepted(u) ==
    CASE u.tag = "signup"  -> u.user \notin Users /\ u.invite \in invites
      [] u.tag = "tokens"  -> /\ u.user \in Users
                              /\ (u.action = "Enable") = (u.token \notin users[u.user].currencies)
      [] u.tag = "address" -> u.user \in Users /\ u.address \notin users[u.user].deposit_info

Applied(u) ==
    CASE u.tag = "signup"  -> [ currencies |-> DefaultTokens, deposit_info |-> {} ]
      [] u.tag = "tokens"  -> [ users[u.user] EXCEPT !.currencies =
                                  IF u.action = "Enable" THEN @ \union {u.token}
                                                         ELSE @ \ {u.token} ]
      [] u.tag = "address" -> [ users[u.user] EXCEPT !.deposit_info = @ \union {u.address} ]

UpdateApplied ==
    /\ updates # <<>>
    /\ updates' = Tail(updates)
    /\ Accepted(Head(updates))
    /\ users' = [users EXCEPT ![Head(updates).user] = Applied(Head(updates))]
    /\ invites' = IF Head(updates).tag = "signup" THEN invites \ {Head(updates).invite}
                                                  ELSE invites
    /\ UNCHANGED <<adapterVars, issued, serverVars>>

UpdateDropped ==
    /\ updates # <<>>
    /\ updates' = Tail(updates)
    /\ ~Accepted(Head(updates)) \/ "store" \in mix
    /\ mark' = IF Head(updates).tag = "tokens"
               THEN [mark EXCEPT ![Head(updates).user] = "crossed"] ELSE mark
    /\ UNCHANGED <<adapterVars, users, invites, issued, handler, requests>>

(* A round of the refresh that begins while a list is about to be posted   *)
(* writes the old one back.                                                *)
RefreshBegins ==
    /\ "refresh" \in mix
    /\ update_stage_reads
    /\ mark' = [n \in Names |-> IF mark[n] = "calm" THEN "crossed" ELSE mark[n]]
    /\ UNCHANGED <<stateVars, handler, requests>>

RefreshGoesOn ==
    /\ \/ \E n \in Names : update_stage_writes(n)
       \/ "explorer" \in mix /\ update_stage_panics
    /\ UNCHANGED <<stateVars, serverVars>>

Requests(h) ==
    \E n \in scenario.names :
        \/ \E i \in Invites : signup_checks(h, n, i)
        \/ \E t \in Tokens : enable_token(h, n, t) \/ disable_token(h, n, t)

Server(h) ==
    \/ signup_createuser(h)
    \/ signup_default_tokens(h)
    \/ signup_sends(h)
    \/ post_tokens(h)

AccountsNext ==
    /\ UNCHANGED scenario
    /\ \/ \E i \in Invites : gen_invite(i)
       \/ \E h \in Handlers : Requests(h) \/ Server(h) \/ call_fails(h)
       \/ \E n \in Names : get_deposit_address(n)
       \/ UpdateApplied
       \/ UpdateDropped
       \/ RefreshBegins
       \/ RefreshGoesOn
       \/ /\ "pay" \in mix
          /\ Pay \/ \E n \in Names : Mine(n)
          /\ UNCHANGED <<stateVars, serverVars>>

(* The refresh is a loop that sleeps and goes on, the server's tasks run,  *)
(* and the network mines.                                                  *)
AccountsSpec ==
    /\ AccountsInit
    /\ [][AccountsNext]_vars
    /\ WF_<<adapterVars, stateVars, serverVars>>(RefreshBegins /\ UNCHANGED scenario)
    /\ WF_<<adapterVars, stateVars, serverVars>>(RefreshGoesOn /\ UNCHANGED scenario)
    /\ \A n \in Names :
          WF_<<adapterVars, stateVars, serverVars>>(
             Mine(n) /\ UNCHANGED <<stateVars, serverVars, scenario>>)

-----------------------------------------------------------------------------
(* Each invite lets in one user: however many sign-ups with it the         *)
(* handlers have let pass, the users are as many as the invites used up.   *)
InviteAdmitsOne == Cardinality(Users) = Cardinality(issued \ invites)

(* Every user has a row and so an account of his own at the adapter,       *)
(* whatever calls fail and updates are lost; get_deposit_address and the   *)
(* payments rely on it.  His list of ETH addresses never holds any but     *)
(* that of the account, though two requests may both find it empty.        *)
UsersHaveRows ==
    /\ Users \subseteq Rows
    /\ \A m, n \in Rows : m # n => users_eth[m].address # users_eth[n].address
    /\ \A n \in Users : users[n].deposit_info \subseteq {users_eth[n].address}

(* A name is taken at the adapter only by a user or a sign-up under way.   *)
(* With a lost call or update, or with an invite used for two names, a row *)
(* stays behind without a user, and nobody can sign up by that name again. *)
RowsHaveUsers ==
    mix \intersect {"share", "adapter", "store"} = {} =>
        \A n \in Rows : n \in Users \/ Busy(n)

(* The tokens of a user once the updates queued are applied.               *)
Upcoming(n) ==
    LET step(S, u) == IF u.tag # "tokens" \/ u.user # n THEN S
                      ELSE IF u.action = "Enable" THEN S \union {u.token} ELSE S \ {u.token}
    IN FoldLeft(step, users[n].currencies, updates)

(* A token switched on while nothing else is under way for the user leaves *)
(* the adapter with the tokens State has, each once, whatever lost calls,  *)
(* lost updates, crossing requests, refreshes and lists wrongly posted by  *)
(* disable_token came before, and it stays so through the refreshes.       *)
EnableRepairs ==
    \A n \in Names :
        mark[n] = "agreed" => users_eth[n].tokens = ListOf(Upcoming(n))

(* The balances of a row are those of its tokens again and again, as long  *)
(* as the explorer answers: whoever posts what in the middle of a round,   *)
(* the refresh catches up.                                                 *)
BalancesFollow ==
    "refresh" \in mix /\ "explorer" \notin mix =>
        []<>(\A n \in Rows : users_eth[n].balanceTokens = users_eth[n].tokens)
=============================================================================

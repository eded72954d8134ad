------------------------------ MODULE Runtime ------------------------------
(***************************************************************************)
(* RuntimeState: the cache of exchange rates and the challenges of users   *)
(* who sign in with a key, behind one mutex that is lost with the process. *)
(* A handler that misses the cache keeps the mutex while it asks the       *)
(* provider of rates; ticker_worker asks without it and then replaces the  *)
(* whole cache.                                                            *)
(*                                                                         *)
(* A rate is modelled by when it was true: the provider's clock is the     *)
(* number of times that all rates have changed.                            *)
(***************************************************************************)
EXTENDS Integers, FiniteSets, Functions

CONSTANTS Clients,        \* requests the server works on at a time
          From,           \* symbols that rates are asked of
          Other,          \* symbols asked for besides the two of TickerETH
          Users,          \* users of State
          MaxRate,        \* bound: changes of the rates
          MaxChallenges,  \* bound: challenges drawn (fresh UUIDs)
          Scenarios,      \* what happens and goes wrong, see Kinds
          Free            \* nobody holds the mutex

VARIABLES kinds,           \* what happens in this behaviour
          now,             \* the provider's clock
          cached_tickers,  \* RuntimeState
          challenges,      \* RuntimeState
          holder,          \* the request that holds the mutex
          client,          \* what each request is about to do
          worker,          \* ticker_worker
          given,           \* whom each challenge was drawn for
          opened,          \* how often each opened a session of each user
          expired,         \* the challenges drawn before the last restart
          served           \* newest rate a client was told of each pair

runtime == <<cached_tickers, challenges, holder>>
history == <<given, opened, expired, served>>
state == <<now, runtime, client, worker, history>>
vars == <<state, kinds>>

-----------------------------------------------------------------------------
(* partial : an answer of the provider may lack some symbols asked for     *)
(* error   : a request to the provider may fail, again and again           *)
(* change  : rates change                                                  *)
(* keys    : users sign in with keys                                       *)
Kinds == {"partial", "error", "change", "keys"}

ASSUME RuntimeConstants ==
    /\ Scenarios \subseteq SUBSET Kinds
    /\ MaxRate \in Nat /\ MaxChallenges \in Nat

(* The holder of the mutex is a request or nobody.                         *)
ASSUME FreeIsNobody == Free \notin Clients

(* The fields of TickerETH.                                                *)
TickerETH == {"USD", "RUB"}

To == TickerETH \union Other

Tickers == UNION { [S -> 0..MaxRate] : S \in SUBSET To }

Challenges == 1..MaxChallenges

Idle(outcome) == [ at |-> "idle", outcome |-> outcome ]

(* Requests, and who gets them.                                            *)
Ticker(from)         == [ at |-> "ticker", from |-> from ]
Pair(from, to)       == [ at |-> "pair", from |-> from, to |-> to ]
GetChallenge(u)      == [ at |-> "get challenge", user |-> u ]
Redeem(u, challenge) == [ at |-> "redeem", user |-> u, challenge |-> challenge ]

Sleeping == [ at |-> "sleeping" ]

Empty == [x \in {} |-> 0]

-----------------------------------------------------------------------------
RuntimeInit ==
    /\ kinds \in Scenarios
    /\ now = 0
    /\ cached_tickers = Empty
    /\ challenges = Empty
    /\ holder = Free
    /\ client = [c \in Clients |-> Idle("none")]
    /\ worker = Sleeping
    /\ given = Empty
    /\ opened = [k \in Challenges |-> [u \in Users |-> 0]]
    /\ expired = {}
    /\ served = [p \in From \X To |-> 0]

RatesChange ==
    /\ "change" \in kinds
    /\ now < MaxRate
    /\ now' = now + 1
    /\ UNCHANGED <<runtime, client, worker, history>>

Request(c, r) ==
    /\ client[c].at = "idle"
    /\ client' = [client EXCEPT ![c] = r]
    /\ UNCHANGED <<now, runtime, worker, history>>

(* What the cache has of the rates of a symbol.                            *)
Submap(from) == IF from \in DOMAIN cached_tickers THEN cached_tickers[from] ELSE Empty

Wanted(r) == IF r.at = "ticker" THEN TickerETH ELSE {r.to}

Missing(r) == Wanted(r) \ DOMAIN Submap(r.from)

(* The client gets rates of some of the symbols.                           *)
Tells(from, vals) ==
    served' = [p \in From \X To |-> IF p[1] = from /\ p[2] \in DOMAIN vals
                                    THEN vals[p[2]] ELSE served[p]]

Answer(c, outcome) == client' = [client EXCEPT ![c] = Idle(outcome)]

-----------------------------------------------------------------------------
(* All the rates are in the cache.                                         *)
cache_hit(c) ==
    /\ client[c].at \in {"ticker", "pair"}
    /\ holder = Free
    /\ Missing(client[c]) = {}
    /\ Tells(client[c].from, Restrict(Submap(client[c].from), Wanted(client[c])))
    /\ Answer(c, "ok")
    /\ UNCHANGED <<now, runtime, worker, given, opened, expired>>

(* Mutant: the mutex is given back for the time of the request.            *)
cache_miss_unlocked(c) ==
    /\ client[c].at \in {"ticker", "pair"}
    /\ holder = Free
    /\ Missing(client[c]) # {}
    /\ client' = [client EXCEPT ![c] =
            [ at |-> "asking", for |-> client[c], symbols |-> Missing(client[c]), since |-> now ]]
    /\ UNCHANGED <<now, runtime, worker, history>>

(* Some are missing: the provider is asked for those, with the mutex held. *)
cache_miss(c) ==
    /\ client[c].at \in {"ticker", "pair"}
    /\ holder = Free
    /\ Missing(client[c]) # {}
    /\ holder' = c
    /\ client' = [client EXCEPT ![c] =
            [ at |-> "asking", for |-> client[c], symbols |-> Missing(client[c]), since |-> now ]]
    /\ UNCHANGED <<now, cached_tickers, challenges, worker, history>>

(* The symbols an answer may have, and how old its rates may be.           *)
Answers(symbols, since) ==
    UNION { [S -> {r}] : S \in IF "partial" \in kinds THEN SUBSET symbols ELSE {symbols},
                         r \in since..now }

(* Mutant: the request is made again until the answer can be decoded.      *)
ticker_reply_retries(c) ==
    /\ client[c].at = "asking"
    /\ client[c].for.at = "ticker"
    /\ holder' = Free
    /\ \E vals \in Answers(client[c].symbols, client[c].since) :
          /\ cached_tickers' = [f \in DOMAIN cached_tickers \union {client[c].for.from} |->
                                  IF f = client[c].for.from THEN vals ELSE cached_tickers[f]]
          /\ IF TickerETH \subseteq DOMAIN vals
             THEN Answer(c, "ok") /\ Tells(client[c].for.from, vals)
             ELSE client' = [client EXCEPT ![c] = client[c].for] /\ UNCHANGED served
    /\ UNCHANGED <<now, challenges, worker, given, opened, expired>>

(* symbol_to_symbols_generic puts the answer in the place of what it had   *)
(* of the symbol, and decodes the answer alone.                            *)
ticker_reply(c) ==
    /\ client[c].at = "asking"
    /\ client[c].for.at = "ticker"
    /\ holder' = Free
    /\ \E vals \in Answers(client[c].symbols, client[c].since) :
          /\ cached_tickers' = [f \in DOMAIN cached_tickers \union {client[c].for.from} |->
                                  IF f = client[c].for.from THEN vals ELSE cached_tickers[f]]
          /\ IF TickerETH \subseteq DOMAIN vals
             THEN Answer(c, "ok") /\ Tells(client[c].for.from, vals)
             ELSE Answer(c, "undecodable") /\ UNCHANGED served
    /\ UNCHANGED <<now, challenges, worker, given, opened, expired>>

(* Mutant: a symbol that is not tracked is, from now on.                   *)
WithRateTracked(from, to, rate) ==
    [ f \in DOMAIN cached_tickers \union {from} |->
        IF f = from THEN [t \in DOMAIN Submap(f) \union {to} |->
                            IF t = to THEN rate ELSE Submap(f)[t]]
        ELSE cached_tickers[f] ]

(* Entry::and_modify: only what is tracked takes the rate.                 *)
WithRate(from, to, rate) ==
    [ f \in DOMAIN cached_tickers |->
        IF f = from THEN [t \in DOMAIN cached_tickers[f] \union {to} |->
                            IF t = to THEN rate ELSE cached_tickers[f][t]]
        ELSE cached_tickers[f] ]

pair_reply(c) ==
    /\ client[c].at = "asking"
    /\ client[c].for.at = "pair"
    /\ holder' = Free
    /\ LET from == client[c].for.from
           to == client[c].for.to
       IN \E vals \in Answers({to}, client[c].since) :
             IF to \in DOMAIN vals
             THEN /\ cached_tickers' = WithRate(from, to, vals[to])
                  /\ Answer(c, "ok") /\ Tells(from, vals)
             ELSE Answer(c, "error") /\ UNCHANGED <<cached_tickers, served>>
    /\ UNCHANGED <<now, challenges, worker, given, opened, expired>>

provider_fails(c) ==
    /\ "error" \in kinds
    /\ client[c].at = "asking"
    /\ holder' = Free
    /\ Answer(c, "error")
    /\ UNCHANGED <<now, cached_tickers, challenges, worker, history>>

-----------------------------------------------------------------------------
(* The challenge of a user replaces the one he had.                        *)
get_challenge(c) ==
    /\ client[c].at = "get challenge"
    /\ holder = Free
    /\ LET k == Cardinality(DOMAIN given) + 1 IN
       /\ challenges' = [u \in DOMAIN challenges \union {client[c].user} |->
                           IF u = client[c].user THEN k ELSE challenges[u]]
       /\ given' = [j \in 1..k |-> IF j = k THEN client[c].user ELSE given[j]]
    /\ Answer(c, "ok")
    /\ UNCHANGED <<now, cached_tickers, holder, worker, opened, expired, served>>

Redeems(r) == r.user \in DOMAIN challenges /\ challenges[r.user] = r.challenge

(* Mutant: the challenge is good until the next one.                       *)
redeem_challenge_keeps(c) ==
    /\ client[c].at = "redeem"
    /\ holder = Free
    /\ opened' = IF Redeems(client[c])
                 THEN [opened EXCEPT ![client[c].challenge][client[c].user] = @ + 1]
                 ELSE opened
    /\ Answer(c, IF Redeems(client[c]) THEN "ok" ELSE "error")
    /\ UNCHANGED <<now, runtime, worker, given, expired, served>>

(* A signed challenge opens a session if it is the user's, and is removed. *)
redeem_challenge(c) ==
    /\ client[c].at = "redeem"
    /\ holder = Free
    /\ opened' = IF Redeems(client[c])
                 THEN [opened EXCEPT ![client[c].challenge][client[c].user] = @ + 1]
                 ELSE opened
    /\ challenges' = IF Redeems(client[c])
                     THEN Restrict(challenges, DOMAIN challenges \ {client[c].user})
                     ELSE challenges
    /\ Answer(c, IF Redeems(client[c]) THEN "ok" ELSE "error")
    /\ UNCHANGED <<now, cached_tickers, holder, worker, given, expired, served>>

-----------------------------------------------------------------------------
(* tracked_pairs.                                                          *)
worker_reads ==
    /\ worker.at = "sleeping"
    /\ holder = Free
    /\ worker' = [ at |-> "asking", fresh |-> Empty,
                   pairs |-> [f \in DOMAIN cached_tickers |-> DOMAIN cached_tickers[f]] ]
    /\ UNCHANGED <<now, runtime, client, history>>

Without(pairs, f) == Restrict(pairs, DOMAIN pairs \ {f})

worker_asks(f) ==
    /\ worker.at = "asking"
    /\ f \in DOMAIN worker.pairs
    /\ \E vals \in Answers(worker.pairs[f], now) :
          worker' = [ worker EXCEPT
                        !.pairs = Without(@, f),
                        !.fresh = [g \in DOMAIN @ \union {f} |-> IF g = f THEN vals ELSE @[g]] ]
    /\ UNCHANGED <<now, runtime, client, history>>

(* Mutant: the rates of a symbol that cannot be had are kept.              *)
worker_asks_fails_keeping(f) ==
    /\ "error" \in kinds
    /\ worker.at = "asking"
    /\ f \in DOMAIN worker.pairs
    /\ worker' = [ worker EXCEPT
                     !.pairs = Without(@, f),
                     !.fresh = [g \in DOMAIN @ \union {f} |->
                                  IF g = f THEN Submap(f) ELSE @[g]] ]
    /\ UNCHANGED <<now, runtime, client, history>>

worker_asks_fails(f) ==
    /\ "error" \in kinds
    /\ worker.at = "asking"
    /\ f \in DOMAIN worker.pairs
    /\ worker' = [ worker EXCEPT !.pairs = Without(@, f) ]
    /\ UNCHANGED <<now, runtime, client, history>>

worker_replaces ==
    /\ worker.at = "asking"
    /\ DOMAIN worker.pairs = {}
    /\ holder = Free
    /\ cached_tickers' = worker.fresh
    /\ worker' = Sleeping
    /\ UNCHANGED <<now, challenges, holder, client, history>>

(* Mutant: the challenges are kept.                                        *)
RestartKeepsChallenges ==
    /\ cached_tickers' = Empty
    /\ holder' = Free
    /\ client' = [c \in Clients |-> Idle("none")]
    /\ worker' = Sleeping
    /\ expired' = DOMAIN given
    /\ UNCHANGED <<now, challenges, given, opened, served>>

(* The hot wallet stops and is started again; challenges that clients hold *)
(* and have signed are still around.                                       *)
Restart ==
    /\ cached_tickers' = Empty
    /\ challenges' = Empty
    /\ holder' = Free
    /\ client' = [c \in Clients |-> Idle("none")]
    /\ worker' = Sleeping
    /\ expired' = DOMAIN given
    /\ UNCHANGED <<now, given, opened, served>>

(* Challenges drawn or about to be.                                        *)
Drawn == Cardinality(DOMAIN given) + Cardinality({ d \in Clients : client[d].at = "get challenge" })

Requests(c) ==
    \/ \E f \in From : Request(c, Ticker(f)) \/ \E t \in To : Request(c, Pair(f, t))
    \/ /\ "keys" \in kinds
       /\ \E u \in Users :
             \/ Drawn < MaxChallenges /\ Request(c, GetChallenge(u))
             \/ \E k \in DOMAIN given : Request(c, Redeem(u, k))

Provider(c) == ticker_reply(c) \/ pair_reply(c) \/ provider_fails(c)

Handler(c) == cache_hit(c) \/ cache_miss(c) \/ get_challenge(c) \/ redeem_challenge(c)

ticker_worker ==
    \/ worker_reads
    \/ \E f \in From : worker_asks(f) \/ worker_asks_fails(f)
    \/ worker_replaces

RuntimeNext ==
    /\ UNCHANGED kinds
    /\ \/ RatesChange
       \/ \E c \in Clients : Requests(c) \/ Handler(c) \/ Provider(c)
       \/ ticker_worker
       \/ Restart

(* Each call to the provider is answered or breaks (no timeout is set, so  *)
(* this is asked of the provider), and the mutex is tokio's,               *)
(* which lets those who wait in one after the other.  A client who gets an *)
(* answer need not come again.                                             *)
RuntimeSpec ==
    /\ RuntimeInit
    /\ [][RuntimeNext]_vars
    /\ \A c \in Clients : /\ WF_state(Provider(c) /\ UNCHANGED kinds)
                          /\ SF_state(Handler(c) /\ UNCHANGED kinds)
    /\ SF_state((worker_reads \/ worker_replaces) /\ UNCHANGED kinds)
    /\ WF_state((\E f \in From : worker_asks(f) \/ worker_asks_fails(f)) /\ UNCHANGED kinds)

-----------------------------------------------------------------------------
(* The mutex is held only by a request that asks the provider, and each    *)
(* challenge in RuntimeState is the latest drawn for its user.             *)
RuntimeTypeOK ==
    /\ DOMAIN cached_tickers \subseteq From
    /\ \A f \in DOMAIN cached_tickers : cached_tickers[f] \in Tickers
    /\ \A c \in Clients : (holder = c) = (client[c].at = "asking")
    /\ \A u \in DOMAIN challenges :
          /\ given[challenges[u]] = u
          /\ \A k \in DOMAIN given : given[k] = u => k <= challenges[u]

(* As long as the provider answers in full, whatever the cache holds after *)
(* other requests, refreshes, failures and restarts, ticker can decode     *)
(* what it answers with.  After one answer that lacks a currency it cannot *)
(* any more: the half in the cache and the half that is asked for take     *)
(* turns, and only one is decoded.                                         *)
TickerIsDecoded ==
    "partial" \notin kinds => \A c \in Clients : client[c] # Idle("undecodable")

(* No client is told an older rate of a pair after a newer one, though the *)
(* refresh overwrites the cache with rates it asked for without the mutex. *)
RatesNeverGoBack ==
    [][ "partial" \notin kinds =>
          \A p \in From \X To : served'[p] >= served[p] ]_vars

(* A challenge opens one session at most, of the user it was drawn for,    *)
(* and none once the user has drawn another or the hot wallet has stopped. *)
ChallengeOnce ==
    [][ \A k \in Challenges, u \in Users :
          opened'[k][u] # opened[k][u] =>
             /\ k \in DOMAIN given \ expired /\ given[k] = u
             /\ opened[k][u] = 0
             /\ \A j \in DOMAIN given : given[j] = u => j <= k ]_vars

(* A rate that is cached does not stay when it is no longer true: it is    *)
(* refreshed, or dropped if the provider cannot be reached.                *)
StaleRatesGo ==
    \A f \in From, t \in To, r \in 0..MaxRate :
        (f \in DOMAIN cached_tickers /\ t \in DOMAIN Submap(f) /\ Submap(f)[t] = r /\ r < now)
            ~> ~(f \in DOMAIN cached_tickers /\ t \in DOMAIN Submap(f) /\ Submap(f)[t] = r)

(* Nobody waits for ever, neither for rates nor to sign in with a key      *)
(* behind others who ask for rates, as long as the provider comes to an    *)
(* answer or an error.                                                     *)
EveryoneIsServed == \A c \in Clients : client[c].at # "idle" ~> client[c].at = "idle"
=============================================================================
